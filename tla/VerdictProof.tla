----------------------------- MODULE VerdictProof -----------------------------
(***************************************************************************)
(* Proofs about the client address, the echo and the verdict, for any      *)
(* headers a proxy may send, any supported deployment and any number of    *)
(* hops behind a CDN.                                                      *)
(***************************************************************************)
EXTENDS Verdict, WellFoundedInduction, SequenceTheorems, TLAPS

-----------------------------------------------------------------------------
\* Induction, on sets of numbers and of sequences.

LEMMA LeastNumber == ASSUME NEW T, T \subseteq Nat, T # {} PROVE \E x \in T : \A y \in T : ~(y < x)
<1>1. \A x, y \in Nat : y < x => <<y, x>> \in OpToRel(<, Nat)
  BY DEF OpToRel
<1>2. \E x \in T : \A y \in T : ~(<<y, x>> \in OpToRel(<, Nat))
  BY WFMin, NatLessThanWellFounded, Zenon
<1> QED BY <1>1, <1>2, Zenon

LEMMA UpTo ==
  ASSUME NEW m \in Nat, NEW G, 0 \in G, \A n \in 0..m - 1 : n \in G => n + 1 \in G
  PROVE  \A n \in 0..m : n \in G
<1> SUFFICES ASSUME NEW k \in 0..m, k \notin G PROVE FALSE
  OBVIOUS
<1> DEFINE T == {n \in 0..m : n \notin G}
<1>1. PICK x \in T : \A y \in T : ~(y < x)
  <2>1. T \subseteq Nat /\ T # {}
    OBVIOUS
  <2> HIDE DEF T
  <2> QED BY <2>1, LeastNumber
<1>2. x # 0 /\ x - 1 \in 0..m - 1
  BY <1>1
<1>3. x - 1 \in G
  BY <1>1, <1>2
<1> QED BY <1>1, <1>2, <1>3

\* A set that has the empty sequence and, with a sequence, all that are one element
\* longer, has all sequences.
LEMMA AllSequences ==
  ASSUME NEW T, NEW G, <<>> \in G,
         \A v \in Seq(T), x \in T : v \in G => Append(v, x) \in G
  PROVE  Seq(T) \subseteq G
<1> SUFFICES ASSUME NEW v \in Seq(T) PROVE v \in G
  OBVIOUS
<1> DEFINE H == {n \in 0..Len(v) : SubSeq(v, 1, n) \in G}
<1>1. 0 \in H
  <2>1. SubSeq(v, 1, 0) = <<>> /\ 0 \in 0..Len(v)
    OBVIOUS
  <2> QED BY <2>1, Zenon
<1>2. \A n \in 0..Len(v) - 1 : n \in H => n + 1 \in H
  <2> SUFFICES ASSUME NEW n \in 0..Len(v) - 1, SubSeq(v, 1, n) \in G
               PROVE  SubSeq(v, 1, n + 1) \in G
    OBVIOUS
  <2>1. SubSeq(v, 1, n) \in Seq(T) /\ v[n + 1] \in T
    OBVIOUS
  <2>2. SubSeq(v, 1, n + 1) = Append(SubSeq(v, 1, n), v[n + 1])
    OBVIOUS
  <2> QED BY <2>1, <2>2
<1>3. Len(v) \in Nat /\ Len(v) \in 0..Len(v) /\ SubSeq(v, 1, Len(v)) = v
  OBVIOUS
<1>4. Len(v) \in H
  <2> HIDE DEF H
  <2> QED BY <1>1, <1>2, <1>3, UpTo
<1> QED BY <1>3, <1>4

-----------------------------------------------------------------------------
\* Functions defined by recursion over the positions of a sequence.

\* What is computed from b by steps g.
Run(f, m, b, g) == f[0] = b /\ \A n \in 1..m : f[n] = g[<<n, f[n - 1]>>]

LEMMA Before ==
  ASSUME NEW m \in Nat, NEW X, NEW r \in [0..m -> X], NEW i \in 1..m
  PROVE  i - 1 \in 0..m /\ r[i - 1] \in X
OBVIOUS

LEMMA RunExists ==
  ASSUME NEW m \in Nat, NEW X, NEW b \in X, NEW g \in [(1..m) \X X -> X]
  PROVE  \E f \in [0..m -> X] : Run(f, m, b, g)
<1> DEFINE G == {n \in 0..m : \E f \in [0..n -> X] : Run(f, n, b, g)}
<1>1. 0 \in G
  <2>1. [i \in 0..0 |-> b] \in [0..0 -> X] /\ Run([i \in 0..0 |-> b], 0, b, g)
    BY DEF Run
  <2> QED BY <2>1
<1>2. ASSUME NEW n \in 0..m - 1, n \in G PROVE n + 1 \in G
  <2>1. PICK f \in [0..n -> X] : Run(f, n, b, g)
    BY <1>2
  <2> DEFINE h == [i \in 0..n + 1 |-> IF i <= n THEN f[i] ELSE g[<<n + 1, f[n]>>]]
  <2>2. f[n] \in X /\ <<n + 1, f[n]>> \in (1..m) \X X
    OBVIOUS
  <2>3. h \in [0..n + 1 -> X]
    BY <2>2
  <2>4. /\ h[n + 1] = g[<<n + 1, f[n]>>] /\ \A i \in 0..n : h[i] = f[i]
        /\ 0 \in 0..n /\ n \in 0..n /\ (n + 1) - 1 = n
        /\ \A i \in 1..n : i \in 0..n /\ i - 1 \in 0..n
        /\ \A i \in 1..n + 1 : i \in 1..n \/ i = n + 1
    OBVIOUS
  <2> HIDE DEF h
  <2>5. h[0] = b /\ \A i \in 1..n : h[i] = g[<<i, h[i - 1]>>]
    BY <2>1, <2>4 DEF Run
  <2>6. Run(h, n + 1, b, g)
    BY <2>4, <2>5 DEF Run
  <2>7. n + 1 \in 0..m
    OBVIOUS
  <2> QED BY <2>3, <2>6, <2>7
<1>3. m \in G
  <2> HIDE DEF G
  <2> QED BY <1>1, <1>2, UpTo
<1> QED BY <1>3

LEMMA RunUnique ==
  ASSUME NEW m \in Nat, NEW b, NEW g, NEW f, NEW h, Run(f, m, b, g), Run(h, m, b, g)
  PROVE  \A n \in 0..m : f[n] = h[n]
<1> DEFINE G == {n \in 0..m : f[n] = h[n]}
<1>1. 0 \in G
  BY DEF Run
<1>2. \A n \in 0..m - 1 : n \in G => n + 1 \in G
  <2> SUFFICES ASSUME NEW n \in 0..m - 1, f[n] = h[n]
               PROVE  n + 1 \in 0..m /\ f[n + 1] = h[n + 1]
    OBVIOUS
  <2>1. n + 1 \in 1..m /\ n + 1 \in 0..m /\ (n + 1) - 1 = n
    OBVIOUS
  <2>2. f[n + 1] = g[<<n + 1, f[n]>>] /\ h[n + 1] = g[<<n + 1, h[n]>>]
    BY <2>1 DEF Run
  <2> QED BY <2>1, <2>2
<1> HIDE DEF G
<1>3. \A n \in 0..m : n \in G
  BY <1>1, <1>2, UpTo
<1> QED BY <1>3 DEF G

-----------------------------------------------------------------------------
\* The elements of a sequence that are in a set.

KeptIs(f, s, set) ==
  f = [n \in 0..Len(s) |->
         IF n = 0 THEN <<>> ELSE IF s[n] \in set THEN Append(f[n - 1], s[n]) ELSE f[n - 1]]

\* The function by which Only is defined.
Kept(s, set) == CHOOSE f : KeptIs(f, s, set)

KeptSteps(f, s, set) ==
  /\ f[0] = <<>>
  /\ \A n \in 1..Len(s) : f[n] = IF s[n] \in set THEN Append(f[n - 1], s[n]) ELSE f[n - 1]

LEMMA KeptRuns ==
  ASSUME NEW T, NEW s \in Seq(T), NEW set
  PROVE  /\ Only(s, set) = Kept(s, set)[Len(s)]
         /\ Kept(s, set) \in [0..Len(s) -> Seq(T \cap set)]
         /\ KeptSteps(Kept(s, set), s, set)
<1> DEFINE X == Seq(T \cap set)
           b == <<>>
           g == [p \in (1..Len(s)) \X X |-> IF s[p[1]] \in set THEN Append(p[2], s[p[1]]) ELSE p[2]]
<1>0. Len(s) \in Nat /\ b \in X
  OBVIOUS
<1>1. g \in [(1..Len(s)) \X X -> X]
  <2> SUFFICES ASSUME NEW p \in (1..Len(s)) \X X
               PROVE  (IF s[p[1]] \in set THEN Append(p[2], s[p[1]]) ELSE p[2]) \in X
    OBVIOUS
  <2>1. p[1] \in 1..Len(s) /\ p[2] \in X /\ s[p[1]] \in T
    OBVIOUS
  <2> QED BY <2>1
<1>2. PICK f \in [0..Len(s) -> X] : Run(f, Len(s), b, g)
  <2> HIDE DEF X, b, g
  <2> QED BY <1>0, <1>1, RunExists
<1>3. \A n \in 1..Len(s) : f[n] = IF s[n] \in set THEN Append(f[n - 1], s[n]) ELSE f[n - 1]
  <2> SUFFICES ASSUME NEW n \in 1..Len(s)
               PROVE  f[n] = IF s[n] \in set THEN Append(f[n - 1], s[n]) ELSE f[n - 1]
    OBVIOUS
  <2>1. n - 1 \in 0..Len(s) /\ f[n - 1] \in X
    OBVIOUS
  <2>2. f[n] = g[<<n, f[n - 1]>>]
    <3> HIDE DEF g
    <3> QED BY <1>2 DEF Run
  <2> QED BY <2>1, <2>2
<1>4. KeptIs(f, s, set)
  <2>1. f[0] = <<>>
    BY <1>2 DEF Run
  <2>2. \A n \in 0..Len(s) : n = 0 \/ n \in 1..Len(s)
    OBVIOUS
  <2> HIDE DEF X, b, g
  <2> QED BY <1>2, <1>3, <2>1, <2>2 DEF KeptIs
<1>5. KeptIs(Kept(s, set), s, set)
  BY <1>4, Zenon DEF Kept
<1> DEFINE k == Kept(s, set)
<1> HIDE DEF k
<1>6. k = [n \in 0..Len(s) |-> IF n = 0 THEN <<>> ELSE IF s[n] \in set THEN Append(k[n - 1], s[n]) ELSE k[n - 1]]
  BY <1>5 DEF KeptIs, k
<1>7. k[0] = <<>> /\ \A n \in 1..Len(s) : k[n] = IF s[n] \in set THEN Append(k[n - 1], s[n]) ELSE k[n - 1]
  <2>1. 0 \in 0..Len(s) /\ \A n \in 1..Len(s) : n \in 0..Len(s) /\ n # 0
    BY <1>0
  <2> QED BY <1>6, <2>1
<1>8. k \in [0..Len(s) -> X]
  <2> DEFINE G == {n \in 0..Len(s) : k[n] \in X}
  <2>1. 0 \in G
    <3>1. k[0] \in X
      BY <1>0, <1>7, Zenon
    <3>2. 0 \in 0..Len(s)
      BY <1>0
    <3> QED BY <3>1, <3>2
  <2>2. \A n \in 0..Len(s) - 1 : n \in G => n + 1 \in G
    <3> SUFFICES ASSUME NEW n \in 0..Len(s) - 1, k[n] \in X PROVE k[n + 1] \in X
      OBVIOUS
    <3>1. n + 1 \in 1..Len(s) /\ (n + 1) - 1 = n /\ s[n + 1] \in T
      OBVIOUS
    <3>2. k[n + 1] = IF s[n + 1] \in set THEN Append(k[n], s[n + 1]) ELSE k[n]
      BY <1>7, <3>1
    <3> QED BY <3>1, <3>2
  <2>3. \A n \in 0..Len(s) : n \in G
    <3> HIDE DEF G
    <3> QED BY <1>0, <2>1, <2>2, UpTo
  <2> HIDE DEF X
  <2> QED BY <1>6, <2>3
<1>9. Only(s, set) = k[Len(s)]
  BY DEF Only, Kept, KeptIs, k
<1>10. KeptSteps(k, s, set)
  BY <1>7 DEF KeptSteps
<1> QED BY <1>8, <1>9, <1>10 DEF k

\* The laws of Only.
LEMMA OnlyEmpty == ASSUME NEW set PROVE Only(<<>>, set) = <<>>
<1> DEFINE e == <<>>
<1>1. e \in Seq({}) /\ Len(e) = 0
  OBVIOUS
<1>2. Only(e, set) = Kept(e, set)[Len(e)] /\ KeptSteps(Kept(e, set), e, set)
  <2> HIDE DEF e
  <2> QED BY <1>1, KeptRuns
<1>3. Kept(e, set)[0] = <<>>
  BY <1>2 DEF KeptSteps
<1> HIDE DEF e
<1>4. Only(e, set) = <<>>
  BY <1>1, <1>2, <1>3
<1> QED BY <1>4 DEF e

LEMMA OnlyType == ASSUME NEW T, NEW s \in Seq(T), NEW set PROVE Only(s, set) \in Seq(T \cap set)
<1>1. Len(s) \in 0..Len(s)
  OBVIOUS
<1>2. Kept(s, set) \in [0..Len(s) -> Seq(T \cap set)] /\ Only(s, set) = Kept(s, set)[Len(s)]
  BY KeptRuns
<1> QED BY <1>1, <1>2

LEMMA OnlyAppend ==
  ASSUME NEW T, NEW s \in Seq(T), NEW x \in T, NEW set
  PROVE  Only(Append(s, x), set) = IF x \in set THEN Append(Only(s, set), x) ELSE Only(s, set)
<1> DEFINE t == Append(s, x)
           f == Kept(s, set)
           h == Kept(t, set)
           m == Len(s)
<1>1. /\ m \in Nat /\ t \in Seq(T) /\ Len(t) = m + 1 /\ t[m + 1] = x
      /\ \A n \in 1..m : t[n] = s[n]
  OBVIOUS
<1>2. /\ Only(s, set) = f[m] /\ f[0] = <<>>
      /\ \A n \in 1..m : f[n] = IF s[n] \in set THEN Append(f[n - 1], s[n]) ELSE f[n - 1]
  <2>1. Only(s, set) = Kept(s, set)[Len(s)] /\ KeptSteps(Kept(s, set), s, set)
    BY KeptRuns
  <2> QED BY <2>1 DEF KeptSteps
<1>3. /\ Only(t, set) = h[m + 1] /\ h[0] = <<>>
      /\ \A n \in 1..m + 1 : h[n] = IF t[n] \in set THEN Append(h[n - 1], t[n]) ELSE h[n - 1]
  <2> HIDE DEF t
  <2>1. Only(t, set) = Kept(t, set)[Len(t)] /\ KeptSteps(Kept(t, set), t, set)
    BY <1>1, KeptRuns
  <2> QED BY <1>1, <2>1 DEF KeptSteps
<1> HIDE DEF t, f, h, m
<1>4. \A n \in 0..m : h[n] = f[n]
  <2> DEFINE G == {n \in 0..m : h[n] = f[n]}
  <2>1. 0 \in G
    BY <1>1, <1>2, <1>3
  <2>2. \A n \in 0..m - 1 : n \in G => n + 1 \in G
    <3> SUFFICES ASSUME NEW n \in 0..m - 1, h[n] = f[n] PROVE n + 1 \in 0..m /\ h[n + 1] = f[n + 1]
      OBVIOUS
    <3>1. n + 1 \in 1..m /\ n + 1 \in 0..m /\ n + 1 \in 1..m + 1 /\ (n + 1) - 1 = n
      BY <1>1
    <3>2. f[n + 1] = IF s[n + 1] \in set THEN Append(f[n], s[n + 1]) ELSE f[n]
      BY <1>2, <3>1
    <3>3. h[n + 1] = IF s[n + 1] \in set THEN Append(h[n], s[n + 1]) ELSE h[n]
      BY <1>1, <1>3, <3>1
    <3> QED BY <3>1, <3>2, <3>3
  <2> HIDE DEF G
  <2>3. \A n \in 0..m : n \in G
    BY <1>1, <2>1, <2>2, UpTo
  <2> QED BY <2>3 DEF G
<1>5. m + 1 \in 1..m + 1 /\ (m + 1) - 1 = m /\ m \in 0..m
  BY <1>1
<1>6. h[m + 1] = IF x \in set THEN Append(f[m], x) ELSE f[m]
  BY <1>1, <1>3, <1>4, <1>5
<1>7. Only(t, set) = IF x \in set THEN Append(Only(s, set), x) ELSE Only(s, set)
  BY <1>2, <1>3, <1>6
<1> QED BY <1>7 DEF t

\* Nothing is left out of a sequence of elements of the set.
LEMMA OnlyAll == ASSUME NEW set, NEW s \in Seq(set) PROVE Only(s, set) = s
<1> DEFINE G == {v \in Seq(set) : Only(v, set) = v}
<1>1. <<>> \in G
  BY OnlyEmpty
<1>2. \A v \in Seq(set), x \in set : v \in G => Append(v, x) \in G
  BY OnlyAppend
<1> HIDE DEF G
<1>3. Seq(set) \subseteq G
  BY <1>1, <1>2, AllSequences
<1> QED BY <1>3 DEF G

Holds(s, y) == \E i \in 1..Len(s) : s[i] = y

\* It holds the elements that are in the set.
LEMMA OnlyElements ==
  ASSUME NEW T, NEW s \in Seq(T), NEW set, NEW y
  PROVE  Holds(Only(s, set), y) <=> y \in set /\ Holds(s, y)
<1> DEFINE G == {v \in Seq(T) : Holds(Only(v, set), y) <=> y \in set /\ Holds(v, y)}
<1>1. ASSUME NEW U, NEW v \in Seq(U), NEW x \in U PROVE Holds(Append(v, x), y) <=> Holds(v, y) \/ x = y
  <2>1. Len(v) \in Nat /\ Len(Append(v, x)) = Len(v) + 1 /\ Append(v, x)[Len(v) + 1] = x
    OBVIOUS
  <2>2. \A i \in 1..Len(v) : Append(v, x)[i] = v[i]
    OBVIOUS
  <2>3. \A i : i \in 1..Len(v) + 1 <=> i \in 1..Len(v) \/ i = Len(v) + 1
    BY <2>1
  <2> QED BY <2>1, <2>2, <2>3 DEF Holds
<1>2. ~Holds(<<>>, y)
  BY DEF Holds
<1>3. <<>> \in G
  BY <1>2, OnlyEmpty
<1>4. \A v \in Seq(T), x \in T : v \in G => Append(v, x) \in G
  <2> SUFFICES ASSUME NEW v \in Seq(T), NEW x \in T, Holds(Only(v, set), y) <=> y \in set /\ Holds(v, y)
               PROVE  Holds(Only(Append(v, x), set), y) <=> y \in set /\ Holds(Append(v, x), y)
    OBVIOUS
  <2>1. Holds(Append(v, x), y) <=> Holds(v, y) \/ x = y
    BY <1>1
  <2>2. CASE x \in set
    <3>1. Only(Append(v, x), set) = Append(Only(v, set), x) /\ Only(v, set) \in Seq(T \cap set)
      BY <2>2, OnlyAppend, OnlyType, SMTT(30)
    <3>2. Holds(Append(Only(v, set), x), y) <=> Holds(Only(v, set), y) \/ x = y
      BY <1>1, <2>2, <3>1
    <3> QED BY <2>1, <2>2, <3>1, <3>2
  <2>3. CASE x \notin set
    BY <2>1, <2>3, OnlyAppend
  <2> QED BY <2>2, <2>3
<1> HIDE DEF G
<1>5. s \in G
  BY <1>3, <1>4, AllSequences
<1> QED BY <1>5 DEF G

\* What is kept of two sequences in a row.
LEMMA OnlyConcat ==
  ASSUME NEW T, NEW s \in Seq(T), NEW t \in Seq(T), NEW set
  PROVE  Only(s \o t, set) = Only(s, set) \o Only(t, set)
<1> DEFINE Law(v) == Only(s \o v, set) = Only(s, set) \o Only(v, set)
           G == {v \in Seq(T) : Law(v)}
<1>1. Only(s, set) \in Seq(T \cap set)
  BY OnlyType
<1>2. <<>> \in G
  <2>1. s \o <<>> = s /\ Only(s, set) \o <<>> = Only(s, set) /\ <<>> \in Seq(T)
    BY <1>1
  <2> QED BY <2>1, OnlyEmpty
<1>3. ASSUME NEW v \in Seq(T), NEW x \in T, Law(v) PROVE Law(Append(v, x))
  <2> DEFINE w == s \o v
             a == Only(s, set)
             c == Only(v, set)
  <2>1. s \o Append(v, x) = Append(w, x) /\ w \in Seq(T)
    OBVIOUS
  <2>2. c \in Seq(T \cap set)
    BY OnlyType
  <2>3. Only(w, set) = a \o c
    BY <1>3
  <2>4. Only(Append(w, x), set) = IF x \in set THEN Append(Only(w, set), x) ELSE Only(w, set)
    <3> HIDE DEF w
    <3> QED BY <2>1, OnlyAppend
  <2>5. Only(Append(v, x), set) = IF x \in set THEN Append(c, x) ELSE c
    BY OnlyAppend
  <2>6. x \in set => a \o Append(c, x) = Append(a \o c, x)
    BY <1>1, <2>2
  <2> HIDE DEF w, a, c
  <2>7. Only(s \o Append(v, x), set) = a \o Only(Append(v, x), set)
    BY <2>1, <2>3, <2>4, <2>5, <2>6
  <2> QED BY <2>7 DEF a
<1> HIDE DEF Law
<1>5. \A v \in Seq(T), x \in T : v \in G => Append(v, x) \in G
  <2>1. \A v \in Seq(T), x \in T : Append(v, x) \in Seq(T)
    OBVIOUS
  <2> QED BY <1>3, <2>1
<1> HIDE DEF G
<1>4. t \in G
  BY <1>2, <1>5, AllSequences
<1> QED BY <1>4 DEF G, Law

\* An entry that a proxy adds to the end of the header, seen from what was sent.
LEMMA OneByOne == \A s, t \in Seq(Tokens), x \in Tokens : Append(s \o t, x) = s \o Append(t, x)
OBVIOUS

-----------------------------------------------------------------------------
\* The lines of a header, joined.

FlatIs(f, s) == f = [i \in 1..Len(s) |-> IF i = 1 THEN s[i] ELSE f[i - 1] \o s[i]]

\* The function by which FlattenSeq is defined.
Flat(s) == CHOOSE f : FlatIs(f, s)

FlatSteps(f, s) == \A i \in 1..Len(s) : f[i] = IF i = 1 THEN s[1] ELSE f[i - 1] \o s[i]

LEMMA FlatRuns ==
  ASSUME NEW T, NEW s \in Seq(Seq(T)), s # <<>>
  PROVE  /\ FlattenSeq(s) = Flat(s)[Len(s)]
         /\ Flat(s) \in [1..Len(s) -> Seq(T)]
         /\ FlatSteps(Flat(s), s)
<1> DEFINE X == Seq(T)
           b == <<>>
           g == [p \in (1..Len(s)) \X X |-> IF p[1] = 1 THEN s[1] ELSE p[2] \o s[p[1]]]
<1>0. Len(s) \in Nat /\ Len(s) # 0 /\ b \in X /\ \A i \in 1..Len(s) : s[i] \in X
  OBVIOUS
<1>1. g \in [(1..Len(s)) \X X -> X]
  <2> SUFFICES ASSUME NEW p \in (1..Len(s)) \X X
               PROVE  (IF p[1] = 1 THEN s[1] ELSE p[2] \o s[p[1]]) \in X
    OBVIOUS
  <2>1. p[1] \in 1..Len(s) /\ p[2] \in X
    OBVIOUS
  <2>2. s[p[1]] \in Seq(T) /\ s[1] \in Seq(T)
    BY <1>0, <2>1
  <2> QED BY <2>1, <2>2
<1>2. PICK r \in [0..Len(s) -> X] : Run(r, Len(s), b, g)
  <2> HIDE DEF X, b, g
  <2> QED BY <1>0, <1>1, RunExists
<1> DEFINE f == [i \in 1..Len(s) |-> r[i]]
<1>3. \A i \in 1..Len(s) : f[i] = IF i = 1 THEN s[1] ELSE f[i - 1] \o s[i]
  <2> SUFFICES ASSUME NEW i \in 1..Len(s)
               PROVE  r[i] = IF i = 1 THEN s[1] ELSE r[i - 1] \o s[i]
    OBVIOUS
  <2>1. i - 1 \in 0..Len(s) /\ r[i - 1] \in X
    <3> HIDE DEF X, b, g
    <3> QED BY <1>0, Before
  <2>2. r[i] = g[<<i, r[i - 1]>>]
    <3> HIDE DEF g
    <3> QED BY <1>2 DEF Run
  <2> QED BY <2>1, <2>2
<1>4. FlatIs(f, s)
  <2>1. f = [i \in 1..Len(s) |-> f[i]]
    OBVIOUS
  <2> HIDE DEF f
  <2>2. \A i \in 1..Len(s) : f[i] = IF i = 1 THEN s[i] ELSE f[i - 1] \o s[i]
    BY <1>3
  <2>3. f = [i \in 1..Len(s) |-> IF i = 1 THEN s[i] ELSE f[i - 1] \o s[i]]
    BY <2>1, <2>2
  <2> QED BY <2>3 DEF FlatIs
<1>5. FlatIs(Flat(s), s)
  BY <1>4, Zenon DEF Flat
<1> DEFINE k == Flat(s)
<1> HIDE DEF k
<1>6. k = [i \in 1..Len(s) |-> IF i = 1 THEN s[i] ELSE k[i - 1] \o s[i]]
  BY <1>5 DEF FlatIs, k
<1>7. \A i \in 1..Len(s) : k[i] = IF i = 1 THEN s[1] ELSE k[i - 1] \o s[i]
  BY <1>6
<1>8. k \in [1..Len(s) -> X]
  <2> DEFINE G == {n \in 0..Len(s) : n = 0 \/ k[n] \in X}
  <2>1. 0 \in G
    BY <1>0
  <2>2. \A n \in 0..Len(s) - 1 : n \in G => n + 1 \in G
    <3> SUFFICES ASSUME NEW n \in 0..Len(s) - 1, n = 0 \/ k[n] \in X PROVE k[n + 1] \in X
      OBVIOUS
    <3>1. n + 1 \in 1..Len(s) /\ (n + 1) - 1 = n /\ s[n + 1] \in X /\ (n + 1 = 1 <=> n = 0)
      BY <1>0
    <3>2. k[n + 1] = IF n = 0 THEN s[1] ELSE k[n] \o s[n + 1]
      BY <1>7, <3>1
    <3> QED BY <1>0, <3>1, <3>2
  <2>3. \A n \in 0..Len(s) : n \in G
    <3> HIDE DEF G
    <3> QED BY <1>0, <2>1, <2>2, UpTo
  <2>4. \A n \in 1..Len(s) : k[n] \in X
    BY <2>3
  <2> HIDE DEF X
  <2> QED BY <1>6, <2>4
<1>9. FlattenSeq(s) = k[Len(s)]
  BY <1>0 DEF FlattenSeq, Flat, FlatIs, k
<1>10. FlatSteps(k, s)
  BY <1>7 DEF FlatSteps
<1> QED BY <1>8, <1>9, <1>10 DEF k

LEMMA FlattenEmpty == FlattenSeq(<<>>) = <<>>
BY DEF FlattenSeq

LEMMA FlattenOne == ASSUME NEW T, NEW x \in Seq(T) PROVE FlattenSeq(<<x>>) = x
<1> DEFINE s == <<x>>
<1>1. s \in Seq(Seq(T)) /\ s # <<>> /\ Len(s) = 1 /\ s[1] = x /\ 1 \in 1..1
  OBVIOUS
<1>2. FlattenSeq(s) = Flat(s)[Len(s)] /\ FlatSteps(Flat(s), s)
  <2> HIDE DEF s
  <2> QED BY <1>1, FlatRuns
<1>3. Flat(s)[1] = x
  <2> HIDE DEF s
  <2> QED BY <1>1, <1>2 DEF FlatSteps
<1> HIDE DEF s
<1>4. FlattenSeq(s) = x
  BY <1>1, <1>2, <1>3
<1> QED BY <1>4 DEF s

LEMMA FlattenType == ASSUME NEW T, NEW s \in Seq(Seq(T)) PROVE FlattenSeq(s) \in Seq(T)
<1>1. CASE s = <<>>
  <2>1. <<>> \in Seq(T)
    OBVIOUS
  <2> QED BY <1>1, <2>1, FlattenEmpty
<1>2. CASE s # <<>>
  <2>1. Len(s) \in 1..Len(s)
    BY <1>2
  <2>2. FlattenSeq(s) = Flat(s)[Len(s)] /\ Flat(s) \in [1..Len(s) -> Seq(T)]
    BY <1>2, FlatRuns
  <2> QED BY <2>1, <2>2
<1> QED BY <1>1, <1>2

\* A line more at the end.
LEMMA FlattenAppend ==
  ASSUME NEW T, NEW s \in Seq(Seq(T)), NEW x \in Seq(T)
  PROVE  FlattenSeq(Append(s, x)) = FlattenSeq(s) \o x
<1> DEFINE t == Append(s, x)
           m == Len(s)
<1>1. /\ m \in Nat /\ t \in Seq(Seq(T)) /\ t # <<>> /\ Len(t) = m + 1 /\ t[m + 1] = x
      /\ \A n \in 1..m : t[n] = s[n]
  <2> DEFINE X == Seq(T)
  <2>1. s \in Seq(X) /\ x \in X
    OBVIOUS
  <2> HIDE DEF X
  <2>2. m \in Nat /\ t \in Seq(X) /\ Len(t) = m + 1 /\ t[m + 1] = x /\ \A n \in 1..m : t[n] = s[n]
    BY <2>1
  <2>3. t # <<>>
    BY <2>2
  <2> QED BY <2>2, <2>3 DEF X
<1>2. CASE s = <<>>
  <2>1. t = <<x>> /\ <<>> \o x = x
    BY <1>2
  <2> QED BY <1>2, <2>1, FlattenOne, FlattenEmpty
<1>3. CASE s # <<>>
  <2> DEFINE f == Flat(s)
             h == Flat(t)
  <2>1. FlattenSeq(s) = f[m] /\ FlatSteps(f, s)
    BY <1>3, FlatRuns
  <2>2. FlattenSeq(t) = h[Len(t)] /\ FlatSteps(h, t)
    <3> HIDE DEF t
    <3> QED BY <1>1, FlatRuns
  <2> HIDE DEF t, f, h
  <2>3. \A i \in 1..m : f[i] = IF i = 1 THEN s[1] ELSE f[i - 1] \o s[i]
    BY <2>1 DEF FlatSteps
  <2>4. \A i \in 1..m + 1 : h[i] = IF i = 1 THEN t[1] ELSE h[i - 1] \o t[i]
    BY <1>1, <2>2 DEF FlatSteps
  <2>5. m # 0
    BY <1>3
  <2> HIDE DEF m
  <2> DEFINE G == {n \in 0..m : n = 0 \/ h[n] = f[n]}
  <2>6. 0 \in G
    BY <1>1
  <2>7. \A n \in 0..m - 1 : n \in G => n + 1 \in G
    <3> SUFFICES ASSUME NEW n \in 0..m - 1, n = 0 \/ h[n] = f[n]
                 PROVE  n + 1 \in 0..m /\ h[n + 1] = f[n + 1]
      OBVIOUS
    <3>1. n + 1 \in 1..m /\ n + 1 \in 0..m /\ n + 1 \in 1..m + 1 /\ (n + 1) - 1 = n
          /\ (n + 1 = 1 <=> n = 0) /\ 1 \in 1..m
      BY <1>1
    <3>2. f[n + 1] = IF n = 0 THEN s[1] ELSE f[n] \o s[n + 1]
      BY <2>3, <3>1
    <3>3. h[n + 1] = IF n = 0 THEN s[1] ELSE h[n] \o s[n + 1]
      BY <1>1, <2>4, <3>1
    <3> QED BY <3>1, <3>2, <3>3
  <2> HIDE DEF G
  <2>8. m \in G
    <3>1. m \in 0..m
      BY <1>1
    <3> QED BY <1>1, <2>6, <2>7, <3>1, UpTo
  <2>9. h[m] = f[m]
    BY <2>5, <2>8 DEF G
  <2>10. m + 1 \in 1..m + 1 /\ m + 1 # 1 /\ (m + 1) - 1 = m
    BY <1>1, <2>5
  <2>11. h[m + 1] = h[m] \o x
    BY <1>1, <2>4, <2>10
  <2>12. FlattenSeq(t) = FlattenSeq(s) \o x
    BY <1>1, <2>1, <2>2, <2>9, <2>11
  <2> QED BY <2>12 DEF t
<1> QED BY <1>2, <1>3

-----------------------------------------------------------------------------
\* The way to the judge.

\* The entries that the hops passed so far have added to X-Forwarded-For.
Added == [i \in 1..at |-> Plain(IF i = 1 THEN exit ELSE deployment.hops[i - 1].addr)]

HeadersOk(h) == DOMAIN h \subseteq Names /\ \A n \in DOMAIN h : h[n] \in Seq(Seq(Tokens)) /\ h[n] # <<>>

SetSoFar(n) == \E i \in 1..at : n \in Sets(deployment.hops[i])

TouchedSoFar(n) == \E i \in 1..at : n \in Sets(deployment.hops[i]) \cup deployment.hops[i].strips

\* A header that no hop has touched is as the proxy sent it; of the others the judge
\* sees what a hop wrote or nothing.
OthersSurvive ==
  \A n \in Names \ {XFF} :
    /\ TouchedSoFar(n) /\ n \in DOMAIN headers => SetSoFar(n)
    /\ ~TouchedSoFar(n) =>
         /\ n \in DOMAIN headers <=> n \in DOMAIN sent
         /\ n \in DOMAIN headers => headers[n] = sent[n]

Placed ==
  /\ deployment \in Deployments /\ exit \in Exits /\ claim \in {Direct, NoAddr}
  /\ at \in -1..Len(deployment.hops)
  /\ socket = IF at <= 0 THEN exit ELSE deployment.hops[at].addr
  /\ Judged => at = Len(deployment.hops)

Carried ==
  at >= 0 =>
    /\ sent \in SentHeaders
    /\ HeadersOk(headers)
    /\ JoinedHeader(headers, XFF) = JoinedHeader(sent, XFF) \o Added
    /\ at >= 1 /\ deployment.trust_cf => CF \in DOMAIN headers /\ headers[CF] = << <<Plain(exit)>> >>
    /\ OthersSurvive

VerdictInv == Placed /\ Carried

\* What the README asks of the hops.
LEMMA HopFacts ==
  ASSUME NEW d \in Deployments
  PROVE  /\ Len(d.hops) \in Nat /\ Supported(d)
         /\ \A i \in 1..Len(d.hops) :
              /\ d.hops[i].addr \in Addrs \ Exits
              /\ Sets(d.hops[i]) \subseteq Names \ {XFF}
              /\ d.hops[i].strips \subseteq {CF}
              /\ CF \in Sets(d.hops[i]) <=> d.hops[i].kind = "cdn"
              /\ i > 1 => d.hops[i].kind = "edge" /\ d.hops[i].strips = {}
              /\ Sets(d.hops[i]) \ {CF} \subseteq d.edge_headers \cup InfraHeaders
<1>1. Supported(d)
  BY DeploymentsAssumption
<1>2. d.hops \in Seq(HopTypes)
  BY <1>1 DEF Supported
<1> DEFINE X == HopTypes
<1>3. d.hops \in Seq(X)
  BY <1>2
<1>4. Len(d.hops) \in Nat /\ \A i \in 1..Len(d.hops) : d.hops[i] \in X
  <2> HIDE DEF X
  <2> QED BY <1>3
<1>5. ASSUME NEW i \in 1..Len(d.hops)
      PROVE  /\ d.hops[i].addr \in Addrs \ Exits
             /\ d.hops[i].sets \subseteq Names \ {XFF, CF}
             /\ d.hops[i].strips \subseteq {CF}
             /\ i > 1 => d.hops[i].kind = "edge" /\ d.hops[i].strips = {}
             /\ d.hops[i].sets \subseteq d.edge_headers \cup InfraHeaders
  <2>1. d.hops[i] \in HopTypes
    BY <1>4
  <2>2. /\ d.hops[i].addr \in Addrs \ Exits /\ d.hops[i].sets \subseteq Names \ {XFF, CF}
        /\ d.hops[i].strips \subseteq {CF}
    BY <2>1 DEF HopTypes
  <2> QED BY <1>1, <2>2 DEF Supported
<1>6. ASSUME NEW i \in 1..Len(d.hops)
      PROVE  /\ Sets(d.hops[i]) \subseteq Names \ {XFF}
             /\ CF \in Sets(d.hops[i]) <=> d.hops[i].kind = "cdn"
             /\ Sets(d.hops[i]) \ {CF} \subseteq d.edge_headers \cup InfraHeaders
  <2>1. CF \in Names \ {XFF}
    BY DEF CF, XFF, Names, CfInfraHeaders
  <2> QED BY <1>5, <2>1 DEF Sets
<1> QED BY <1>1, <1>4, <1>5, <1>6

LEMMA PlainIsToken == ASSUME NEW a \in Addrs PROVE Plain(a) \in Tokens
BY DEF Plain, Tokens

LEMMA JoinedType ==
  ASSUME NEW h, HeadersOk(h), NEW n PROVE JoinedHeader(h, n) \in Seq(Tokens)
<1>1. CASE n \in DOMAIN h
  <2>1. h[n] \in Seq(Seq(Tokens))
    BY <1>1 DEF HeadersOk
  <2>2. FlattenSeq(h[n]) \in Seq(Tokens)
    BY <2>1, FlattenType
  <2> QED BY <1>1, <2>2 DEF JoinedHeader
<1>2. CASE n \notin DOMAIN h
  <2>1. <<>> \in Seq(Tokens)
    OBVIOUS
  <2> QED BY <1>2, <2>1 DEF JoinedHeader
<1> QED BY <1>1, <1>2

\* A hop adds one entry, whichever way it writes it.
LEMMA EntryAdded ==
  ASSUME NEW h, HeadersOk(h), NEW a \in Addrs, NEW xff \in Appended(h, a)
  PROVE  /\ xff \in Seq(Seq(Tokens)) /\ xff # <<>>
         /\ FlattenSeq(xff) = Append(JoinedHeader(h, XFF), Plain(a))
<1> DEFINE X == Seq(Tokens)
           x == <<Plain(a)>>
           lines == IF XFF \in DOMAIN h THEN h[XFF] ELSE <<>>
           j == JoinedHeader(h, XFF)
<1>1. x \in Seq(Tokens) /\ j \in Seq(Tokens)
  BY PlainIsToken, JoinedType
<1>2. lines \in Seq(Seq(Tokens))
  <2>1. <<>> \in Seq(Seq(Tokens))
    OBVIOUS
  <2> QED BY <2>1 DEF HeadersOk
<1>3. FlattenSeq(lines) = j
  BY FlattenEmpty DEF JoinedHeader
<1>4. xff = Append(lines, x) \/ xff = <<j \o x>>
  BY DEF Appended
<1>0. j \o x = Append(j, Plain(a))
  BY <1>1, PlainIsToken, AppendIsConcat
<1> HIDE DEF x, lines, j
<1>5. CASE xff = Append(lines, x)
  <2>1. lines \in Seq(X) /\ x \in X
    BY <1>1, <1>2
  <2>2. xff \in Seq(X) /\ xff # <<>>
    <3> HIDE DEF X
    <3> QED BY <1>5, <2>1
  <2>3. FlattenSeq(xff) = FlattenSeq(lines) \o x
    BY <1>1, <1>2, <1>5, FlattenAppend
  <2> QED BY <1>0, <1>3, <2>2, <2>3 DEF j
<1>6. CASE xff = <<j \o x>>
  <2>1. j \o x \in X
    BY <1>1
  <2>2. xff \in Seq(X) /\ xff # <<>>
    <3> HIDE DEF X
    <3> QED BY <1>6, <2>1
  <2>3. FlattenSeq(xff) = j \o x
    BY <1>6, <2>1, FlattenOne
  <2> QED BY <1>0, <2>2, <2>3 DEF j
<1> QED BY <1>4, <1>5, <1>6

LEMMA VerdictInvInit == Init => VerdictInv
<1> SUFFICES ASSUME Init PROVE VerdictInv
  OBVIOUS
<1>1. Len(deployment.hops) \in Nat
  BY HopFacts DEF Init
<1>2. Placed
  BY <1>1 DEF Init, Placed, Judged, NoAnswer
<1> QED BY <1>2 DEF Init, VerdictInv, Carried

LEMMA SendKeeps == VerdictInv /\ Send => VerdictInv'
<1> SUFFICES ASSUME VerdictInv, Send PROVE VerdictInv'
  OBVIOUS
<1>1. PICK s \in SentHeaders : sent' = s /\ headers' = s
  BY DEF Send
<1>2. at = -1 /\ at' = 0 /\ UNCHANGED <<deployment, exit, claim, socket, answer>>
  BY DEF Send
<1>3. deployment \in Deployments /\ Len(deployment.hops) \in Nat
  BY HopFacts DEF VerdictInv, Placed
<1>4. Placed'
  BY <1>2, <1>3 DEF VerdictInv, Placed, Judged
<1>5. HeadersOk(headers)'
  <2>1. HeadersOk(s)
    BY SentAssumption DEF HeadersOk
  <2> QED BY <1>1, <2>1
<1>6. JoinedHeader(headers, XFF)' = JoinedHeader(sent, XFF)' \o Added'
  <2>1. Added' = <<>>
    BY <1>2 DEF Added
  <2>2. JoinedHeader(s, XFF) \in Seq(Tokens)
    BY <1>1, <1>5, JoinedType
  <2>3. JoinedHeader(s, XFF) \o <<>> = JoinedHeader(s, XFF)
    BY <2>2
  <2> QED BY <1>1, <2>1, <2>3
<1>7. OthersSurvive'
  BY <1>1, <1>2 DEF OthersSurvive, TouchedSoFar
<1> QED BY <1>1, <1>2, <1>4, <1>5, <1>6, <1>7 DEF VerdictInv, Carried

LEMMA ForwardKeeps == VerdictInv /\ Forward => VerdictInv'
<1> SUFFICES ASSUME VerdictInv, Forward PROVE VerdictInv'
  OBVIOUS
<1> DEFINE hop == deployment.hops[at + 1]
           names == (DOMAIN headers \ hop.strips) \cup Sets(hop) \cup {XFF}
           Written(n, xff) == IF n = XFF THEN xff
                              ELSE IF n \in InfraHeaders /\ n \in Sets(hop) THEN << <<Word>> >>
                              ELSE IF n \in Sets(hop) THEN << <<Plain(socket)>> >>
                              ELSE headers[n]
<1>1. /\ at \in 0..(Len(deployment.hops) - 1) /\ at' = at + 1
      /\ UNCHANGED <<deployment, exit, claim, sent, answer>> /\ socket' = hop.addr
  BY DEF Forward
<1>2. PICK xff \in Appended(headers, socket) : headers' = [n \in names |-> Written(n, xff)]
  BY DEF Forward
<1>3. deployment \in Deployments /\ Len(deployment.hops) \in Nat /\ at + 1 \in 1..Len(deployment.hops)
  BY <1>1, HopFacts DEF VerdictInv, Placed
<1>4. /\ hop.addr \in Addrs \ Exits /\ Sets(hop) \subseteq Names \ {XFF} /\ hop.strips \subseteq {CF}
      /\ CF \in Sets(hop) <=> hop.kind = "cdn"
      /\ at > 0 => hop.kind = "edge" /\ hop.strips = {}
  BY <1>1, <1>3, HopFacts
<1>5. socket \in Addrs
  <2>1. CASE at = 0
    BY <2>1, AddressesAssumption DEF VerdictInv, Placed
  <2>2. CASE at # 0
    <3>1. at \in 1..Len(deployment.hops)
      BY <1>1, <1>3, <2>2
    <3>2. socket = deployment.hops[at].addr
      BY <3>1 DEF VerdictInv, Placed
    <3> QED BY <1>3, <3>1, <3>2, HopFacts
  <2> QED BY <2>1, <2>2
<1>6. /\ sent \in SentHeaders /\ HeadersOk(headers) /\ OthersSurvive
      /\ JoinedHeader(headers, XFF) = JoinedHeader(sent, XFF) \o Added
      /\ at >= 1 /\ deployment.trust_cf => CF \in DOMAIN headers /\ headers[CF] = << <<Plain(exit)>> >>
  BY <1>1 DEF VerdictInv, Carried
<1>7. /\ xff \in Seq(Seq(Tokens)) /\ xff # <<>>
      /\ FlattenSeq(xff) = Append(JoinedHeader(headers, XFF), Plain(socket))
  BY <1>5, <1>6, EntryAdded
<1>8. DOMAIN headers' = names /\ \A n \in names : headers'[n] = Written(n, xff)
  BY <1>2
<1>9. Placed'
  BY <1>1, <1>3 DEF VerdictInv, Placed, Judged
<1>10. HeadersOk(headers')
  <2>1. names \subseteq Names
    BY <1>4, <1>6 DEF HeadersOk, Names
  <2>2. ASSUME NEW n \in names PROVE Written(n, xff) \in Seq(Seq(Tokens)) /\ Written(n, xff) # <<>>
    <3>1. Word \in Tokens /\ Plain(socket) \in Tokens
      BY <1>5, PlainIsToken DEF Word, Tokens
    <3>2. ASSUME NEW t \in Tokens PROVE << <<t>> >> \in Seq(Seq(Tokens)) /\ << <<t>> >> # <<>>
      OBVIOUS
    <3>3. n \notin Sets(hop) \cup {XFF} => headers[n] \in Seq(Seq(Tokens)) /\ headers[n] # <<>>
      BY <1>6 DEF HeadersOk
    <3> QED BY <1>7, <3>1, <3>2, <3>3
  <2> HIDE DEF names, Written
  <2> QED BY <1>8, <2>1, <2>2 DEF HeadersOk
<1>11. JoinedHeader(headers', XFF) = JoinedHeader(sent, XFF) \o Added'
  <2>1. JoinedHeader(headers', XFF) = FlattenSeq(xff)
    BY <1>8 DEF JoinedHeader
  <2>2. Added' = Append(Added, Plain(socket))
    <3> DEFINE A(n) == [i \in 1..n |-> Plain(IF i = 1 THEN exit ELSE deployment.hops[i - 1].addr)]
    <3>1. Added = A(at) /\ Added' = A(at + 1)
      BY <1>1 DEF Added
    <3>2. A(at + 1) = Append(A(at), A(at + 1)[at + 1])
      BY <1>1
    <3>3. A(at + 1)[at + 1] = Plain(socket)
      <4>1. at + 1 \in 1..at + 1 /\ (at + 1) - 1 = at /\ (at + 1 = 1 <=> at <= 0)
        BY <1>1
      <4> QED BY <4>1 DEF VerdictInv, Placed
    <3> QED BY <3>1, <3>2, <3>3
  <2>3. Added \in Seq(Tokens) /\ JoinedHeader(sent, XFF) \in Seq(Tokens) /\ Plain(socket) \in Tokens
    <3>1. \A i \in 1..at : (IF i = 1 THEN exit ELSE deployment.hops[i - 1].addr) \in Addrs
      <4> TAKE i \in 1..at
      <4>1. i # 1 => i - 1 \in 1..Len(deployment.hops)
        BY <1>1, <1>3
      <4>2. exit \in Addrs
        BY AddressesAssumption DEF VerdictInv, Placed
      <4> QED BY <1>3, <4>1, <4>2, HopFacts
    <3>2. \A i \in 1..at : Plain(IF i = 1 THEN exit ELSE deployment.hops[i - 1].addr) \in Tokens
      BY <3>1, PlainIsToken
    <3>3. Added \in Seq(Tokens)
      BY <1>1, <3>2 DEF Added
    <3>4. HeadersOk(sent)
      BY <1>6, SentAssumption DEF HeadersOk
    <3> QED BY <1>5, <3>3, <3>4, JoinedType, PlainIsToken
  <2> DEFINE j == JoinedHeader(sent, XFF)
             p == Plain(socket)
             a == Added
  <2>4. Append(j \o a, p) = j \o Append(a, p)
    <3> HIDE DEF j, p, a
    <3>1. a \in Seq(Tokens) /\ j \in Seq(Tokens) /\ p \in Tokens
      BY <2>3 DEF j, p, a
    <3> QED BY <3>1, OneByOne, Zenon
  <2> QED BY <1>6, <1>7, <2>1, <2>2, <2>4
<1>12. deployment.trust_cf => CF \in DOMAIN headers' /\ headers'[CF] = << <<Plain(exit)>> >>
  <2> SUFFICES ASSUME deployment.trust_cf
               PROVE  CF \in names /\ Written(CF, xff) = << <<Plain(exit)>> >>
    BY <1>8
  <2>0. CF # XFF /\ CF \notin InfraHeaders
    BY DEF CF, XFF, InfraHeaders
  <2>1. CASE at = 0
    <3>1. hop.kind = "cdn"
      BY <1>3, <2>1, HopFacts DEF Supported
    <3>2. socket = exit
      BY <2>1 DEF VerdictInv, Placed
    <3> QED BY <1>4, <2>0, <3>1, <3>2
  <2>2. CASE at # 0
    <3>1. at >= 1 /\ CF \notin Sets(hop) /\ hop.strips = {}
      BY <1>1, <1>4, <2>2
    <3> QED BY <1>6, <2>0, <3>1
  <2> QED BY <2>1, <2>2
<1>13. OthersSurvive'
  <2>1. ASSUME NEW n \in Names \ {XFF}
        PROVE  /\ TouchedSoFar(n)' <=> TouchedSoFar(n) \/ n \in Sets(hop) \cup hop.strips
               /\ SetSoFar(n)' <=> SetSoFar(n) \/ n \in Sets(hop)
    <3>1. \A i : i \in 1..at + 1 <=> i \in 1..at \/ i = at + 1
      BY <1>1
    <3> QED BY <1>1, <3>1 DEF TouchedSoFar, SetSoFar
  <2>2. ASSUME NEW n \in Names \ {XFF}
        PROVE  /\ n \in names <=> n \in Sets(hop) \/ (n \in DOMAIN headers /\ n \notin hop.strips)
               /\ n \in names /\ n \notin Sets(hop) => Written(n, xff) = headers[n]
    OBVIOUS
  <2> HIDE DEF names, Written, hop
  <2> SUFFICES ASSUME NEW n \in Names \ {XFF}
               PROVE  /\ TouchedSoFar(n)' /\ n \in DOMAIN headers' => SetSoFar(n)'
                      /\ ~TouchedSoFar(n)' =>
                           /\ n \in DOMAIN headers' <=> n \in DOMAIN sent
                           /\ n \in DOMAIN headers' => headers'[n] = sent[n]
    BY <1>1 DEF OthersSurvive
  <2>3. /\ TouchedSoFar(n) /\ n \in DOMAIN headers => SetSoFar(n)
        /\ ~TouchedSoFar(n) =>
             /\ n \in DOMAIN headers <=> n \in DOMAIN sent
             /\ n \in DOMAIN headers => headers[n] = sent[n]
    BY <1>6 DEF OthersSurvive
  <2> QED BY <1>8, <2>1, <2>2, <2>3
<1> QED BY <1>1, <1>6, <1>9, <1>10, <1>11, <1>12, <1>13 DEF VerdictInv, Carried

LEMMA JudgeKeeps == VerdictInv /\ (Judge \/ UNCHANGED vars) => VerdictInv'
<1> SUFFICES ASSUME VerdictInv, Judge \/ UNCHANGED vars PROVE VerdictInv'
  OBVIOUS
<1>1. /\ UNCHANGED <<deployment, exit, claim, sent, headers, socket, at>>
      /\ at = Len(deployment.hops) \/ answer' = answer
  BY DEF Judge, vars
<1>2. Placed'
  BY <1>1 DEF VerdictInv, Placed, Judged
<1>3. Carried'
  BY <1>1 DEF VerdictInv, Carried, HeadersOk, Added, OthersSurvive, TouchedSoFar, SetSoFar
<1> QED BY <1>2, <1>3 DEF VerdictInv

\* The way of the headers through any supported deployment.
THEOREM VerdictInvariant == Spec => []VerdictInv
<1>1. VerdictInv /\ [Next]_vars => VerdictInv'
  BY SendKeeps, ForwardKeeps, JudgeKeeps DEF Next
<1> QED BY VerdictInvInit, <1>1, PTL DEF Spec

-----------------------------------------------------------------------------
\* What the judge makes of the headers that arrive.

\* The proxy's own entries, and with the hops' the chain that arrives.
Own == SplitXff(JoinedHeader(sent, XFF))

Chain == SplitXff(JoinedHeader(headers, XFF))

Arrived == VerdictInv /\ at = Len(deployment.hops)

LEMMA ArrivedFacts ==
  ASSUME Arrived
  PROVE  /\ deployment \in Deployments /\ exit \in Exits /\ exit \in Addrs /\ exit # NoAddr
         /\ claim \in {Direct, NoAddr} /\ at \in Nat /\ at = Len(deployment.hops)
         /\ sent \in SentHeaders /\ HeadersOk(sent) /\ HeadersOk(headers) /\ OthersSurvive
         /\ socket = IF at <= 0 THEN exit ELSE deployment.hops[at].addr
         /\ JoinedHeader(headers, XFF) = JoinedHeader(sent, XFF) \o Added
         /\ at >= 1 /\ deployment.trust_cf => CF \in DOMAIN headers /\ headers[CF] = << <<Plain(exit)>> >>
         /\ deployment.trust_proxy <=> at # 0
         /\ deployment.trust_cf => at # 0
         /\ ~deployment.trust_cf => at <= 1
         /\ at = 0 => deployment.edge_headers = {}
<1>1. /\ deployment \in Deployments /\ exit \in Exits /\ claim \in {Direct, NoAddr}
      /\ at = Len(deployment.hops) /\ socket = IF at <= 0 THEN exit ELSE deployment.hops[at].addr
  BY DEF Arrived, VerdictInv, Placed
<1>2. at \in Nat /\ Supported(deployment)
  BY <1>1, HopFacts
<1>3. /\ sent \in SentHeaders /\ HeadersOk(headers) /\ OthersSurvive
      /\ JoinedHeader(headers, XFF) = JoinedHeader(sent, XFF) \o Added
      /\ at >= 1 /\ deployment.trust_cf => CF \in DOMAIN headers /\ headers[CF] = << <<Plain(exit)>> >>
  BY <1>2 DEF Arrived, VerdictInv, Carried
<1>4. HeadersOk(sent)
  BY <1>3, SentAssumption DEF HeadersOk
<1>5. deployment.hops = <<>> <=> at = 0
  <2> DEFINE X == HopTypes
  <2>1. deployment.hops \in Seq(X)
    BY <1>2 DEF Supported
  <2> HIDE DEF X
  <2> QED BY <1>1, <2>1
<1> QED BY <1>1, <1>2, <1>3, <1>4, <1>5, AddressesAssumption DEF Supported

LEMMA AddedFacts ==
  ASSUME Arrived
  PROVE  /\ Added \in Seq(Entries) /\ Len(Added) = at
         /\ at # 0 => Added[1] = Plain(exit)
         /\ \A i \in 2..at : NormalizeHost(Added[i]) \notin Exits
<1>1. deployment \in Deployments /\ exit \in Addrs /\ at \in Nat /\ at = Len(deployment.hops)
  BY ArrivedFacts
<1>2. ASSUME NEW i \in 1..at
      PROVE  /\ (IF i = 1 THEN exit ELSE deployment.hops[i - 1].addr) \in Addrs
             /\ i # 1 => deployment.hops[i - 1].addr \notin Exits
  <2>1. i # 1 => i - 1 \in 1..Len(deployment.hops)
    BY <1>1
  <2> QED BY <1>1, <2>1, HopFacts
<1>3. \A a \in Addrs : Plain(a) \in Entries /\ NormalizeHost(Plain(a)) = a
  BY PlainIsToken DEF Plain, Entries, NormalizeHost
<1>4. ASSUME NEW i \in 1..at
      PROVE  Plain(IF i = 1 THEN exit ELSE deployment.hops[i - 1].addr) \in Entries
  BY <1>2, <1>3
<1>5. Added \in Seq(Entries) /\ Len(Added) = at
  <2> DEFINE E == Entries
             A(i) == Plain(IF i = 1 THEN exit ELSE deployment.hops[i - 1].addr)
  <2>1. \A i \in 1..at : A(i) \in E
    BY <1>4
  <2> HIDE DEF E, A
  <2>2. [i \in 1..at |-> A(i)] \in Seq(E) /\ Len([i \in 1..at |-> A(i)]) = at
    BY <1>1, <2>1
  <2> QED BY <2>2 DEF Added, E, A
<1>6. \A i \in 1..at : Added[i] = Plain(IF i = 1 THEN exit ELSE deployment.hops[i - 1].addr)
  BY DEF Added
<1>7. at # 0 => 1 \in 1..at
  BY <1>1
<1>8. ASSUME NEW i \in 2..at PROVE NormalizeHost(Added[i]) \notin Exits
  <2>1. i \in 1..at /\ i # 1
    BY <1>1
  <2> QED BY <1>2, <1>3, <1>6, <2>1
<1> QED BY <1>5, <1>6, <1>7, <1>8

LEMMA OwnType == ASSUME Arrived PROVE Own \in Seq(Entries) /\ JoinedHeader(sent, XFF) \in Seq(Tokens)
<1>1. JoinedHeader(sent, XFF) \in Seq(Tokens)
  BY ArrivedFacts, JoinedType
<1>2. Own \in Seq(Tokens \cap Entries)
  BY <1>1, OnlyType DEF Own, SplitXff
<1>3. Tokens \cap Entries = Entries
  BY DEF Entries
<1> QED BY <1>1, <1>2, <1>3

\* What arrives are the proxy's own entries and after them those of the hops.
LEMMA ChainIs == ASSUME Arrived PROVE Chain = Own \o Added
<1>1. Added \in Seq(Entries) /\ JoinedHeader(sent, XFF) \in Seq(Tokens)
  BY AddedFacts, OwnType
<1>2. Added \in Seq(Tokens)
  <2>1. Entries \subseteq Tokens
    BY DEF Entries
  <2> DEFINE E == Entries
             X == Tokens
  <2>2. E \subseteq X /\ Added \in Seq(E)
    BY <1>1, <2>1
  <2> HIDE DEF E, X
  <2>3. Added \in Seq(X)
    BY <2>2
  <2> QED BY <2>3 DEF X
<1>3. Only(JoinedHeader(sent, XFF) \o Added, Entries)
        = Only(JoinedHeader(sent, XFF), Entries) \o Only(Added, Entries)
  BY <1>1, <1>2, OnlyConcat
<1>4. Only(Added, Entries) = Added
  BY <1>1, OnlyAll
<1> QED BY <1>3, <1>4, ArrivedFacts DEF Chain, Own, SplitXff

LEMMA OneMore ==
  ASSUME NEW T, NEW s \in Seq(T), NEW t \in Seq(T), Len(t) = 1
  PROVE  s \o t # <<>> /\ Last(s \o t) = t[1] /\ Front(s \o t) = s
<1>1. /\ s \o t \in Seq(T) /\ Len(s \o t) = Len(s) + Len(t)
      /\ \A i \in 1..Len(s) + Len(t) : (s \o t)[i] = IF i <= Len(s) THEN s[i] ELSE t[i - Len(s)]
  BY ConcatProperties
<1> DEFINE u == s \o t
           m == Len(s)
<1>2. m \in Nat /\ SubSeq(s, 1, m) = s
  BY LenProperties, SubSeqFull
<1>3. SubSeq(u, 1, m) = s
  BY <1>2, SubSeqOfConcat1
<1> HIDE DEF u, m
<1>4. u \in Seq(T) /\ Len(u) = m + 1 /\ u[m + 1] = t[1]
  BY <1>1, <1>2 DEF u, m
<1>5. u # <<>>
  BY <1>2, <1>4
<1>6. Last(u) = t[1]
  BY <1>4 DEF Last
<1>7. Len(u) - 1 = m
  BY <1>2, <1>4
<1>8. Front(u) = s
  BY <1>3, <1>7 DEF Front
<1> QED BY <1>5, <1>6, <1>8 DEF u

\* Without a CDN, the entry of the single edge is the last one.
LEMMA EdgeEntryIsLast ==
  ASSUME Arrived, at = 1
  PROVE  /\ Chain # <<>> /\ NormalizeHost(Last(Chain)) = exit /\ Front(Chain) = Own
<1>1. Own \in Seq(Entries) /\ Added \in Seq(Entries) /\ Len(Added) = 1 /\ Added[1] = Plain(exit)
  BY AddedFacts, OwnType
<1>2. NormalizeHost(Plain(exit)) = exit
  BY DEF Plain, NormalizeHost
<1>3. Chain = Own \o Added
  BY ChainIs
<1>4. Chain # <<>> /\ Last(Chain) = Added[1] /\ Front(Chain) = Own
  BY <1>1, <1>3, OneMore
<1> QED BY <1>1, <1>2, <1>4

\* A CDN says who its client is.
LEMMA CdnClient ==
  ASSUME Arrived, deployment.trust_cf
  PROVE  NormalizeValue(JoinedHeader(headers, CF)) = exit
<1>1. CF \in DOMAIN headers /\ headers[CF] = << <<Plain(exit)>> >> /\ Plain(exit) \in Tokens
  BY ArrivedFacts, PlainIsToken
<1>2. <<Plain(exit)>> \in Seq(Tokens)
  BY <1>1
<1>3. JoinedHeader(headers, CF) = <<Plain(exit)>>
  BY <1>1, <1>2, FlattenOne DEF JoinedHeader
<1> QED BY <1>3 DEF NormalizeValue, NormalizeHost, Plain

\* The address is the exit's in each kind of deployment.
LEMMA ClientIsExit == ASSUME Arrived PROVE SelfIp(deployment, headers, socket) = exit
<1>1. CASE at = 0
  BY <1>1, ArrivedFacts DEF SelfIp, ClientIp
<1>2. CASE deployment.trust_cf
  BY <1>2, CdnClient, ArrivedFacts DEF SelfIp, ClientIp
<1>3. CASE at # 0 /\ ~deployment.trust_cf
  <2>1. at = 1 /\ deployment.trust_proxy /\ exit # NoAddr
    BY <1>3, ArrivedFacts
  <2> QED BY <1>3, <2>1, EdgeEntryIsLast DEF SelfIp, ClientIp, Chain
<1> QED BY <1>1, <1>2, <1>3

\* Behind a CDN the entry it wrote is the first that no proxy sent: none after it
\* names an exit.
LEMMA CdnEntryIsNext ==
  ASSUME Arrived, at # 0
  PROVE  CdnEntry(Chain, exit) = Len(Own) + 1 /\ SubSeq(Chain, 1, Len(Own)) = Own
<1> DEFINE m == Len(Own)
           I == {i \in 1..Len(Chain) : NormalizeHost(Chain[i]) = exit}
<1>1. /\ Own \in Seq(Entries) /\ Added \in Seq(Entries) /\ Len(Added) = at /\ at \in Nat
      /\ Added[1] = Plain(exit) /\ \A i \in 2..at : NormalizeHost(Added[i]) \notin Exits
  BY AddedFacts, OwnType, ArrivedFacts
<1>2. /\ Chain = Own \o Added /\ Len(Chain) = m + at
      /\ \A i \in 1..m + at : Chain[i] = IF i <= m THEN Own[i] ELSE Added[i - m]
  <2>1. Chain = Own \o Added
    BY ChainIs
  <2> DEFINE E == Entries
  <2> HIDE DEF E
  <2>2. Own \in Seq(E) /\ Added \in Seq(E)
    BY <1>1 DEF E
  <2>3. /\ Len(Own \o Added) = Len(Own) + Len(Added)
        /\ \A i \in 1..Len(Own) + Len(Added) :
             (Own \o Added)[i] = IF i <= Len(Own) THEN Own[i] ELSE Added[i - Len(Own)]
    BY <2>2, ConcatProperties
  <2> QED BY <1>1, <2>1, <2>3
<1>3. m \in Nat /\ SubSeq(Own, 1, m) = Own
  BY <1>1, LenProperties, SubSeqFull
<1>4. SubSeq(Chain, 1, m) = Own
  <2>1. CASE m = 0
    <3>1. SubSeq(Chain, 1, 0) = <<>> /\ SubSeq(Own, 1, 0) = <<>>
      BY SubSeqEmpty
    <3> QED BY <1>3, <2>1, <3>1
  <2>2. CASE m # 0
    <3>1. 1 \in 1..m /\ m \in 1..m
      BY <1>3, <2>2
    <3>2. SubSeq(Own \o Added, 1, m) = SubSeq(Own, 1, m)
      BY <1>1, <3>1, SubSeqOfConcat1
    <3> QED BY <1>2, <1>3, <3>2
  <2> QED BY <2>1, <2>2
<1> HIDE DEF m
<1>5. NormalizeHost(Plain(exit)) = exit /\ exit \in Exits
  BY ArrivedFacts DEF NormalizeHost, Plain, Arrived, VerdictInv, Placed
<1>6. m + 1 \in 1..Len(Chain) /\ Chain[m + 1] = Plain(exit)
  <2>1. m + 1 \in 1..m + at /\ ~(m + 1 <= m) /\ (m + 1) - m = 1
    BY <1>1, <1>3
  <2> QED BY <1>1, <1>2, <2>1
<1>7. m + 1 \in I
  BY <1>5, <1>6
<1>8. ASSUME NEW i \in I PROVE m + 1 >= i
  <2> SUFFICES ASSUME i > m + 1 PROVE FALSE
    BY <1>2, <1>3
  <2>1. i \in 1..m + at /\ ~(i <= m) /\ i - m \in 2..at
    BY <1>1, <1>2, <1>3
  <2>2. Chain[i] = Added[i - m]
    BY <1>2, <2>1
  <2> QED BY <1>1, <1>5, <2>1, <2>2
<1>9. I \subseteq Nat
  BY <1>1, <1>2, <1>3
<1>10. CdnEntry(Chain, exit) = IF I # {} THEN Max(I) ELSE 0
  BY DEF CdnEntry, SelectLastInSeq
<1> HIDE DEF I
<1>11. Max(I) = m + 1
  <2>1. Max(I) \in I /\ \A y \in I : Max(I) >= y
    BY <1>7, <1>8, Zenon DEF Max
  <2> DEFINE x == Max(I)
  <2> HIDE DEF x
  <2>2. x \in I /\ x \in Nat /\ x >= m + 1 /\ m + 1 >= x
    BY <1>7, <1>8, <1>9, <2>1 DEF x
  <2>3. x = m + 1
    BY <1>3, <2>2
  <2> QED BY <2>3 DEF x
<1> QED BY <1>4, <1>7, <1>10, <1>11 DEF m

\* What is left of X-Forwarded-For is what the proxy put there.
LEMMA PreEdgeIsSent ==
  ASSUME Arrived, deployment.trust_proxy
  PROVE  PreEdgeXff(JoinedHeader(headers, XFF), exit, deployment.trust_proxy,
                    deployment.trust_cf, JoinedHeader(headers, CF)) = SentXff
<1>1. at # 0 /\ (~deployment.trust_cf => at = 1)
  BY ArrivedFacts
<1>2. CASE deployment.trust_cf
  <2>1. CdnEntry(Chain, exit) = Len(Own) + 1 /\ SubSeq(Chain, 1, Len(Own)) = Own
    BY <1>1, CdnEntryIsNext
  <2>2. Len(Own) \in Nat
    BY OwnType, LenProperties
  <2>3. Len(Own) + 1 # 0 /\ (Len(Own) + 1) - 1 = Len(Own)
    BY <2>2
  <2>4. NormalizeValue(JoinedHeader(headers, CF)) = exit
    BY <1>2, CdnClient
  <2>5. SentXff = Only(Own, Others(exit))
    BY <1>2 DEF SentXff, Own
  <2> QED BY <1>2, <2>1, <2>3, <2>4, <2>5 DEF PreEdgeXff, Chain
<1>3. CASE ~deployment.trust_cf
  <2>1. Chain # <<>> /\ NormalizeHost(Last(Chain)) = exit /\ Front(Chain) = Own
    BY <1>1, <1>3, EdgeEntryIsLast
  <2>2. SentXff = Own
    BY <1>3 DEF SentXff, Own
  <2> QED BY <1>3, <2>1, <2>2 DEF PreEdgeXff, Chain
<1> QED BY <1>2, <1>3

LEMMA SentXffType == ASSUME Arrived PROVE SentXff \in Seq(Entries)
<1>1. Own \in Seq(Entries)
  BY OwnType
<1>2. Only(Own, Others(exit)) \in Seq(Entries \cap Others(exit))
  BY <1>1, OnlyType
<1>3. Only(Own, Others(exit)) \in Seq(Entries)
  BY <1>2, SeqMonotonic
<1> QED BY <1>1, <1>3 DEF SentXff, Own

-----------------------------------------------------------------------------
\* The echo and the verdict.

Echo == ProxyView(deployment, headers, exit)

RawXff(view) == IF XFF \in DOMAIN view THEN SplitXff(view[XFF]) ELSE <<>>

LEMMA EchoedXff == ASSUME Arrived PROVE RawXff(Echo) = SentXff
<1>1. CASE deployment.trust_proxy
  <2> DEFINE pre == PreEdgeXff(JoinedHeader(headers, XFF), exit, deployment.trust_proxy,
                               deployment.trust_cf, JoinedHeader(headers, CF))
             names == (ViewNames(deployment, DOMAIN HeadersLower(headers)) \ {XFF})
                        \cup (IF pre = <<>> THEN {} ELSE {XFF})
  <2>1. pre = SentXff /\ SentXff \in Seq(Entries)
    BY <1>1, PreEdgeIsSent, SentXffType
  <2>2. SplitXff(SentXff) = SentXff
    BY <2>1, OnlyAll DEF SplitXff
  <2>3. Echo = [n \in names |-> IF n = XFF THEN pre ELSE HeadersLower(headers)[n]]
    BY <1>1 DEF Echo, ProxyView
  <2> HIDE DEF pre
  <2>4. XFF \in DOMAIN Echo <=> SentXff # <<>>
    BY <2>1, <2>3
  <2>5. XFF \in DOMAIN Echo => Echo[XFF] = SentXff
    BY <2>1, <2>3
  <2> QED BY <2>2, <2>4, <2>5 DEF RawXff
<1>2. CASE ~deployment.trust_proxy
  <2>1. Echo = HeadersLower(headers) /\ at = 0 /\ ~deployment.trust_cf
    BY <1>2, ArrivedFacts DEF Echo, ProxyView
  <2>2. DOMAIN Echo = DOMAIN headers /\ \A n \in DOMAIN headers : Echo[n] = JoinedHeader(headers, n)
    BY <2>1 DEF HeadersLower
  <2>3. RawXff(Echo) = Chain
    <3>1. CASE XFF \in DOMAIN headers
      BY <2>2, <3>1 DEF RawXff, Chain
    <3>2. CASE XFF \notin DOMAIN headers
      BY <2>2, <3>2, OnlyEmpty DEF RawXff, Chain, SplitXff, JoinedHeader
    <3> QED BY <3>1, <3>2
  <2>4. Chain = Own
    <3>1. Added = <<>>
      BY <2>1 DEF Added
    <3>2. Own \o <<>> = Own
      BY OwnType, ConcatEmptySeq
    <3> QED BY <3>1, <3>2, ChainIs
  <2>5. SentXff = Own
    BY <2>1 DEF SentXff, Own
  <2> QED BY <2>3, <2>4, <2>5
<1> QED BY <1>1, <1>2

\* The other headers that are shown.
LEMMA EchoedOthers ==
  ASSUME Arrived, NEW n, n # XFF
  PROVE  /\ n \in DOMAIN Echo <=> n \in DOMAIN headers \ deployment.edge_headers
         /\ n \in DOMAIN Echo => Echo[n] = JoinedHeader(headers, n)
<1>1. DOMAIN HeadersLower(headers) = DOMAIN headers
  BY DEF HeadersLower
<1>2. \A k \in DOMAIN headers : HeadersLower(headers)[k] = JoinedHeader(headers, k)
  BY DEF HeadersLower
<1>3. CASE deployment.trust_proxy
  <2> DEFINE pre == PreEdgeXff(JoinedHeader(headers, XFF), exit, deployment.trust_proxy,
                               deployment.trust_cf, JoinedHeader(headers, CF))
             names == ((DOMAIN HeadersLower(headers) \ deployment.edge_headers) \ {XFF})
                        \cup (IF pre = <<>> THEN {} ELSE {XFF})
  <2>1. Echo = [k \in names |-> IF k = XFF THEN pre ELSE HeadersLower(headers)[k]]
    BY <1>3 DEF Echo, ProxyView, ViewNames
  <2> HIDE DEF pre
  <2>2. n \in names <=> n \in DOMAIN headers \ deployment.edge_headers
    BY <1>1
  <2>3. DOMAIN Echo = names /\ \A k \in names : k # XFF => Echo[k] = HeadersLower(headers)[k]
    BY <2>1
  <2> QED BY <1>2, <2>2, <2>3
<1>4. CASE ~deployment.trust_proxy
  <2>1. Echo = HeadersLower(headers) /\ deployment.edge_headers = {}
    BY <1>4, ArrivedFacts DEF Echo, ProxyView
  <2> QED BY <1>1, <1>2, <2>1
<1> QED BY <1>3, <1>4

LEMMA OverwrittenSoFar ==
  ASSUME Arrived, NEW n PROVE n \in Overwritten <=> TouchedSoFar(n)
BY ArrivedFacts DEF Overwritten, TouchedSoFar

\* All the proxy sent is shown.
LEMMA SentIsEchoed ==
  ASSUME Arrived, NEW n \in SentNames
  PROVE  n \in DOMAIN Echo /\ Echo[n] = JoinedHeader(sent, n) /\ n # XFF
<1>1. /\ n \in DOMAIN sent /\ n # XFF /\ n \notin deployment.edge_headers /\ ~TouchedSoFar(n)
      /\ n \in Names \ {XFF}
  BY ArrivedFacts, OverwrittenSoFar DEF SentNames, HeadersOk
<1>2. n \in DOMAIN headers /\ headers[n] = sent[n]
  BY <1>1, ArrivedFacts DEF OthersSurvive
<1>3. JoinedHeader(headers, n) = JoinedHeader(sent, n)
  BY <1>1, <1>2 DEF JoinedHeader
<1> QED BY <1>1, <1>2, <1>3, EchoedOthers

\* And of what the hops wrote only headers without a meaning for the verdict.
LEMMA EchoIsSent ==
  ASSUME Arrived, NEW n \in DOMAIN Echo \ {XFF}
  PROVE  n \in SentNames \/ IsInfra(n, deployment.trust_cf)
<1>1. n \in DOMAIN headers \ deployment.edge_headers /\ n \in Names \ {XFF}
  BY ArrivedFacts, EchoedOthers DEF HeadersOk
<1>2. CASE TouchedSoFar(n)
  <2>1. SetSoFar(n)
    BY <1>1, <1>2, ArrivedFacts DEF OthersSurvive
  <2>2. PICK i \in 1..at : n \in Sets(deployment.hops[i])
    BY <2>1 DEF SetSoFar
  <2>3. i \in 1..Len(deployment.hops) /\ deployment \in Deployments
    BY ArrivedFacts
  <2>4. n \in {CF} \cup deployment.edge_headers \cup InfraHeaders
    BY <2>2, <2>3, HopFacts
  <2>5. n = CF => deployment.trust_cf
    <3> SUFFICES ASSUME n = CF PROVE deployment.trust_cf
      OBVIOUS
    <3>1. deployment.hops[i].kind = "cdn"
      BY <2>2, <2>3, HopFacts
    <3>2. i = 1
      BY <2>3, <3>1, HopFacts
    <3>3. deployment.hops # <<>>
      BY <2>2, ArrivedFacts
    <3> QED BY <2>3, <3>1, <3>2, <3>3, HopFacts DEF Supported
  <2> QED BY <1>1, <2>4, <2>5 DEF IsInfra, CfInfraHeaders
<1>3. CASE ~TouchedSoFar(n)
  BY <1>1, <1>3, ArrivedFacts, OverwrittenSoFar DEF OthersSurvive, SentNames
<1> QED BY <1>2, <1>3

LEMMA ChainHas ==
  ASSUME NEW s \in Seq(Tokens), NEW a \in Addrs
  PROVE  Holds(NormalizeChain(s), a)
           <=> \E i \in 1..Len(s) : NormalizeHost(s[i]) = a
<1> DEFINE T == Addrs \cup {NoAddr}
           all == [i \in 1..Len(s) |-> NormalizeHost(s[i])]
<1>1. Len(s) \in Nat /\ \A i \in 1..Len(s) : s[i] \in Tokens
  BY LenProperties, ElementOfSeq
<1>2. \A t \in Tokens : NormalizeHost(t) \in T
  BY DEF Tokens, NormalizeHost
<1>3. all \in Seq(T) /\ Len(all) = Len(s)
  <2>1. \A i \in 1..Len(s) : NormalizeHost(s[i]) \in T
    BY <1>1, <1>2
  <2> HIDE DEF T
  <2>2. all \in Seq(T)
    BY <1>1, <2>1, IsASeq
  <2>3. DOMAIN all = 1..Len(s)
    OBVIOUS
  <2> QED BY <1>1, <2>2, <2>3, LenProperties
<1>4. \A i \in 1..Len(s) : all[i] = NormalizeHost(s[i])
  OBVIOUS
<1>5. NormalizeChain(s) = Only(all, Addrs)
  BY DEF NormalizeChain
<1> HIDE DEF T, all
<1>6. Holds(Only(all, Addrs), a) <=> a \in Addrs /\ Holds(all, a)
  BY <1>3, OnlyElements
<1>7. Holds(all, a) <=> \E i \in 1..Len(s) : NormalizeHost(s[i]) = a
  BY <1>3, <1>4 DEF Holds
<1> QED BY <1>5, <1>6, <1>7

LEMMA VerdictOfEcho ==
  ASSUME Arrived
  PROVE  AnonymityLevel(Echo, claim, deployment.trust_cf)
           = IF claim = Direct /\ Leaks THEN "transparent"
             ELSE IF Reveals THEN "anonymous" ELSE "elite"
<1> DEFINE chain == NormalizeChain(SentXff)
           InChain == Holds(chain, claim)
           InText == \E n \in DOMAIN Echo \ {XFF} :
                       ~IsInfra(n, deployment.trust_cf) /\ IpInText(Echo[n], claim)
           Telltale == \E n \in DOMAIN Echo : IsTelltale(n, deployment.trust_cf)
<1>1. claim \in {Direct, NoAddr} /\ Direct \in Addrs /\ Direct # NoAddr
  BY ArrivedFacts, AddressesAssumption
<1>2. AnonymityLevel(Echo, claim, deployment.trust_cf)
        = IF claim # NoAddr /\ (InChain \/ InText) THEN "transparent"
          ELSE IF SentXff # <<>> \/ Telltale THEN "anonymous" ELSE "elite"
  <2>1. RawXff(Echo) = SentXff
    BY EchoedXff
  <2> QED BY <2>1 DEF AnonymityLevel, RawXff, Holds
<1>3. claim = Direct => (InChain <=> \E i \in 1..Len(SentXff) : NormalizeHost(SentXff[i]) = Direct)
  <2>1. SentXff \in Seq(Entries) /\ Entries \subseteq Tokens
    BY SentXffType DEF Entries
  <2>2. SentXff \in Seq(Tokens)
    BY <2>1, SeqMonotonic
  <2> QED BY <1>1, <2>2, ChainHas
<1>4. ASSUME NEW n \in SentNames, n \notin InfraHeaders PROVE ~IsInfra(n, deployment.trust_cf)
  <2> SUFFICES ASSUME n = CF, deployment.trust_cf PROVE FALSE
    BY <1>4 DEF IsInfra, CfInfraHeaders
  <2>1. deployment \in Deployments /\ at \in Nat /\ at = Len(deployment.hops) /\ at # 0
    BY ArrivedFacts
  <2>2. 1 \in 1..Len(deployment.hops) /\ deployment.hops[1].kind = "cdn"
    BY <2>1, HopFacts DEF Supported
  <2>3. CF \in Sets(deployment.hops[1])
    BY <2>1, <2>2, HopFacts
  <2>4. CF \in Overwritten
    BY <2>2, <2>3 DEF Overwritten
  <2> QED BY <2>4 DEF SentNames
<1>5. claim = Direct => (InText <=> \E n \in SentNames \ InfraHeaders : IpInText(JoinedHeader(sent, n), Direct))
  <2>1. \A n \in DOMAIN Echo \ {XFF} : ~IsInfra(n, deployment.trust_cf) => n \in SentNames \ InfraHeaders
    BY EchoIsSent DEF IsInfra
  <2> QED BY <1>4, <2>1, SentIsEchoed
<1>6. Telltale <=> SentNames \cap Telltales # {}
  <2>1. ASSUME NEW n, n \in Telltales PROVE n # XFF /\ n \notin InfraHeaders
    BY <2>1 DEF Telltales, XFF, InfraHeaders
  <2>2. ASSUME NEW n \in SentNames, n \in Telltales PROVE n \in DOMAIN Echo /\ IsTelltale(n, deployment.trust_cf)
    BY <1>4, <2>1, <2>2, SentIsEchoed DEF IsTelltale
  <2>3. ASSUME NEW n \in DOMAIN Echo, IsTelltale(n, deployment.trust_cf)
        PROVE  n \in SentNames /\ n \in Telltales
    BY <2>1, <2>3, EchoIsSent DEF IsTelltale
  <2> QED BY <2>2, <2>3
<1> HIDE DEF InChain, InText, Telltale
<1>7. claim = Direct => (InChain \/ InText <=> Leaks)
  BY <1>3, <1>5 DEF Leaks
<1>8. (claim # NoAddr /\ (InChain \/ InText)) <=> (claim = Direct /\ Leaks)
  BY <1>1, <1>7
<1>9. (SentXff # <<>> \/ Telltale) <=> Reveals
  BY <1>6 DEF Reveals
<1> QED BY <1>2, <1>8, <1>9

-----------------------------------------------------------------------------
Answers == ExitResolved /\ OnlySentEchoed /\ VerdictCorrect

LEMMA JudgeAnswers == VerdictInv /\ Judge => Answers'
<1> SUFFICES ASSUME VerdictInv, Judge PROVE Answers'
  OBVIOUS
<1>1. Arrived
  BY DEF Judge, Arrived
<1>2. /\ UNCHANGED <<deployment, exit, claim, sent, headers, socket, at>>
      /\ answer' = [ip |-> exit, view |-> Echo,
                    anonymity |-> AnonymityLevel(Echo, claim, deployment.trust_cf)]
  BY <1>1, ClientIsExit DEF Judge, Echo
<1>3. /\ answer'.ip = exit /\ answer'.view = Echo
      /\ answer'.anonymity = AnonymityLevel(Echo, claim, deployment.trust_cf)
  BY <1>2
<1>4. SentXff' = SentXff /\ SentNames' = SentNames
  BY <1>2 DEF SentXff, SentNames, Overwritten
<1>5. (Leaks <=> Leaks') /\ (Reveals <=> Reveals')
  BY <1>2, <1>4 DEF Leaks, Reveals
<1>6. ExitResolved'
  BY <1>2, <1>3 DEF ExitResolved
<1>7. VerdictCorrect'
  BY <1>1, <1>2, <1>3, <1>5, VerdictOfEcho DEF VerdictCorrect
<1>8. OnlySentEchoed'
  <2>1. SentXff = (IF XFF \in DOMAIN Echo THEN SplitXff(Echo[XFF]) ELSE <<>>)
    BY <1>1, EchoedXff DEF RawXff
  <2>2. \A n \in SentNames : n \in DOMAIN Echo /\ Echo[n] = JoinedHeader(sent, n)
    BY <1>1, SentIsEchoed
  <2>3. \A n \in DOMAIN Echo \ {XFF} : n \in SentNames \/ IsInfra(n, deployment.trust_cf)
    BY <1>1, EchoIsSent
  <2> QED BY <1>2, <1>3, <1>4, <2>1, <2>2, <2>3 DEF OnlySentEchoed
<1> QED BY <1>6, <1>7, <1>8 DEF Answers

LEMMA AnswersHold == Spec => []Answers
<1>1. Init => Answers
  BY DEF Init, Answers, ExitResolved, OnlySentEchoed, VerdictCorrect, Judged, NoAnswer
<1>2. VerdictInv /\ Answers /\ [Next]_vars => Answers'
  <2> SUFFICES ASSUME VerdictInv, Answers, [Next]_vars PROVE Answers'
    OBVIOUS
  <2>1. CASE Send \/ Forward
    <3>1. at # Len(deployment.hops) /\ answer' = answer
      <4>1. Len(deployment.hops) \in Nat
        BY HopFacts DEF VerdictInv, Placed
      <4> QED BY <2>1, <4>1 DEF Send, Forward
    <3>2. ~Judged'
      BY <3>1 DEF VerdictInv, Placed, Judged
    <3> QED BY <3>2 DEF Answers, ExitResolved, OnlySentEchoed, VerdictCorrect
  <2>2. CASE Judge
    BY <2>2, JudgeAnswers
  <2>3. CASE UNCHANGED vars
    <3>1. UNCHANGED <<deployment, exit, claim, sent, answer>>
      BY <2>3 DEF vars
    <3>2. /\ SentXff' = SentXff /\ SentNames' = SentNames /\ (Judged <=> Judged')
          /\ (Leaks <=> Leaks') /\ (Reveals <=> Reveals')
      BY <3>1 DEF SentXff, SentNames, Overwritten, Judged, Leaks, Reveals
    <3> QED BY <3>1, <3>2 DEF Answers, ExitResolved, OnlySentEchoed, VerdictCorrect
  <2> QED BY <2>1, <2>2, <2>3 DEF Next
<1> QED BY <1>1, <1>2, VerdictInvariant, PTL DEF Spec

\* Whatever X-Forwarded-For and CF-Connecting-IP a proxy sends, the address that is
\* echoed, located and rate limited (self_ip) is the one the request came from, in
\* every supported deployment.
THEOREM ExitAlwaysResolved == Spec => []ExitResolved
BY AnswersHold, PTL DEF Answers

\* The echo (proxy_view) has every header of the proxy that no hop and no EDGE_HEADERS
\* takes away, and its X-Forwarded-For entries in order (behind a CDN, pre_edge_xff:
\* those that are not its own exit address); of the hops it has nothing that counts,
\* with any number of hops behind a CDN.
THEOREM OnlySentIsEchoed == Spec => []OnlySentEchoed
BY AnswersHold, PTL DEF Answers

\* The anonymity level (logic::anonymity_level on proxy_view) is the one that the
\* proxy's own headers deserve.
THEOREM VerdictAlwaysCorrect == Spec => []VerdictCorrect
BY AnswersHold, PTL DEF Answers
=============================================================================
