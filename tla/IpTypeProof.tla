----------------------------- MODULE IpTypeProof -----------------------------
(***************************************************************************)
(* Proofs about ip_type, for any number of requests and addresses, any     *)
(* organisations and names and any life of a cache entry.                  *)
(***************************************************************************)
EXTENDS IpType, TLAPS

LEMMA FirstFits ==
  ASSUME NEW l \in Nat, NEW n \in Nat, n # 0, NEW i \in 0..l - n
  PROVE  1 \in 1..n /\ i + 1 \in 1..l
OBVIOUS

\* A blank text contains no keyword of the tables that only the organisation feeds.
LEMMA BlankHasNoKeyword ==
  ASSUME NEW Symbols, NEW text \in Seq(Symbols), Blank(text)
  PROVE  /\ Hits(text, HostingKw) = {} /\ Hits(text, HostingVendors) = {}
         /\ Hits(text, BusinessKw) = {}
<1>0. Len(text) \in Nat
  OBVIOUS
<1>1. \A n \in 1..Len(text) : text[n] = " "
  BY Zenon DEF Blank
<1>2. ASSUME NEW k, NEW n \in Nat, Len(k) = n, n # 0, k[1] # " "
      PROVE  ~ContainsWord(text, k)
  <2>1. ASSUME NEW i \in 0..Len(text) - n, \A j \in 1..n : text[i + j] = k[j]
        PROVE  FALSE
    <3>1. 1 \in 1..n /\ i + 1 \in 1..Len(text)
      BY <1>0, <1>2, FirstFits
    <3>2. text[i + 1] = k[1] /\ text[i + 1] = " "
      BY <1>1, <2>1, <3>1
    <3> QED BY <1>2, <3>2
  <2> QED BY <1>2, <2>1, Zenon DEF ContainsWord
<1>3. /\ Len(<<"host">>) = 1 /\ Len(<<"cloud">>) = 1 /\ Len(<<"data", " ", "center">>) = 3
      /\ Len(<<"aws">>) = 1 /\ Len(<<"google">>) = 1 /\ Len(<<"oracle", " ", "cloud">>) = 3
      /\ Len(<<"bank">>) = 1
  OBVIOUS
<1>4. /\ <<"host">>[1] # " " /\ <<"cloud">>[1] # " " /\ <<"data", " ", "center">>[1] # " "
      /\ <<"aws">>[1] # " " /\ <<"google">>[1] # " " /\ <<"oracle", " ", "cloud">>[1] # " "
      /\ <<"bank">>[1] # " "
  OBVIOUS
<1>5. 1 \in Nat /\ 3 \in Nat /\ 1 # 0 /\ 3 # 0
  OBVIOUS
<1>6. \A k \in HostingKw \cup HostingVendors \cup BusinessKw : ~ContainsWord(text, k)
  <2>1. \A k \in HostingKw : ~ContainsWord(text, k)
    BY <1>2, <1>3, <1>4, <1>5, Zenon DEF HostingKw
  <2>2. \A k \in HostingVendors : ~ContainsWord(text, k)
    BY <1>2, <1>3, <1>4, <1>5, Zenon DEF HostingVendors
  <2>3. \A k \in BusinessKw : ~ContainsWord(text, k)
    BY <1>2, <1>3, <1>4, <1>5, Zenon DEF BusinessKw
  <2> QED BY <2>1, <2>2, <2>3
<1> QED BY <1>6 DEF Hits

LEMMA BlankDecidesNothing ==
  ASSUME NEW Symbols, NEW aso, NEW rdns, OrEmpty(aso) \in Seq(Symbols), Blank(OrEmpty(aso))
  PROVE  ClassifyIp(aso, rdns).type \notin {"datacenter", "business"}
<1> DEFINE k == Keywords(aso, rdns)
<1>1. k.hosting = {} /\ k.vendor = {} /\ k.business = {}
  BY BlankHasNoKeyword DEF Keywords
<1> QED BY <1>1 DEF ClassifyIp

LEMMA TypeInit == ASSUME Init PROVE TypeInv /\ NameFresh
<1>1. TypeOK
  BY TimeAssumption DEF Init, TypeOK, States, NoEntry
<1>2. CacheTold /\ OnTheWay
  BY DEF Init, CacheTold, OnTheWay
<1>3. AnswerOf /\ NameFresh
  BY DEF Init, AnswerOf, NameFresh, Answered
<1> QED BY <1>1, <1>2, <1>3 DEF TypeInv

\* The request answered gets what Respond says, and nobody else anything.
LEMMA RespondAnswers ==
  ASSUME TypeOK, NEW r \in Requests, NEW name, NEW gave_up, Respond(r, name, gave_up)
  PROVE  /\ pc'[r] = "done" /\ pc' \in [Requests -> States] /\ DOMAIN answer' = Requests
         /\ answer'[r].of = ClassifyIp(org[ip[r]], name) /\ answer'[r].name = name
         /\ answer'[r].gave_up = gave_up /\ answer'[r].at = now
         /\ \A q \in Requests \ {r} : pc'[q] = pc[q] /\ answer'[q] = answer[q]
BY DEF Respond, TypeOK, States

\* What the name used must be.
NameOk(r, name, gave_up) ==
  IF enabled /\ IsPublicIp(ip[r]) /\ ~Known(ip[r]) /\ ~gave_up
  THEN \E e \in told : /\ e.ip = ip[r] /\ e.name = name
                       /\ e.at <= now /\ now < e.at + Ttl
  ELSE name = NoText

\* An answer with such a name keeps the invariant.
LEMMA GoodAnswer ==
  ASSUME TypeInv, NameFresh, NEW r \in Requests, NEW name, NEW gave_up,
         Respond(r, name, gave_up), NameOk(r, name, gave_up),
         UNCHANGED <<now, enabled, org, ip, task, found, cache, told>>
  PROVE  TypeInv' /\ NameFresh'
<1> USE RespondAnswers DEF TypeInv
<1>1. TypeOK'
  BY DEF TypeOK
<1>2. CacheTold'
  BY DEF CacheTold
<1>3. OnTheWay'
  BY DEF OnTheWay, RdnsWanted
<1>4. AnswerOf'
  BY DEF AnswerOf, Answered, TypeOK
<1>5. NameFresh'
  <2> SUFFICES ASSUME NEW q \in Requests, Answered(q)'
               PROVE  IF enabled /\ IsPublicIp(ip[q]) /\ ~Known(ip[q]) /\ ~answer'[q].gave_up
                      THEN \E e \in told : /\ e.ip = ip[q] /\ e.name = answer'[q].name
                                           /\ e.at <= answer'[q].at /\ answer'[q].at < e.at + Ttl
                      ELSE answer'[q].name = NoText
    BY DEF NameFresh, Known
  <2>1. CASE q = r
    BY <2>1 DEF NameOk
  <2>2. CASE q # r
    BY <2>2 DEF NameFresh, Answered
  <2> QED BY <2>1, <2>2
<1> QED BY <1>1, <1>2, <1>3, <1>4, <1>5

\* A step that neither answers nor changes what answers are about.
LEMMA SameAnswers ==
  ASSUME AnswerOf, NameFresh, UNCHANGED <<enabled, org, ip, answer>>, told \subseteq told',
         \A r \in Requests : pc'[r] = "done" <=> pc[r] = "done"
  PROVE  AnswerOf' /\ NameFresh'
<1>1. AnswerOf'
  BY DEF AnswerOf, Answered
<1>2. NameFresh'
  BY DEF NameFresh, Answered, Known
<1> QED BY <1>1, <1>2

LEMMA TypeStep ==
  ASSUME TypeInv, NameFresh, [Next]_vars
  PROVE  TypeInv' /\ NameFresh'
<1> USE DEF TypeInv
<1>1. ASSUME NEW r \in Requests, AnswerAtOnce(r) PROVE TypeInv' /\ NameFresh'
  <2>1. NameOk(r, NoText, FALSE)
    BY <1>1 DEF AnswerAtOnce, NameOk, RdnsWanted, Known
  <2> QED BY <1>1, <2>1, GoodAnswer DEF AnswerAtOnce
<1>2. ASSUME NEW r \in Requests, CacheHit(r) PROVE TypeInv' /\ NameFresh'
  <2>1. RdnsWanted(ip[r]) /\ ip[r] \in Ips
    BY <1>2 DEF CacheHit, OnTheWay, TypeOK
  <2>2. PICK e \in told : /\ e.ip = ip[r] /\ e.name = cache[ip[r]].name
                          /\ e.at = cache[ip[r]].at /\ e.at \in Nat /\ e.at <= now
    BY <1>2, <2>1 DEF CacheHit, Cached, CacheTold
  <2>3. NameOk(r, cache[ip[r]].name, FALSE)
    BY <1>2, <2>1, <2>2 DEF CacheHit, Cached, NameOk, RdnsWanted, Known
  <2> QED BY <1>2, <2>3, GoodAnswer DEF CacheHit
<1>3. ASSUME NEW r \in Requests, GiveUp(r) PROVE TypeInv' /\ NameFresh'
  <2>1. NameOk(r, NoText, TRUE)
    BY DEF NameOk
  <2> QED BY <1>3, <2>1, GoodAnswer DEF GiveUp
<1>4. ASSUME NEW r \in Requests, Joined(r) PROVE TypeInv' /\ NameFresh'
  <2>1. RdnsWanted(ip[r]) /\ [ip |-> ip[r], name |-> found[r], at |-> now] \in told
    BY <1>4 DEF Joined, OnTheWay
  <2>2. NameOk(r, found[r], FALSE)
    BY <2>1, TimeAssumption DEF NameOk, RdnsWanted, Known, TypeOK
  <2> QED BY <1>4, <2>2, GoodAnswer DEF Joined
<1>5. ASSUME NEW r \in Requests, Wait(r) \/ GetPermit(r) \/ SpawnLookup(r)
      PROVE TypeInv' /\ NameFresh'
  <2>1. TypeOK'
    BY <1>5 DEF Wait, GetPermit, SpawnLookup, TypeOK, States
  <2>2. CacheTold'
    BY <1>5 DEF Wait, GetPermit, SpawnLookup, CacheTold
  <2>3. OnTheWay'
    BY <1>5 DEF Wait, GetPermit, SpawnLookup, OnTheWay, RdnsWanted, TypeOK
  <2>4. /\ UNCHANGED <<enabled, org, ip, answer, told>>
        /\ \A q \in Requests : pc'[q] = "done" <=> pc[q] = "done"
    BY <1>5 DEF Wait, GetPermit, SpawnLookup, TypeOK
  <2> QED BY <2>1, <2>2, <2>3, <2>4, SameAnswers
<1>6. ASSUME NEW r \in Requests, LookupEnds(r) PROVE TypeInv' /\ NameFresh'
  <2>1. PICK name \in Names :
          /\ found' = [found EXCEPT ![r] = name]
          /\ cache' = [cache EXCEPT ![ip[r]] = [name |-> name, at |-> now]]
          /\ told' = told \cup {[ip |-> ip[r], name |-> name, at |-> now]}
    BY <1>6 DEF LookupEnds, Stored
  <2>2. /\ task' = [task EXCEPT ![r] = "stored"] /\ task[r] = "running"
        /\ UNCHANGED <<now, enabled, org, pc, ip, answer>>
    BY <1>6 DEF LookupEnds
  <2>3. TypeOK'
    BY <2>1, <2>2 DEF TypeOK
  <2>4. CacheTold'
    <3> SUFFICES ASSUME NEW a \in Ips, cache'[a] # NoEntry
                 PROVE  \E e \in told' : /\ e.ip = a /\ e.name = cache'[a].name
                                         /\ e.at = cache'[a].at /\ e.at \in Nat /\ e.at <= now
      BY <2>2 DEF CacheTold, NoEntry
    <3>1. CASE a = ip[r]
      <4> DEFINE e == [ip |-> a, name |-> name, at |-> now]
      <4>1. cache'[a] = [name |-> name, at |-> now] /\ e \in told'
        BY <2>1, <3>1 DEF TypeOK
      <4>2. /\ e.ip = a /\ e.name = cache'[a].name
            /\ e.at = cache'[a].at /\ e.at \in Nat /\ e.at <= now
        BY <4>1 DEF TypeOK
      <4> QED BY <4>1, <4>2
    <3>2. CASE a # ip[r]
      BY <2>1, <3>2 DEF TypeOK, CacheTold
    <3> QED BY <3>1, <3>2
  <2>5. OnTheWay'
    BY <2>1, <2>2 DEF OnTheWay, RdnsWanted, TypeOK
  <2> QED BY <2>1, <2>2, <2>3, <2>4, <2>5, SameAnswers
<1>7. CASE Tick
  <2>1. TypeOK'
    BY <1>7 DEF Tick, TypeOK
  <2>2. CacheTold'
    BY <1>7 DEF Tick, CacheTold, TypeOK
  <2>3. OnTheWay'
    BY <1>7 DEF Tick, OnTheWay, RdnsWanted
  <2> QED BY <1>7, <2>1, <2>2, <2>3, SameAnswers DEF Tick
<1>8. CASE UNCHANGED vars
  <2>1. TypeOK' /\ CacheTold' /\ OnTheWay'
    BY <1>8 DEF vars, TypeOK, CacheTold, OnTheWay, RdnsWanted
  <2> QED BY <1>8, <2>1, SameAnswers DEF vars
<1> QED BY <1>1, <1>2, <1>3, <1>4, <1>5, <1>6, <1>7, <1>8 DEF Next

\* maybe_rdns, ip_type and judge: what is cached, in hand and answered is what was
\* looked up.
THEOREM TypeInvariant == Spec => [](TypeInv /\ NameFresh)
<1>1. TypeInv /\ NameFresh /\ [Next]_vars => (TypeInv /\ NameFresh)'
  BY TypeStep
<1> QED BY <1>1, TypeInit, PTL DEF Spec

\* maybe_rdns: the name used is in an answer that the resolver gave for that address
\* within the cache's hour (if lookups overlap, not always the latest), or there is none.
THEOREM NamesAreFresh == Spec => []NameFresh
BY TypeInvariant, PTL

\* classify_ip and maybe_rdns: with a known organisation reverse DNS changes nothing,
\* without one it never makes a datacenter or a business.
THEOREM OrganisationAlwaysDecides == Spec => []OrganisationDecides
<1>1. TypeInv /\ NameFresh => OrganisationDecides
  <2> SUFFICES ASSUME TypeInv, NameFresh, NEW r \in Requests, Answered(r)
               PROVE  IF Known(ip[r])
                      THEN answer[r].of.type = ClassifyIp(org[ip[r]], NoText).type
                      ELSE answer[r].of.type \notin {"datacenter", "business"}
    BY DEF OrganisationDecides
  <2>1. answer[r].of = ClassifyIp(org[ip[r]], answer[r].name)
    BY DEF TypeInv, AnswerOf
  <2>2. CASE Known(ip[r])
    <3>1. answer[r].name = NoText
      BY <2>2 DEF NameFresh
    <3> QED BY <2>1, <2>2, <3>1
  <2>3. CASE ~Known(ip[r])
    <3>1. org[ip[r]] \in Orgs
      BY DEF TypeInv, TypeOK
    <3>2. OrEmpty(org[ip[r]]) \in Seq(STRING)
      <4>1. <<>> \in Seq(STRING)
        OBVIOUS
      <4> QED BY <3>1, <4>1, TextsAssumption, Zenon DEF OrEmpty
    <3> QED BY <2>1, <2>3, <3>2, BlankDecidesNothing DEF Known
  <2> QED BY <2>2, <2>3
<1> QED BY <1>1, TypeInvariant, PTL

-----------------------------------------------------------------------------
\* What TypeSignals lists.

\* A keyword that is found is a run of the text.
LEMMA FoundIsPart ==
  ASSUME NEW S, NEW text \in Seq(S), NEW T, NEW k \in Seq(T), Len(k) # 0, ContainsWord(text, k)
  PROVE  k \in Parts(text)
<1>0. Len(text) \in Nat /\ Len(k) \in Nat
  OBVIOUS
<1>1. PICK i \in 0..Len(text) - Len(k) : \A j \in 1..Len(k) : text[i + j] = k[j]
  BY DEF ContainsWord
<1>2. i + 1 \in 1..Len(text) /\ i + Len(k) \in 1..Len(text)
  BY <1>0, <1>1
<1>3. k = SubSeq(text, i + 1, i + Len(k))
  BY <1>0, <1>1, <1>2
<1> QED BY <1>2, <1>3 DEF Parts

LEMMA OneWord == ASSUME NEW T, NEW w \in T PROVE Len(<<w>>) = 1 /\ <<w>>[1] = w /\ <<w>> \in Seq(T)
OBVIOUS

LEMMA ThreeWords ==
  ASSUME NEW T, NEW u \in T, NEW v \in T, NEW w \in T
  PROVE  Len(<<u, v, w>>) = 3 /\ <<u, v, w>> \in Seq(T)
OBVIOUS

\* The words of the keywords that only the organisation is searched for.
OrgWords == {"host", "cloud", "data", " ", "center", "aws", "google", "oracle", "bank"}

LEMMA WordsAreTexts ==
  /\ \A k \in HostingKw \cup HostingVendors \cup BusinessKw : k \in Seq(OrgWords) /\ Len(k) # 0
  /\ \A k \in MobileKw \cup ResidentialKw : \E w : k = <<w>> /\ w # " "
<1>0. 1 # 0 /\ 3 # 0
  OBVIOUS
<1>1. /\ "host" \in OrgWords /\ "cloud" \in OrgWords /\ "data" \in OrgWords
      /\ "center" \in OrgWords /\ "aws" \in OrgWords /\ "google" \in OrgWords
      /\ "oracle" \in OrgWords /\ "bank" \in OrgWords /\ " " \in OrgWords
  BY DEF OrgWords
<1>2. "mobile" # " " /\ "lte" # " " /\ "dsl" # " " /\ "fiber" # " " /\ "pool" # " "
  OBVIOUS
<1>3. /\ \A w \in OrgWords : <<w>> \in Seq(OrgWords) /\ Len(<<w>>) # 0
      /\ \A u, v, w \in OrgWords : <<u, v, w>> \in Seq(OrgWords) /\ Len(<<u, v, w>>) # 0
  BY OneWord, ThreeWords, <1>0, Zenon
<1>4. \A k \in HostingKw : k \in Seq(OrgWords) /\ Len(k) # 0
  BY <1>1, <1>3, Zenon DEF HostingKw
<1>5. \A k \in HostingVendors : k \in Seq(OrgWords) /\ Len(k) # 0
  BY <1>1, <1>3, Zenon DEF HostingVendors
<1>6. \A k \in BusinessKw : k \in Seq(OrgWords) /\ Len(k) # 0
  BY <1>1, <1>3, Zenon DEF BusinessKw
<1>7. \A k \in MobileKw : \E w : k = <<w>> /\ w # " "
  BY <1>2, Zenon DEF MobileKw
<1>8. \A k \in ResidentialKw : \E w : k = <<w>> /\ w # " "
  BY <1>2, Zenon DEF ResidentialKw
<1> QED BY <1>4, <1>5, <1>6, <1>7, <1>8, Zenon

\* Where an element of two texts with a separator between them stands.
LEMMA ElementOfJoined ==
  ASSUME NEW S, NEW s \in Seq(S), NEW t \in Seq(S), NEW sep,
         NEW all, all = s \o <<sep>> \o t, NEW p \in 1..Len(all), all[p] # sep
  PROVE  \/ p \in 1..Len(s) /\ s[p] = all[p]
         \/ p - Len(s) - 1 \in 1..Len(t) /\ t[p - Len(s) - 1] = all[p]
<1> DEFINE T == S \cup {sep}
<1>1. s \in Seq(T) /\ t \in Seq(T) /\ <<sep>> \in Seq(T)
  OBVIOUS
<1> QED BY <1>1

LEMMA ElementIsPart ==
  ASSUME NEW S, NEW text \in Seq(S), NEW p \in 1..Len(text)
  PROVE  <<text[p]>> \in Parts(text)
<1>1. <<text[p]>> = SubSeq(text, p, p)
  OBVIOUS
<1> QED BY <1>1 DEF Parts

\* A single word found in both texts together stands in one of them.
LEMMA WordOfEither ==
  ASSUME NEW S, NEW s \in Seq(S), NEW t \in Seq(S), NEW w, NEW sep,
         w # sep, ContainsWord(s \o <<sep>> \o t, <<w>>)
  PROVE  <<w>> \in Parts(s) \cup Parts(t)
<1> DEFINE all == s \o <<sep>> \o t
<1>1. Len(all) \in Nat
  <2>1. s \in Seq(S \cup {sep}) /\ t \in Seq(S \cup {sep}) /\ <<sep>> \in Seq(S \cup {sep})
    OBVIOUS
  <2> QED BY <2>1
<1> HIDE DEF all
<1>0. Len(<<w>>) = 1 /\ <<w>>[1] = w
  BY OneWord
<1>2. PICK i \in 0..Len(all) - 1 : \A j \in 1..1 : all[i + j] = <<w>>[j]
  BY <1>0, Zenon DEF ContainsWord, all
<1>3. i + 1 \in 1..Len(all) /\ 1 \in 1..1
  BY <1>1
<1>4. all[i + 1] = w
  BY <1>0, <1>2, <1>3
<1>5. PICK p \in 1..Len(all) : all[p] = w
  BY <1>3, <1>4
<1>6. all[p] # sep
  BY <1>5
<1>7. \/ p \in 1..Len(s) /\ s[p] = all[p]
      \/ p - Len(s) - 1 \in 1..Len(t) /\ t[p - Len(s) - 1] = all[p]
  <2>1. all = s \o <<sep>> \o t
    BY DEF all
  <2> QED BY <1>5, <1>6, <2>1, ElementOfJoined
<1> QED BY <1>5, <1>7, ElementIsPart, Zenon

\* The lists of an answer.
LEMMA KeywordsArePresent ==
  ASSUME NEW aso, NEW rdns, OrEmpty(aso) \in Seq(STRING), OrEmpty(rdns) \in Seq(STRING)
  PROVE  LET k == Keywords(aso, rdns)
         IN  /\ k.hosting \cup k.vendor \cup k.business \subseteq Parts(OrEmpty(aso))
             /\ k.mobile \cup k.residential \subseteq Parts(OrEmpty(aso)) \cup Parts(OrEmpty(rdns))
<1> DEFINE k == Keywords(aso, rdns)
           all == OrEmpty(aso) \o <<" ">> \o OrEmpty(rdns)
<1>1. /\ k.hosting \subseteq Hits(OrEmpty(aso), HostingKw)
      /\ k.vendor \subseteq Hits(OrEmpty(aso), HostingVendors)
      /\ k.business \subseteq Hits(OrEmpty(aso), BusinessKw)
      /\ k.mobile = Hits(all, MobileKw) /\ k.residential = Hits(all, ResidentialKw)
  BY DEF Keywords
<1>2. k.hosting \cup k.vendor \cup k.business \subseteq Parts(OrEmpty(aso))
  <2>1. \A l \in HostingKw \cup HostingVendors \cup BusinessKw :
          ContainsWord(OrEmpty(aso), l) => l \in Parts(OrEmpty(aso))
    BY WordsAreTexts, FoundIsPart
  <2> QED BY <1>1, <2>1, Zenon DEF Hits
<1>3. k.mobile \cup k.residential \subseteq Parts(OrEmpty(aso)) \cup Parts(OrEmpty(rdns))
  <2>1. \A l \in MobileKw \cup ResidentialKw :
          ContainsWord(all, l) => l \in Parts(OrEmpty(aso)) \cup Parts(OrEmpty(rdns))
    <3> SUFFICES ASSUME NEW l \in MobileKw \cup ResidentialKw, ContainsWord(all, l)
                 PROVE  l \in Parts(OrEmpty(aso)) \cup Parts(OrEmpty(rdns))
      OBVIOUS
    <3>1. PICK w : l = <<w>> /\ w # " "
      BY WordsAreTexts, Zenon
    <3>2. ContainsWord(OrEmpty(aso) \o <<" ">> \o OrEmpty(rdns), <<w>>)
      BY <3>1, Zenon
    <3>3. <<w>> \in Parts(OrEmpty(aso)) \cup Parts(OrEmpty(rdns))
      BY <3>1, <3>2, WordOfEither, Zenon
    <3> QED BY <3>1, <3>3, Zenon
  <2> QED BY <1>1, <2>1, Zenon DEF Hits
<1> QED BY <1>2, <1>3

\* The type is a function of the lists and the note.
LEMMA ReasonsDecide ==
  ASSUME NEW a, NEW b, NEW m, NEW n,
         ClassifyIp(a, m).keywords = ClassifyIp(b, n).keywords,
         ClassifyIp(a, m).note = ClassifyIp(b, n).note
  PROVE  ClassifyIp(a, m).type = ClassifyIp(b, n).type
<1> DEFINE k == Keywords(a, m)
           Reason(note) ==
             IF note = "google fiber" THEN "residential"
             ELSE IF k.mobile # {} THEN "mobile"
             ELSE IF k.hosting \cup k.vendor # {} THEN "datacenter"
             ELSE IF k.business # {} THEN "business"
             ELSE IF k.residential # {} \/ note = "ordinary ISP" THEN "residential"
             ELSE "unknown"
<1>1. /\ ClassifyIp(a, m).keywords = Keywords(a, m) /\ ClassifyIp(b, n).keywords = Keywords(b, n)
      /\ ClassifyIp(a, m).note = Note(a, Keywords(a, m))
      /\ ClassifyIp(b, n).note = Note(b, Keywords(b, n))
  BY DEF ClassifyIp
<1>2. ASSUME NEW aso, NEW rdns, Keywords(aso, rdns) = k
      PROVE  ClassifyIp(aso, rdns).type = Reason(Note(aso, k))
  <2>1. DOMAIN k = {"hosting", "vendor", "mobile", "residential", "business"}
    BY DEF Keywords
  <2>2. ~Blank(OrEmpty(aso)) /\ k.mobile = {} /\ k.hosting \cup k.vendor = {} /\ k.business = {}
          /\ k.residential = {} /\ Note(aso, k) # "google fiber"
        => Note(aso, k) = "ordinary ISP"
    BY <2>1 DEF Note
  <2>3. Note(aso, k) = "ordinary ISP" => ~Blank(OrEmpty(aso))
    BY DEF Note
  <2> HIDE DEF k
  <2>4. ClassifyIp(aso, rdns).type =
          IF Note(aso, k) = "google fiber" THEN "residential"
          ELSE IF k.mobile # {} THEN "mobile"
          ELSE IF k.hosting \cup k.vendor # {} THEN "datacenter"
          ELSE IF k.business # {} THEN "business"
          ELSE IF k.residential # {} \/ ~Blank(OrEmpty(aso)) THEN "residential"
          ELSE "unknown"
    BY <1>2 DEF ClassifyIp
  <2> QED BY <2>2, <2>3, <2>4
<1> QED BY <1>1, <1>2

\* Names in answers are the resolver's.
NamesKnown == \A r \in Requests : answer[r].name \in Names \cup {NoText}

LEMMA NamesStep == ASSUME TypeOK, NamesKnown, [Next]_vars PROVE NamesKnown'
<1>1. ASSUME NEW r \in Requests, NEW name \in Names \cup {NoText}, NEW gave_up,
             Respond(r, name, gave_up)
      PROVE  NamesKnown'
  BY <1>1, RespondAnswers DEF NamesKnown
<1>2. ASSUME NEW r \in Requests, AnswerAtOnce(r) \/ CacheHit(r) \/ GiveUp(r) \/ Joined(r)
      PROVE  NamesKnown'
  <2>1. found[r] \in Names \cup {NoText} /\ cache[ip[r]].name \in Names \cup {NoText}
    BY DEF TypeOK
  <2> QED BY <1>1, <1>2, <2>1 DEF AnswerAtOnce, CacheHit, GiveUp, Joined
<1>3. CASE UNCHANGED answer
  BY <1>3 DEF NamesKnown
<1> QED BY <1>2, <1>3 DEF Next, vars, Wait, GetPermit, SpawnLookup, LookupEnds, Tick

\* TypeSignals: what classify_ip lists stands in the texts it saw, and lists and note
\* together determine the type it answers.
THEOREM SignalsAlwaysExplain == Spec => []SignalsExplain
<1>1. Init => NamesKnown
  <2> SUFFICES ASSUME Init PROVE NamesKnown
    OBVIOUS
  <2>1. PICK c : answer = [r \in Requests |-> [of |-> c, name |-> NoText, gave_up |-> FALSE, at |-> 0]]
    BY Zenon DEF Init
  <2> QED BY <2>1 DEF NamesKnown
<1>2. TypeInv /\ NamesKnown /\ [Next]_vars => NamesKnown'
  BY NamesStep DEF TypeInv
<1>3. TypeInv /\ NamesKnown => SignalsExplain
  <2> SUFFICES ASSUME TypeInv, NamesKnown PROVE SignalsExplain
    OBVIOUS
  <2>1. ASSUME NEW t \in Orgs \cup Names \cup {NoText} PROVE OrEmpty(t) \in Seq(STRING)
    <3>1. <<>> \in Seq(STRING)
      OBVIOUS
    <3> QED BY <3>1, TextsAssumption, Zenon DEF OrEmpty
  <2>2. ASSUME NEW r \in Requests, Answered(r)
        PROVE  /\ answer[r].of = ClassifyIp(org[ip[r]], answer[r].name)
               /\ answer[r].of.keywords = Keywords(org[ip[r]], answer[r].name)
               /\ OrEmpty(org[ip[r]]) \in Seq(STRING) /\ OrEmpty(answer[r].name) \in Seq(STRING)
    <3>1. answer[r].of = ClassifyIp(org[ip[r]], answer[r].name)
      BY <2>2 DEF TypeInv, AnswerOf
    <3>2. org[ip[r]] \in Orgs /\ answer[r].name \in Names \cup {NoText}
      BY DEF TypeInv, TypeOK, NamesKnown
    <3>3. ClassifyIp(org[ip[r]], answer[r].name).keywords = Keywords(org[ip[r]], answer[r].name)
      BY DEF ClassifyIp
    <3> QED BY <2>1, <3>1, <3>2, <3>3, Zenon
  <2>3. ASSUME NEW r \in Requests, Answered(r), NEW q \in Requests, Answered(q),
               answer[q].of.keywords = answer[r].of.keywords, answer[q].of.note = answer[r].of.note
        PROVE  answer[q].of.type = answer[r].of.type
    BY <2>2, <2>3, ReasonsDecide
  <2> QED BY <2>2, <2>3, KeywordsArePresent DEF SignalsExplain
<1> QED BY <1>1, <1>2, <1>3, TypeInvariant, PTL DEF Spec
=============================================================================
