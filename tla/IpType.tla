-------------------------------- MODULE IpType --------------------------------
(***************************************************************************)
(* The ip_type of /type and /judge: classify_ip of src/logic.rs, and the   *)
(* rule of src/app.rs that says when reverse DNS has a say in it.  Lookups *)
(* of one address may overlap and end in any order, each answer replaces   *)
(* the cached one, and requests come and go meanwhile.  The permits and    *)
(* timers of maybe_rdns are in Pipeline; here a request may find no permit *)
(* and may give up on its lookup at any time.                              *)
(*                                                                         *)
(* A text is a sequence of words and of what separates them, without       *)
(* regard to case.  The keyword tables are represented by some of their    *)
(* members.                                                                *)
(***************************************************************************)
EXTENDS Naturals, Sequences

CONSTANTS
  Requests,
  Ips,
  Class,     \* the range of addresses each is in
  Orgs,      \* ASN organisations the geo databases may know; NoText: none
  Names,     \* names the resolver may find; NoText: none
  NoText,
  Ttl,       \* life of a ptr_cache entry: an hour
  MaxNow     \* bound on the clock

ASSUME TimeAssumption == Ttl \in Nat \ {0} /\ MaxNow \in Nat
ASSUME TextsAssumption == \A t \in Orgs \cup Names : t = NoText \/ t \in Seq(STRING)

HostingKw == {<<"host">>, <<"cloud">>, <<"data", " ", "center">>}
HostingVendors == {<<"aws">>, <<"google">>, <<"oracle", " ", "cloud">>}
MobileKw == {<<"mobile">>, <<"lte">>}
ResidentialKw == {<<"dsl">>, <<"fiber">>, <<"pool">>}
BusinessKw == {<<"bank">>}
GoogleFiber == <<"google", " ", "fiber">>

\* Words that contain another as a part.
Inside == [ghost |-> {"host"}, shaws |-> {"aws"}]

-----------------------------------------------------------------------------
\* logic.rs

\* Slip: a keyword may be a part of a word.
ContainsPart(text, needle) ==
  \E i \in 0..Len(text) - Len(needle) : \A j \in 1..Len(needle) :
    LET w == text[i + j] IN w = needle[j] \/ (w \in DOMAIN Inside /\ needle[j] \in Inside[w])

\* contains_word, of words and phrases
ContainsWord(text, needle) ==
  \E i \in 0..Len(text) - Len(needle) : \A j \in 1..Len(needle) : text[i + j] = needle[j]

Hits(text, keywords) == {k \in keywords : ContainsWord(text, k)}

\* trim().is_empty()
Blank(text) == \A i \in 1..Len(text) : text[i] = " "

OrEmpty(text) == IF text = NoText THEN <<>> ELSE text

\* The lists of TypeSignals, without the note
Keywords(aso, rdns) ==
  LET all == OrEmpty(aso) \o <<" ">> \o OrEmpty(rdns)
      exempt == IF ContainsWord(OrEmpty(aso), GoogleFiber) THEN {<<"google">>} ELSE {}
  IN  [hosting |-> Hits(OrEmpty(aso), HostingKw),
       vendor |-> Hits(OrEmpty(aso), HostingVendors) \ exempt,
       mobile |-> Hits(all, MobileKw),
       residential |-> Hits(all, ResidentialKw),
       business |-> Hits(OrEmpty(aso), BusinessKw)]

\* Slip: an ordinary ISP is not noted.
NoNote(aso, k) == IF ContainsWord(OrEmpty(aso), GoogleFiber) THEN "google fiber" ELSE "none"

\* The note is set only where no keyword decides.
Note(aso, k) ==
  IF ContainsWord(OrEmpty(aso), GoogleFiber) THEN "google fiber"
  ELSE IF (\A l \in DOMAIN k : k[l] = {}) /\ ~Blank(OrEmpty(aso)) THEN "ordinary ISP"
  ELSE "none"

\* classify_ip
ClassifyIp(aso, rdns) ==
  LET k == Keywords(aso, rdns)
      note == Note(aso, k)
      type == IF note = "google fiber" THEN "residential"
              ELSE IF k.mobile # {} THEN "mobile"
              ELSE IF k.hosting \cup k.vendor # {} THEN "datacenter"
              ELSE IF k.business # {} THEN "business"
              ELSE IF k.residential # {} \/ ~Blank(OrEmpty(aso)) THEN "residential"
              ELSE "unknown"
  IN  [type |-> type, keywords |-> k, note |-> note]

-----------------------------------------------------------------------------
VARIABLES
  now,
  enabled, \* rdns_timeout is not zero
  org,     \* aso of each address, as geo_cached returns it
  pc,      \* new, waiting (for a permit), permitted, lookup, done
  ip,      \* the address of each request
  task,    \* its blocking lookup: none, running, stored
  found,   \* what the lookup returned
  cache,   \* ptr_cache: name and time of insertion
  answer,  \* classification, name used, whether it gave up on one, time
  told     \* history: every answer of the resolver

vars == <<now, enabled, org, pc, ip, task, found, cache, answer, told>>

NoEntry == [name |-> NoText, at |-> MaxNow + Ttl]

Init ==
  /\ now = 0
  /\ enabled \in BOOLEAN
  /\ org \in [Ips -> Orgs]
  /\ pc = [r \in Requests |-> "new"]
  /\ ip \in [Requests -> Ips]
  /\ task = [r \in Requests |-> "none"]
  /\ found = [r \in Requests |-> NoText]
  /\ cache = [a \in Ips |-> NoEntry]
  /\ answer = [r \in Requests |-> [of |-> ClassifyIp(NoText, NoText), name |-> NoText,
                               gave_up |-> FALSE, at |-> 0]]
  /\ told = {}

\* is_public_ip: the ranges it excludes; what is no address is refused before.
IsPublicIp(a) ==
  Class[a] \notin {"loopback", "private", "link_local", "unspecified", "broadcast", "multicast",
                   "documentation", "cgnat", "benchmark", "unique_local", "not an address"}

\* Slip: the organisation is not looked at.
AlwaysWanted(a) == enabled /\ IsPublicIp(a)

\* Slip: a blank organisation counts as known.
BlankIsKnown(a) == enabled /\ org[a] = NoText /\ IsPublicIp(a)

\* maybe_rdns: reverse DNS has a say.
RdnsWanted(a) == enabled /\ Blank(OrEmpty(org[a])) /\ IsPublicIp(a)

\* Slip: an entry never ends.
Eternal(a) == cache[a] # NoEntry

\* ptr_cache holds an entry for the address.
Cached(a) == cache[a] # NoEntry /\ now < cache[a].at + Ttl

\* The handler classifies with what maybe_rdns returned.
Respond(r, name, gave_up) ==
  /\ pc' = [pc EXCEPT ![r] = "done"]
  /\ answer' = [answer EXCEPT ![r] = [of |-> ClassifyIp(org[ip[r]], name), name |-> name,
                                      gave_up |-> gave_up, at |-> now]]

\* Without a lookup.
AnswerAtOnce(r) ==
  /\ pc[r] = "new" /\ ~RdnsWanted(ip[r])
  /\ Respond(r, NoText, FALSE)
  /\ UNCHANGED <<now, enabled, org, ip, task, found, cache, told>>

\* The cache is asked before and after the wait for a permit.
CacheHit(r) ==
  /\ (pc[r] = "new" /\ RdnsWanted(ip[r])) \/ pc[r] = "permitted"
  /\ Cached(ip[r])
  /\ Respond(r, cache[ip[r]].name, FALSE)
  /\ UNCHANGED <<now, enabled, org, ip, task, found, cache, told>>

Wait(r) ==
  /\ pc[r] = "new" /\ RdnsWanted(ip[r]) /\ ~Cached(ip[r])
  /\ pc' = [pc EXCEPT ![r] = "waiting"]
  /\ UNCHANGED <<now, enabled, org, ip, task, found, cache, answer, told>>

GetPermit(r) ==
  /\ pc[r] = "waiting"
  /\ pc' = [pc EXCEPT ![r] = "permitted"]
  /\ UNCHANGED <<now, enabled, org, ip, task, found, cache, answer, told>>

\* No permit in time, or no answer (rdns_skipped, rdns_timeouts): the cache is not asked
\* again, although another lookup may have filled it.
GiveUp(r) ==
  /\ \/ pc[r] = "waiting"
     \/ pc[r] = "lookup" /\ task[r] = "running"
  /\ Respond(r, NoText, TRUE)
  /\ UNCHANGED <<now, enabled, org, ip, task, found, cache, told>>

\* The second look in vain and the spawn in one step: an answer that another lookup
\* stores in between is, for all that is said here, stored right after.
SpawnLookup(r) ==
  /\ pc[r] = "permitted" /\ ~Cached(ip[r])
  /\ pc' = [pc EXCEPT ![r] = "lookup"]
  /\ task' = [task EXCEPT ![r] = "running"]
  /\ UNCHANGED <<now, enabled, org, ip, found, cache, answer, told>>

\* Slip: an entry that is there is renewed and not replaced.
Renewed(a, name) == [cache EXCEPT ![a].at = now]

\* cache.insert
Stored(a, name) == [cache EXCEPT ![a] = [name |-> name, at |-> now]]

\* lookup_addr returns a name or fails, and the answer replaces the cached one, whether
\* or not the request still waits.
LookupEnds(r) ==
  /\ task[r] = "running"
  /\ \E name \in Names :
       /\ found' = [found EXCEPT ![r] = name]
       /\ cache' = Stored(ip[r], name)
       /\ told' = told \cup {[ip |-> ip[r], name |-> name, at |-> now]}
  /\ task' = [task EXCEPT ![r] = "stored"]
  /\ UNCHANGED <<now, enabled, org, pc, ip, answer>>

\* The request gets its own lookup's answer.
Joined(r) ==
  /\ pc[r] = "lookup" /\ task[r] = "stored"
  /\ Respond(r, found[r], FALSE)
  /\ UNCHANGED <<now, enabled, org, ip, task, found, cache, told>>

\* A request that has its answer in hand does not let time pass.
Tick ==
  /\ now < MaxNow
  /\ \A r \in Requests : pc[r] # "lookup" \/ task[r] = "running"
  /\ now' = now + 1
  /\ UNCHANGED <<enabled, org, pc, ip, task, found, cache, answer, told>>

Next ==
  \/ \E r \in Requests : \/ AnswerAtOnce(r) \/ CacheHit(r) \/ Wait(r) \/ GetPermit(r) \/ GiveUp(r)
                         \/ SpawnLookup(r) \/ LookupEnds(r) \/ Joined(r)
  \/ Tick

Spec == Init /\ [][Next]_vars

-----------------------------------------------------------------------------
States == {"new", "waiting", "permitted", "lookup", "done"}

TypeOK ==
  /\ now \in Nat
  /\ org \in [Ips -> Orgs]
  /\ pc \in [Requests -> States]
  /\ ip \in [Requests -> Ips]
  /\ task \in [Requests -> {"none", "running", "stored"}]
  /\ found \in [Requests -> Names \cup {NoText}]
  /\ cache \in [Ips -> [name : Names \cup {NoText}, at : Nat]]
  /\ DOMAIN answer = Requests

Answered(r) == pc[r] = "done"
Known(a) == ~Blank(OrEmpty(org[a]))

\* README: derived "from the ASN organization (and the PTR record when the organization
\* is unknown)".  The type of an address with a known organisation is the same whatever
\* the resolver answers and whatever is cached; without one, a name never makes it a
\* datacenter or a business.
OrganisationDecides ==
  \A r \in Requests : Answered(r) =>
    LET a == ip[r]
        t == answer[r].of.type
    IN  IF Known(a) THEN t = ClassifyIp(org[a], NoText).type
        ELSE t \notin {"datacenter", "business"}

\* maybe_rdns: "resolve only when the ASN org is missing", "results cached for an hour".
\* Where the organisation is missing (or blank) and lookups are on, a public address is
\* classified with an answer that the resolver gave for that very address less than an
\* hour before, to whichever of its lookups and not always the latest, unless the
\* request gave up; elsewhere without a name.
NameFresh ==
  \A r \in Requests : Answered(r) =>
    IF enabled /\ IsPublicIp(ip[r]) /\ ~Known(ip[r]) /\ ~answer[r].gave_up
    THEN \E e \in told : /\ e.ip = ip[r] /\ e.name = answer[r].name
                         /\ e.at <= answer[r].at /\ answer[r].at < e.at + Ttl
    ELSE answer[r].name = NoText

\* What a cache entry says, the resolver said then of that address.
CacheTold ==
  \A a \in Ips : cache[a] # NoEntry =>
    \E e \in told : /\ e.ip = a /\ e.name = cache[a].name
                    /\ e.at = cache[a].at /\ e.at \in Nat /\ e.at <= now

\* Whoever is on the way to a lookup needs one, and an answer in hand is new.
OnTheWay ==
  \A r \in Requests :
    /\ pc[r] \in {"waiting", "permitted", "lookup"} => RdnsWanted(ip[r])
    /\ pc[r] = "lookup" /\ task[r] = "stored" =>
         [ip |-> ip[r], name |-> found[r], at |-> now] \in told

\* An answer classifies the address's organisation and the name used.
AnswerOf ==
  \A r \in Requests : Answered(r) =>
    answer[r].of = ClassifyIp(org[ip[r]], answer[r].name)

\* maybe_rdns, ip_type and judge hand on what was looked up: with NameFresh, the
\* inductive form of it and of OrganisationDecides.
TypeInv == TypeOK /\ CacheTold /\ OnTheWay /\ AnswerOf

\* Runs of symbols in a text
Parts(text) == {SubSeq(text, i, j) : i \in 1..Len(text), j \in 1..Len(text)}

\* TypeSignals "exposes WHY": what is listed stands in the texts as whole words, and the
\* lists and the note determine the type: two answers with the same reasons agree.
SignalsExplain ==
  \A r \in Requests : Answered(r) =>
    LET k == answer[r].of.keywords
        aso == OrEmpty(org[ip[r]])
    IN  /\ k.hosting \cup k.vendor \cup k.business \subseteq Parts(aso)
        /\ k.mobile \cup k.residential \subseteq Parts(aso) \cup Parts(OrEmpty(answer[r].name))
        /\ \A q \in Requests :
             Answered(q) /\ answer[q].of.keywords = k /\ answer[q].of.note = answer[r].of.note
               => answer[q].of.type = answer[r].of.type
=============================================================================
