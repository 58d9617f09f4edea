------------------------------- MODULE Verdict -------------------------------
(***************************************************************************)
(* How a request's headers become the client address, the echoed view and  *)
(* the anonymity level (src/logic.rs, and self_ip, proxy_view and judge of *)
(* src/app.rs).  A request leaves the checked proxy with headers of the    *)
(* proxy's choice, passes the hops of the deployment, each of which adds   *)
(* to them, and reaches the judge, which has to tell the two apart.        *)
(*                                                                         *)
(* A header is a sequence of lines, a line a sequence of comma-separated   *)
(* tokens.  A token is an address in some spelling, or a word, or empty.   *)
(***************************************************************************)
EXTENDS Integers, Sequences, FiniteSets, SequencesExt

CONSTANTS
  Addrs,        \* addresses in canonical form
  NoAddr,       \* no address
  Direct,       \* the checker's own address
  Exits,        \* addresses requests come from: a proxy's exit, or Direct
  Deployments,  \* the supported deployments
  SentHeaders   \* header maps the checked proxy may send

XFF == "x-forwarded-for"
CF == "cf-connecting-ip"
InfraHeaders == {"x-forwarded-host"}
CfInfraHeaders == {CF}
Telltales == {"via", "x-real-ip"}
Names == {XFF, "user-agent"} \cup InfraHeaders \cup CfInfraHeaders \cup Telltales

\* plain: canonical; dressed: with port or brackets, or IPv4-mapped; quoted: inside
\* other text, so that it does not parse as an address.
Tokens ==
  [addr : Addrs, form : {"plain", "dressed", "quoted"}]
    \cup [addr : {NoAddr}, form : {"word", "empty"}]

Plain(a) == [addr |-> a, form |-> "plain"]
Word == [addr |-> NoAddr, form |-> "word"]

ASSUME AddressesAssumption == NoAddr \notin Addrs /\ Direct \in Addrs /\ Exits \subseteq Addrs

\* A hop appends its peer to X-Forwarded-For, removes the headers in `strips` and
\* writes those in `sets` itself; a CDN also writes CF-Connecting-IP.
HopTypes == [kind : {"cdn", "edge"}, addr : Addrs \ Exits, sets : SUBSET (Names \ {XFF, CF}),
             strips : SUBSET {CF}]

Sets(h) == h.sets \cup (IF h.kind = "cdn" THEN {CF} ELSE {})

\* What the README asks of a deployment: the trust flags say what is in front of
\* the judge, only the first hop can be a CDN, without one there is a single
\* edge, and EDGE_HEADERS lists what the hops write.
Supported(d) ==
  /\ d.hops \in Seq(HopTypes)
  /\ d.trust_proxy <=> d.hops # <<>>
  /\ d.trust_cf <=> (d.hops # <<>> /\ d.hops[1].kind = "cdn")
  /\ ~d.trust_cf => Len(d.hops) <= 1
  /\ \A i \in 1..Len(d.hops) : /\ i > 1 => d.hops[i].kind = "edge" /\ d.hops[i].strips = {}
                               /\ d.hops[i].sets \subseteq d.edge_headers \cup InfraHeaders
  /\ ~d.trust_proxy => d.edge_headers = {}
  /\ d.edge_headers \subseteq Names \ {XFF}

ASSUME DeploymentsAssumption == \A d \in Deployments : Supported(d)
ASSUME SentAssumption ==
  \A s \in SentHeaders : /\ DOMAIN s \subseteq Names
                         /\ \A n \in DOMAIN s : s[n] \in Seq(Seq(Tokens)) /\ s[n] # <<>>

VARIABLES
  deployment,
  exit,      \* address the request came from
  claim,     \* direct_ip as judge uses it; NoAddr: absent, garbage or with a line feed
  sent,      \* headers as the checked proxy sent them
  headers,   \* headers on their way
  socket,    \* address of the sender on the current connection
  at,        \* hops passed; -1 before the request was sent
  answer     \* ip, view and anonymity, once judged

vars == <<deployment, exit, claim, sent, headers, socket, at, answer>>

-----------------------------------------------------------------------------
\* Addresses in headers.

\* normalize_host, with clean_host
NormalizeHost(t) == IF t.form \in {"plain", "dressed"} THEN t.addr ELSE NoAddr

\* normalize_host applied to a whole header value
NormalizeValue(v) == IF Len(v) = 1 THEN NormalizeHost(v[1]) ELSE NoAddr

\* ip_in_text finds every spelling.
IpInText(v, ip) == \E i \in 1..Len(v) : v[i].addr = ip

\* The elements of a sequence that are in a set, in order.
Only(s, set) ==
  LET kept[n \in 0..Len(s)] ==
        IF n = 0 THEN <<>> ELSE IF s[n] \in set THEN Append(kept[n - 1], s[n]) ELSE kept[n - 1]
  IN  kept[Len(s)]

Entries == {t \in Tokens : t.form # "empty"}

SplitXff(v) == Only(v, Entries)

NormalizeChain(entries) == Only([i \in 1..Len(entries) |-> NormalizeHost(entries[i])], Addrs)

\* Slip: HeaderMap::get returns the first line only.
FirstLine(h, n) == IF n \in DOMAIN h THEN h[n][1] ELSE <<>>

JoinedHeader(h, n) == IF n \in DOMAIN h THEN FlattenSeq(h[n]) ELSE <<>>

HeadersLower(h) == [n \in DOMAIN h |-> JoinedHeader(h, n)]

-----------------------------------------------------------------------------
\* client_ip: CF-Connecting-IP, then the last X-Forwarded-For entry, then the socket.
ClientIp(cf, xff, sock, trust_proxy, trust_cf) ==
  LET chain == SplitXff(xff)
      last == IF chain = <<>> THEN NoAddr ELSE NormalizeHost(Last(chain))
  IN  IF trust_cf /\ NormalizeValue(cf) # NoAddr THEN NormalizeValue(cf)
      ELSE IF trust_proxy /\ last # NoAddr THEN last
      ELSE sock

SelfIp(d, h, sock) ==
  ClientIp(JoinedHeader(h, CF), JoinedHeader(h, XFF), sock, d.trust_proxy, d.trust_cf)

\* Slip: the first occurrence is taken for the CDN's.
FirstOccurrence(raw, client) == SelectInSeq(raw, LAMBDA t : NormalizeHost(t) = client)

\* The entry the CDN wrote: the last one with the client's address; 0 if none.
CdnEntry(raw, client) == SelectLastInSeq(raw, LAMBDA t : NormalizeHost(t) = client)

\* Entries of somebody else than the client
Others(client) == {t \in Tokens : NormalizeHost(t) # client}

\* pre_edge_xff: the entries added before our own hops.
PreEdgeXff(xff, client, trust_proxy, trust_cf, cf) ==
  LET raw == SplitXff(xff)
      pos == CdnEntry(raw, client)
      before == IF pos = 0 THEN raw ELSE SubSeq(raw, 1, pos - 1)
  IN  IF ~trust_proxy THEN raw
      ELSE IF trust_cf /\ NormalizeValue(cf) = client
           THEN Only(before, Others(client))
      ELSE IF raw # <<>> /\ NormalizeHost(Last(raw)) = client THEN Front(raw)
      ELSE raw

\* Slip: EDGE_HEADERS stay in the view.
KeepEdgeHeaders(d, names) == names

ViewNames(d, names) == names \ d.edge_headers

\* proxy_view: what is echoed and analysed.
ProxyView(d, h, me) ==
  LET all == HeadersLower(h)
      pre == PreEdgeXff(JoinedHeader(h, XFF), me, d.trust_proxy, d.trust_cf, JoinedHeader(h, CF))
      names == (ViewNames(d, DOMAIN all) \ {XFF}) \cup (IF pre = <<>> THEN {} ELSE {XFF})
  IN  IF ~d.trust_proxy THEN all
      ELSE [n \in names |-> IF n = XFF THEN pre ELSE all[n]]

IsInfra(n, trust_cf) == n \in InfraHeaders \/ (trust_cf /\ n \in CfInfraHeaders)

IsTelltale(n, trust_cf) == ~IsInfra(n, trust_cf) /\ n \in Telltales

AnonymityLevel(view, direct, trust_cf) ==
  LET raw_xff == IF XFF \in DOMAIN view THEN SplitXff(view[XFF]) ELSE <<>>
      chain == NormalizeChain(raw_xff)
      leaked == \/ \E i \in 1..Len(chain) : chain[i] = direct
                \/ \E n \in DOMAIN view \ {XFF} :
                     ~IsInfra(n, trust_cf) /\ IpInText(view[n], direct)
  IN  IF direct # NoAddr /\ leaked THEN "transparent"
      ELSE IF raw_xff # <<>> \/ \E n \in DOMAIN view : IsTelltale(n, trust_cf) THEN "anonymous"
      ELSE "elite"

-----------------------------------------------------------------------------
NoAnswer == [ip |-> NoAddr, view |-> <<>>, anonymity |-> "none"]

Init ==
  /\ deployment \in Deployments
  /\ exit \in Exits
  /\ claim \in {Direct, NoAddr}
  /\ sent = <<>> /\ headers = <<>>
  /\ socket = exit
  /\ at = -1
  /\ answer = NoAnswer

Send ==
  /\ at = -1
  /\ \E s \in SentHeaders : sent' = s /\ headers' = s
  /\ at' = 0
  /\ UNCHANGED <<deployment, exit, claim, socket, answer>>

\* The next hop adds its peer, on the line that is there or on one of its own.
Appended(h, peer) ==
  {Append(IF XFF \in DOMAIN h THEN h[XFF] ELSE <<>>, <<Plain(peer)>>),
   <<JoinedHeader(h, XFF) \o <<Plain(peer)>> >>}

Forward ==
  /\ at \in 0..(Len(deployment.hops) - 1)
  /\ LET hop == deployment.hops[at + 1]
         names == (DOMAIN headers \ hop.strips) \cup Sets(hop) \cup {XFF}
     IN  /\ \E xff \in Appended(headers, socket) :
              headers' = [n \in names |->
                IF n = XFF THEN xff
                ELSE IF n \in InfraHeaders /\ n \in Sets(hop) THEN << <<Word>> >>
                ELSE IF n \in Sets(hop) THEN << <<Plain(socket)>> >>
                ELSE headers[n]]
         /\ socket' = hop.addr
  /\ at' = at + 1
  /\ UNCHANGED <<deployment, exit, claim, sent, answer>>

\* The judge handler, up to the anonymity level.
Judge ==
  /\ at = Len(deployment.hops) /\ answer = NoAnswer
  /\ LET me == SelfIp(deployment, headers, socket)
         view == ProxyView(deployment, headers, me)
     IN  answer' = [ip |-> me, view |-> view,
                    anonymity |-> AnonymityLevel(view, claim, deployment.trust_cf)]
  /\ UNCHANGED <<deployment, exit, claim, sent, headers, socket, at>>

Next == Send \/ Forward \/ Judge

Spec == Init /\ [][Next]_vars

-----------------------------------------------------------------------------
Judged == answer.anonymity # "none"

\* The address that is echoed, located and rate limited is the one the request came
\* from, in every supported deployment, whatever X-Forwarded-For and CF-Connecting-IP
\* the checked proxy sends.
ExitResolved == Judged => answer.ip = exit

\* Headers a hop takes away or writes over: the judge never sees the proxy's.
Overwritten ==
  UNION {Sets(deployment.hops[i]) \cup deployment.hops[i].strips : i \in 1..Len(deployment.hops)}

\* What the proxy itself put into X-Forwarded-For; behind a CDN without copies of its
\* own exit address.
SentXff ==
  LET own == SplitXff(JoinedHeader(sent, XFF))
  IN  IF deployment.trust_cf THEN Only(own, Others(exit)) ELSE own

\* The other headers of the proxy that the judge gets to see.
SentNames == DOMAIN sent \ ({XFF} \cup Overwritten \cup deployment.edge_headers)

Leaks ==
  \/ \E i \in 1..Len(SentXff) : NormalizeHost(SentXff[i]) = Direct
  \/ \E n \in SentNames \ InfraHeaders : IpInText(JoinedHeader(sent, n), Direct)

Reveals == SentXff # <<>> \/ SentNames \cap Telltales # {}

\* The verdict is the one that the proxy's own headers deserve: no leak is hidden by
\* what the hops add or by a copy of the exit address in front of it, and nothing a
\* hop adds is held against the proxy.
VerdictCorrect ==
  Judged => answer.anonymity = IF claim = Direct /\ Leaks THEN "transparent"
                               ELSE IF Reveals THEN "anonymous" ELSE "elite"

\* /headers and /judge show every entry and header the judge got from the proxy, the
\* entries in order, and of the hops nothing but the headers that are neutral in the
\* verdict.  Not shown: headers a hop writes over or takes away, those of
\* EDGE_HEADERS, and behind a CDN the proxy's entries with its own exit address,
\* which pre_edge_xff drops (RevealedIsNotElite is about these): there the echo is
\* not, as the README says, what the proxy sent.
OnlySentEchoed ==
  Judged =>
    /\ SentXff = (IF XFF \in DOMAIN answer.view THEN SplitXff(answer.view[XFF]) ELSE <<>>)
    /\ \A n \in SentNames : n \in DOMAIN answer.view /\ answer.view[n] = JoinedHeader(sent, n)
    /\ \A n \in DOMAIN answer.view \ {XFF} :
         n \in SentNames \/ IsInfra(n, deployment.trust_cf)

\* README: "anonymous": "the proxy reveals itself: `X-Forwarded-For` entries
\* (even `unknown`)", so a proxy that sends some is never "elite".
RevealedIsNotElite ==
  Judged /\ SplitXff(JoinedHeader(sent, XFF)) # <<>> => answer.anonymity # "elite"
=============================================================================
