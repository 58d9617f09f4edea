------------------------------ MODULE MCVerdict ------------------------------
(* Instances of the verdict for TLC: the deployments of the README and a      *)
(* proxy that sends what it likes from a small set of values.                 *)
EXTENDS Verdict

CONSTANTS direct, exitAddr, other, cdnAddr, edgeAddr

MCAddrs == {direct, exitAddr, other, cdnAddr, edgeAddr}
MCExits == {direct, exitAddr}

Cdn == [kind |-> "cdn", addr |-> cdnAddr, sets |-> {}, strips |-> {}]
Inner == [kind |-> "edge", addr |-> edgeAddr, sets |-> {}, strips |-> {}]
Caddy == [kind |-> "edge", addr |-> edgeAddr, sets |-> {"x-forwarded-host"}, strips |-> {CF}]
Nginx == [kind |-> "edge", addr |-> edgeAddr, sets |-> {"x-real-ip"}, strips |-> {CF}]

Deployed(tp, tcf, eh, hops) ==
  [trust_proxy |-> tp, trust_cf |-> tcf, edge_headers |-> eh, hops |-> hops]

\* Exposed directly; behind Caddy; behind an nginx that sets X-Real-IP; Cloudflare
\* Tunnel; Cloudflare in front of Render's two balancers.
MCDeployments ==
  {Deployed(FALSE, FALSE, {}, <<>>),
   Deployed(TRUE, FALSE, {}, <<Caddy>>),
   Deployed(TRUE, FALSE, {"x-real-ip"}, <<Nginx>>),
   Deployed(TRUE, TRUE, {}, <<Cdn>>),
   Deployed(TRUE, TRUE, {}, <<Cdn, Inner, Inner>>)}

T(a, f) == [addr |-> a, form |-> f]
XffTokens == {T(direct, "plain"), T(direct, "quoted"), T(exitAddr, "plain"), T(exitAddr, "dressed"),
              T(other, "plain"), T(NoAddr, "word"), T(NoAddr, "empty")}
Lines(n) == UNION {[1..k -> XffTokens] : k \in 1..n}

\* One line of up to two tokens, two lines, or a chain with the leak in the middle.
XffValues ==
  {<<l>> : l \in Lines(2)} \cup {<<k, l>> : k, l \in Lines(1)} \cup
  {<< <<T(exitAddr, "plain"), T(direct, f), T(x, "plain")>> >> : f \in {"plain", "dressed"}, x \in {exitAddr, other}}

\* A header that is absent, or has one of the values.
Optional(name, values) == {<<>>} \cup {[n \in {name} |-> v] : v \in values}
Merge(f, g) == [n \in DOMAIN f \cup DOMAIN g |-> IF n \in DOMAIN f THEN f[n] ELSE g[n]]
Together(F, G) == {Merge(f, g) : f \in F, g \in G}

MCSentHeaders ==
  Together(Optional(XFF, XffValues),
  Together(Optional("via", {<< <<T(direct, "quoted")>> >>}),
  Together(Optional("x-real-ip", {<< <<T(direct, "plain")>> >>}),
  Together(Optional("x-forwarded-host", {<< <<T(direct, "plain")>> >>}),
           Optional(CF, {<< <<T(other, "plain")>> >>, << <<T(direct, "plain")>>, <<T(other, "plain")>> >>})))))
=============================================================================
