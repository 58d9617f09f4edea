-------------------------------- MODULE Config --------------------------------
(***************************************************************************)
(* src/config.rs: Config::from_lookup as a function of the environment.    *)
(* Settings are classes of texts: a flag is "off" (also unset or blank),   *)
(* "on" or "typo"; EDGE_HEADERS is the list of its names; a number is -1   *)
(* where the text is none of the type's range.  env.notunicode names the   *)
(* variables whose value is not Unicode.  PORT and GEO_DIR are handed on   *)
(* and left out, save that they must be Unicode.                           *)
(***************************************************************************)
EXTENDS Integers, Sequences

VarNames ==
  {"TRUST_PROXY", "TRUST_CF", "EDGE_HEADERS", "PORT", "BIND_ADDR", "GEO_DIR",
   "RDNS_TIMEOUT", "RATE_LIMIT_PER_MINUTE", "METRICS_TOKEN", "SIGNING_KEY"}

FlagTexts == {"off", "on", "typo"}
EdgeXff == "x-forwarded-for"

\* In milliseconds: the default of RDNS_TIMEOUT, and the longest.
DefaultRdns == 1500
MaxRdns == 60000
DefaultRate == 6000

\* parse_flag
FlagError(raw) == raw = "typo"
ParseFlag(raw) == raw = "on"

\* parse_edge_headers: blank names are skipped, repeated ones kept once.
EdgeError(names) == \E i \in 1..Len(names) : names[i] \in {EdgeXff, "bad name"}
ParseEdgeHeaders(names) == {names[i] : i \in 1..Len(names)} \ {""}

\* Slip: the text is not clamped.
NoClamp(n) == IF n < 0 THEN DefaultRdns ELSE n

\* parse_rdns_timeout
ParseRdns(n) == IF n < 0 THEN DefaultRdns ELSE IF n > MaxRdns THEN MaxRdns ELSE n

TrustProxy(env) == ParseFlag(env.TRUST_PROXY)

\* Slip: Cloudflare's headers are trusted on their own.
CfAlone(env) == ParseFlag(env.TRUST_CF)

TrustCf(env) == TrustProxy(env) /\ ParseFlag(env.TRUST_CF)

\* TRUST_CF is read only if TRUST_PROXY is on.
VarsRead(env) == IF TrustProxy(env) THEN VarNames ELSE VarNames \ {"TRUST_CF"}

\* from_lookup returns an error: parse_var, parse_flag, parse_edge_headers, parse_bind
\* or parse_signer did.
Rejected(env) ==
  \/ env.notunicode \cap VarsRead(env) # {}
  \/ FlagError(env.TRUST_PROXY)
  \/ "TRUST_CF" \in VarsRead(env) /\ FlagError(env.TRUST_CF)
  \/ EdgeError(env.EDGE_HEADERS)
  \/ env.BIND_ADDR = "typo"
  \/ env.SIGNING_KEY = "typo"

\* from_lookup, where it returns a configuration
FromLookup(env) ==
  [trust_proxy |-> TrustProxy(env),
   trust_cf |-> TrustCf(env),
   edge_headers |-> IF TrustProxy(env) THEN ParseEdgeHeaders(env.EDGE_HEADERS) ELSE {},
   rdns_timeout |-> ParseRdns(env.RDNS_TIMEOUT),
   rate_per_minute |-> IF env.RATE_LIMIT_PER_MINUTE < 0 THEN DefaultRate
                       ELSE env.RATE_LIMIT_PER_MINUTE,
   metrics_open |-> env.METRICS_TOKEN = "blank" \/ "METRICS_TOKEN" \in env.notunicode,
   ephemeral_key |-> env.SIGNING_KEY = "blank"]
=============================================================================
