------------------------------- MODULE MCService -------------------------------
(* Instance of the container's life for TLC. *)
EXTENDS Service

Base ==
  [TRUST_PROXY |-> "on", TRUST_CF |-> "on", EDGE_HEADERS |-> <<"via", "", "via">>,
   BIND_ADDR |-> "default", METRICS_TOKEN |-> "token", SIGNING_KEY |-> "seed",
   RDNS_TIMEOUT |-> 70000, RATE_LIMIT_PER_MINUTE |-> -1,
   notunicode |-> {}, writable |-> TRUE, cron |-> "none"]

\* The two flags in all combinations; each other setting with its other values.
MCEnvs ==
  {[Base EXCEPT !.TRUST_PROXY = p, !.TRUST_CF = c] : p, c \in FlagTexts}
    \cup {[Base EXCEPT !.EDGE_HEADERS = e] : e \in {<<"via", EdgeXff>>, <<"bad name">>}}
    \cup {[Base EXCEPT !.notunicode = {n}] : n \in {"METRICS_TOKEN", "PORT"}}
    \cup {[Base EXCEPT !.TRUST_PROXY = "off", !.notunicode = {"TRUST_CF"}],
          [Base EXCEPT !.METRICS_TOKEN = "blank", !.SIGNING_KEY = "blank",
                       !.RDNS_TIMEOUT = -1, !.writable = FALSE],
          [Base EXCEPT !.cron = "validates"], [Base EXCEPT !.cron = "blind"],
          [Base EXCEPT !.BIND_ADDR = "typo"], [Base EXCEPT !.SIGNING_KEY = "typo"]}

One(name, content) == [EmptyDir EXCEPT ![name] = content]

\* An empty volume; left-overs; a misnamed database before one that somebody put there
\* damaged; a city database with a country database beside it.
MCDirs ==
  {EmptyDir,
   One("dbip-city-lite", Content("stub", {})),
   [One("GeoLite2-City", Content("good", {"asn"})) EXCEPT
      !["my-city"] = Content("damaged", {"city", "country"})],
   [One("dbip-city-lite", Content("good", {"city"})) EXCEPT
      !["GeoLite2-Country"] = Content("good", {"country"})]}

Found(fields) == [error |-> FALSE, fields |-> fields]
MCReaderResults ==
  {[error |-> TRUE, fields |-> {}], Found({}), Found({"country_code", "asn"}),
   Found({"country", "latitude", "aso"}), Found({"country", "country_code", "city"})}
=============================================================================
