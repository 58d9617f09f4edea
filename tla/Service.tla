-------------------------------- MODULE Service --------------------------------
(***************************************************************************)
(* The life of a container: the entrypoint fetches databases if there are  *)
(* none, the service reads its configuration and opens what it finds, and  *)
(* serves; cron may run either download script beside all that, and        *)
(* container or script may be killed between any two steps.  Composes      *)
(* Config (src/config.rs), Geo (src/geo.rs), main of src/main.rs and       *)
(* docker-entrypoint.sh, download-dbip.sh and download-geolite2.sh of      *)
(* scripts/.                                                               *)
(***************************************************************************)
EXTENDS Config, Geo

CONSTANTS
  Envs,          \* environments a container may be started with
  Dirs,          \* what GEO_DIR may hold before the first start
  ReaderResults, \* results a database may return for an address
  MaxRuns,       \* bound: runs of a script by cron
  MaxKills       \* bound: kills of the container, and times it cannot bind

ASSUME EnvsAssumption ==
  \A e \in Envs : e.RDNS_TIMEOUT \in Int /\ e.cron \in {"none", "validates", "blind"}
ASSUME DirsAssumption == Dirs \subseteq [FileNames -> Contents]
ASSUME ResultsAssumption ==
  \A x \in ReaderResults : x.error \in BOOLEAN /\ x.fields \subseteq Fields
ASSUME BoundsAssumption == MaxRuns \in Nat /\ MaxKills \in Nat

VARIABLES
  env,    \* the container's environment; env.writable: it may write GEO_DIR;
          \* env.cron: "none", or the script it runs "validates" or, on a host
          \* without the program, is "blind"
  files,  \* GEO_DIR
  svc,    \* "entry", "start", "serving", "exited" or "killed"
  cfg,    \* the serving program's configuration
  pool,   \* and its databases
  script, \* per runner the next step of its script
  todo,   \* the edition cron's download-geolite2.sh is at; 0: it does not run
  tmp,    \* per runner its temporary directory
  runs, kills

serviceVars == <<svc, cfg, pool>>
scriptVars == <<script, todo, tmp>>
vars == <<env, files, serviceVars, scriptVars, runs, kills>>

\* Who runs a script: the entrypoint, or cron.
Runners == {"entry", "cron"}

NoPool == [k \in Kinds |-> Absent]

Init ==
  /\ env \in Envs /\ files \in Dirs
  /\ svc = "entry" /\ cfg = FromLookup(env) /\ pool = NoPool
  /\ script = [r \in Runners |-> "idle"] /\ todo = 0
  /\ tmp = [r \in Runners |-> EmptyDir]
  /\ runs = 0 /\ kills = 0

-----------------------------------------------------------------------------
\* docker-entrypoint.sh

HasMmdb == \E n \in FileNames : files[n].state \notin {"absent", "stub"}

\* There is something, or nothing can be written: start at once.
SkipDownload ==
  /\ svc = "entry" /\ script["entry"] = "idle"
  /\ HasMmdb \/ ~env.writable
  /\ svc' = "start"
  /\ UNCHANGED <<env, files, cfg, pool, scriptVars, runs, kills>>

EntryDownload ==
  /\ svc = "entry" /\ script["entry"] = "idle"
  /\ ~HasMmdb /\ env.writable
  /\ script' = [script EXCEPT !["entry"] = "fetch"]
  /\ UNCHANGED <<env, files, serviceVars, todo, tmp, runs, kills>>

\* Slip: a failed download fails the entrypoint.
AbortOnFailure(ok) == IF ok THEN "start" ELSE "exited"

\* The program starts whatever became of the download.
AfterDownload(ok) == "start"

\* Runner r's script ends: the EXIT trap removes its directory.
ScriptEnds(r, ok) ==
  /\ script' = [script EXCEPT ![r] = "idle"]
  /\ tmp' = [tmp EXCEPT ![r] = EmptyDir]
  /\ todo' = IF r = "cron" THEN 0 ELSE todo
  /\ svc' = IF r = "entry" THEN AfterDownload(ok) ELSE svc
  /\ UNCHANGED <<env, cfg, pool, runs, kills>>

-----------------------------------------------------------------------------
\* download-dbip.sh

CronDownload ==
  /\ env.cron # "none" /\ runs < MaxRuns /\ script["cron"] = "idle"
  /\ runs' = runs + 1
  /\ script' = [script EXCEPT !["cron"] = "fetch"]
  /\ UNCHANGED <<env, files, serviceVars, todo, tmp, kills>>

Delivered(kind) == {Content("good", {kind}), Content("damaged", {kind}), Content("corrupt", {})}

\* `[ -x "$BIN" ]`: in the container always, on the host if JUDGE_BIN says so.
HasBin(r) == r = "entry" \/ env.cron = "validates"

\* --check-geo on the temporary directory; skipped without the program.
Validated(r) == HasBin(r) => Verify(Open(tmp[r]))

\* Both archives of a month arrive and unpack, into whatever was published.
Fetch(r) ==
  /\ script[r] = "fetch"
  /\ \E c \in Delivered("city"), a \in Delivered("asn") :
       tmp' = [tmp EXCEPT ![r]["dbip-city-lite"] = c, ![r]["dbip-asn-lite"] = a]
  /\ script' = [script EXCEPT ![r] = "check"]
  /\ UNCHANGED <<env, files, serviceVars, todo, runs, kills>>

CheckGeo(r) ==
  /\ script[r] = "check"
  /\ IF Validated(r)
     THEN /\ script' = [script EXCEPT ![r] = "city"]
          /\ UNCHANGED <<env, todo, tmp, serviceVars, runs, kills>>
     ELSE ScriptEnds(r, FALSE)
  /\ UNCHANGED files

MoveCity(r) ==
  /\ script[r] = "city"
  /\ files' = [files EXCEPT !["dbip-city-lite"] = tmp[r]["dbip-city-lite"]]
  /\ script' = [script EXCEPT ![r] = "asn"]
  /\ UNCHANGED <<env, todo, tmp, serviceVars, runs, kills>>

MoveAsn(r) ==
  /\ script[r] = "asn"
  /\ files' = [files EXCEPT !["dbip-asn-lite"] = tmp[r]["dbip-asn-lite"]]
  /\ ScriptEnds(r, TRUE)

\* No month could be downloaded, an archive is broken, `timeout 600` or somebody
\* kills the script.
ScriptFails(r) ==
  /\ script[r] # "idle"
  /\ ScriptEnds(r, FALSE)
  /\ UNCHANGED files

ScriptStep(r) == Fetch(r) \/ CheckGeo(r) \/ MoveCity(r) \/ MoveAsn(r) \/ ScriptFails(r)

-----------------------------------------------------------------------------
\* download-geolite2.sh, run by cron: each edition is fetched, validated and moved
\* before the next; the script stops at the first that fails (ScriptFails).

Editions ==
  <<[name |-> "GeoLite2-City", kind |-> "city"], [name |-> "GeoLite2-ASN", kind |-> "asn"],
    [name |-> "GeoLite2-Country", kind |-> "country"]>>

CronGeolite ==
  /\ env.cron # "none" /\ runs < MaxRuns /\ script["cron"] = "idle"
  /\ runs' = runs + 1
  /\ script' = [script EXCEPT !["cron"] = "edition"]
  /\ todo' = 1
  /\ UNCHANGED <<env, files, serviceVars, tmp, kills>>

FetchEdition ==
  /\ script["cron"] = "edition"
  /\ \E c \in Delivered(Editions[todo].kind) :
       tmp' = [tmp EXCEPT !["cron"][Editions[todo].name] = c]
  /\ script' = [script EXCEPT !["cron"] = "validate"]
  /\ UNCHANGED <<env, files, serviceVars, todo, runs, kills>>

CheckEdition ==
  /\ script["cron"] = "validate"
  /\ IF Validated("cron")
     THEN /\ script' = [script EXCEPT !["cron"] = "replace"]
          /\ UNCHANGED <<env, todo, tmp, serviceVars, runs, kills>>
     ELSE ScriptEnds("cron", FALSE)
  /\ UNCHANGED files

MoveEdition ==
  LET name == Editions[todo].name
  IN  /\ script["cron"] = "replace"
      /\ files' = [files EXCEPT ![name] = tmp["cron"][name]]
      /\ IF todo < Len(Editions)
         THEN /\ todo' = todo + 1
              /\ script' = [script EXCEPT !["cron"] = "edition"]
              /\ tmp' = [tmp EXCEPT !["cron"][name] = Absent]
              /\ UNCHANGED <<env, serviceVars, runs, kills>>
         ELSE ScriptEnds("cron", TRUE)

EditionStep == FetchEdition \/ CheckEdition \/ MoveEdition

-----------------------------------------------------------------------------
\* main reads the configuration, then the databases into memory.
Start ==
  /\ svc = "start"
  /\ IF Rejected(env)
     THEN svc' = "exited" /\ UNCHANGED <<cfg, pool>>
     ELSE svc' = "serving" /\ cfg' = FromLookup(env) /\ pool' = Open(files)
  /\ UNCHANGED <<env, files, scriptVars, runs, kills>>

\* The address is in use: main exits.
BindFails ==
  /\ svc = "start" /\ ~Rejected(env)
  /\ kills < MaxKills /\ kills' = kills + 1
  /\ svc' = "exited"
  /\ UNCHANGED <<env, files, cfg, pool, scriptVars, runs>>

\* The container is stopped, with the script its entrypoint may be running.
Kill ==
  /\ kills < MaxKills /\ svc \in {"entry", "start", "serving"}
  /\ kills' = kills + 1
  /\ svc' = "killed" /\ pool' = NoPool
  /\ script' = [script EXCEPT !["entry"] = "idle"]
  /\ tmp' = [tmp EXCEPT !["entry"] = EmptyDir]
  /\ UNCHANGED <<env, files, cfg, todo, runs>>

\* restart: unless-stopped
Restart ==
  /\ svc \in {"killed", "exited"}
  /\ svc' = "entry"
  /\ UNCHANGED <<env, files, cfg, pool, scriptVars, runs, kills>>

Next ==
  \/ SkipDownload \/ EntryDownload \/ CronDownload \/ CronGeolite
  \/ \E r \in Runners : ScriptStep(r)
  \/ EditionStep
  \/ Start \/ BindFails \/ Kill \/ Restart

Spec == Init /\ [][Next]_vars

\* Started programs run on: curl and the entrypoint's `timeout` bound the script.
Fairness ==
  WF_vars(SkipDownload \/ EntryDownload \/ ScriptStep("entry") \/ Start \/ Restart)
LiveSpec == Spec /\ Fairness

-----------------------------------------------------------------------------
TypeOK ==
  /\ env \in Envs
  /\ files \in [FileNames -> Contents]
  /\ svc \in {"entry", "start", "serving", "exited", "killed"}
  /\ cfg.rdns_timeout \in 0..MaxRdns
  /\ pool \in [Kinds -> Contents]
  /\ script \in [Runners -> {"idle", "fetch", "check", "city", "asn",
                           "edition", "validate", "replace"}]
  /\ todo \in 0..Len(Editions)
  /\ tmp \in [Runners -> [FileNames -> Contents]]
  /\ runs \in 0..MaxRuns /\ kills \in 0..MaxKills

\* What README and CHANGELOG call invalid, whatever the other settings: a flag that is
\* neither on nor off, "an invalid `BIND_ADDR`, or a malformed `EDGE_HEADERS`", "a
\* malformed key", "a setting that is not valid Unicode".
DocumentedInvalid(e) ==
  \/ "typo" \in {e.TRUST_PROXY, e.TRUST_CF, e.BIND_ADDR, e.SIGNING_KEY}
  \/ EdgeError(e.EDGE_HEADERS)
  \/ e.notunicode \cap VarNames # {}

\* What client_ip and the verdict rely on (from_lookup): a serving program trusts
\* Cloudflare's headers only together with the proxy's, ignores EDGE_HEADERS without
\* a proxy, and never X-Forwarded-For; /metrics is open only if nobody set a token; and
\* if a setting is invalid that the README says stops startup (TRUST_CF may be, which is
\* not read without TRUST_PROXY), at least no header is trusted.
ConfigSound ==
  svc = "serving" =>
    /\ cfg.trust_cf => cfg.trust_proxy
    /\ cfg.edge_headers # {} => cfg.trust_proxy
    /\ EdgeXff \notin cfg.edge_headers
    /\ cfg.metrics_open => env.METRICS_TOKEN = "blank" /\ "METRICS_TOKEN" \notin env.notunicode
    /\ DocumentedInvalid(env) => ~cfg.trust_proxy /\ ~cfg.trust_cf

\* What is in GEO_DIR before the first start.
FoundBefore == {d[n] : d \in Dirs, n \in FileNames}

\* --check-geo before the renames: whatever is downloaded, by two scripts at once,
\* and whenever one of them or the container is killed, the program never loads a
\* damaged database (unless cron had no program to check with, or it was there before
\* the first start), nor one of another kind.
PoolSound ==
  \A k \in Sources(pool) :
    /\ k \in pool[k].kinds
    /\ env.cron # "blind" => pool[k].state = "good" \/ pool[k] \in FoundBefore

\* GeoPool::lookup, whatever the loaded databases return: an answer has an error
\* exactly if it has nothing else; what the ASN database knows is never lost to an
\* error of the others; country name and code come from one database; and the country
\* database stands in when the city database has neither.
LookupSound ==
  svc = "serving" =>
    LET loaded == Sources(pool) IN
    \A r \in [loaded -> ReaderResults] :
      LET a == Lookup(loaded, r)
          gives(k, f) == k \in loaded /\ ~r[k].error /\ f \in r[k].fields
      IN  /\ (a.error = "none") <=> \E f \in Fields : a.out[f] # "none"
          /\ \A f \in AsnFields : gives("asn", f) => a.out[f] # "none"
          /\ {a.out["country"], a.out["country_code"]} # {"city", "country"}
          /\ \A f \in {"country", "country_code"} :
               gives("country", f) /\ (\A g \in Fields : ~gives("city", g)) => a.out[f] = "country"

\* docker-entrypoint.sh: "a failed download does not kill the container".  With a
\* configuration that is not documented as invalid the program comes to serve and
\* stays, however the downloads end and whatever (finitely many) kills interrupt.
ValidConfigServes == ~DocumentedInvalid(env) => <>[](svc = "serving")

\* download-geolite2.sh validates an edition alone before it replaces the file: no
\* kind of database that could be loaded is lost to a download, whatever another
\* script or a kill does in between.
EditionsSurvive ==
  [][MoveEdition /\ HasBin("cron") =>
       \A k \in Kinds : k \in Sources(Open(files)) => k \in Sources(Open(files'))]_vars

\* download-dbip.sh: "Full structural validation before replacing the files used by
\* the service" (where the program is there to validate with): a kind of database
\* that can be loaded can be loaded ever after.
DatabasesSurvive ==
  [][env.cron # "blind" =>
       \A k \in Kinds : k \in Sources(Open(files)) => k \in Sources(Open(files'))]_vars
=============================================================================
