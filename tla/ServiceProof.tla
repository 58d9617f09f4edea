----------------------------- MODULE ServiceProof -----------------------------
(***************************************************************************)
(* Proofs about a container's life: whatever environment it is started     *)
(* with and however many scripts and kills there are, the configuration,   *)
(* the loaded databases and the lookups are what they should be.           *)
(***************************************************************************)
EXTENDS Service, TLAPS

-----------------------------------------------------------------------------
\* Which files open_first reads.

NamesOf(k) == {Candidates[k][i] : i \in 1..Len(Candidates[k])}

LEMMA CandidateNames ==
  /\ NamesOf("city") = {"GeoLite2-City", "dbip-city-lite", "my-city"}
  /\ NamesOf("country") = {"GeoLite2-Country", "dbip-country-lite"}
  /\ NamesOf("asn") = {"GeoLite2-ASN", "dbip-asn-lite"}
  /\ FileNames = NamesOf("city") \cup NamesOf("country") \cup NamesOf("asn")
  /\ \A k \in Kinds : Len(Candidates[k]) \in {2, 3} /\ NamesOf(k) \subseteq FileNames
<1>1. /\ NamesOf("city") = {"GeoLite2-City", "dbip-city-lite", "my-city"}
      /\ NamesOf("country") = {"GeoLite2-Country", "dbip-country-lite"}
      /\ NamesOf("asn") = {"GeoLite2-ASN", "dbip-asn-lite"}
  BY DEF NamesOf, Candidates
<1>2. FileNames = UNION {NamesOf(k) : k \in Kinds}
  BY DEF FileNames, NamesOf
<1>3. \A k \in Kinds : Len(Candidates[k]) \in {2, 3}
  BY DEF Kinds, Candidates
<1> QED BY <1>1, <1>2, <1>3 DEF Kinds

LEMMA MinOfSmall ==
  ASSUME NEW n \in {2, 3}, NEW I \in SUBSET (1..n), I # {}
  PROVE  Min(I) \in I
<1>1. \E x \in I : \A y \in I : x <= y
  <2>1. CASE 1 \in I
    BY <2>1
  <2>2. CASE 1 \notin I /\ 2 \in I
    BY <2>2
  <2>3. CASE 1 \notin I /\ 2 \notin I
    <3>1. \A y \in I : y = 3
      BY <2>3
    <3>2. PICK z \in I : z = 3
      BY <3>1
    <3> QED BY <3>1, <3>2
  <2> QED BY <2>1, <2>2, <2>3
<1> QED BY <1>1 DEF Min

\* open_first reads a usable candidate if there is one, and nothing otherwise.
LEMMA OpensUsable ==
  ASSUME NEW dir, NEW k \in Kinds
  PROVE  \/ /\ OpenFirst(dir, k) = Absent
            /\ \A n \in NamesOf(k) : ~Usable(dir[n], k)
         \/ \E n \in NamesOf(k) : OpenFirst(dir, k) = dir[n] /\ Usable(dir[n], k)
<1> DEFINE I == {i \in 1..Len(Candidates[k]) : Usable(dir[Candidates[k][i]], k)}
<1>1. SelectInSeq(Candidates[k], LAMBDA n : Usable(dir[n], k)) = IF I # {} THEN Min(I) ELSE 0
  BY DEF SelectInSeq
<1>2. CASE I = {}
  <2>1. OpenFirst(dir, k) = Absent
    BY <1>1, <1>2 DEF OpenFirst
  <2> QED BY <1>2, <2>1 DEF NamesOf
<1>3. CASE I # {}
  <2>1. Min(I) \in I
    BY <1>3, MinOfSmall, CandidateNames
  <2>2. Min(I) # 0 /\ Min(I) \in 1..Len(Candidates[k])
    BY <2>1, CandidateNames
  <2>3. OpenFirst(dir, k) = dir[Candidates[k][Min(I)]]
    BY <1>1, <1>3, <2>2, Zenon DEF OpenFirst
  <2> QED BY <2>1, <2>2, <2>3 DEF NamesOf
<1> QED BY <1>2, <1>3

LEMMA UsableIsThere == ASSUME NEW c, NEW k, Usable(c, k) PROVE c # Absent
BY DEF Usable, Absent, Content

\* GeoPool::open has a database of a kind exactly if some candidate is usable.
LEMMA OpenedKinds ==
  ASSUME NEW dir, NEW k \in Kinds
  PROVE  /\ k \in Sources(Open(dir)) <=> \E n \in NamesOf(k) : Usable(dir[n], k)
         /\ k \in Sources(Open(dir)) =>
              \E n \in NamesOf(k) : Open(dir)[k] = dir[n] /\ Usable(dir[n], k)
         /\ k \notin Sources(Open(dir)) => Open(dir)[k] = Absent
<1>1. Open(dir)[k] = OpenFirst(dir, k)
  BY DEF Open
<1>2. k \in Sources(Open(dir)) <=> OpenFirst(dir, k) # Absent
  BY <1>1 DEF Sources
<1> QED BY <1>1, <1>2, OpensUsable, UsableIsThere, Zenon

-----------------------------------------------------------------------------
\* GeoPool::lookup

Marks == {"none", "city", "country", "asn"}

LEMMA ApplyFacts ==
  ASSUME NEW out \in [Fields -> Marks], NEW kind \in Kinds, NEW fields
  PROVE  /\ Apply(out, kind, fields) \in [Fields -> Marks]
         /\ \A f \in Fields :
              /\ out[f] # "none" => Apply(out, kind, fields)[f] = out[f]
              /\ out[f] = "none" /\ f \in fields => Apply(out, kind, fields)[f] = kind
              /\ f \notin fields => Apply(out, kind, fields)[f] = out[f]
BY DEF Apply, Marks, Kinds

\* What a database adds to the answer.
LEMMA ConsultError ==
  ASSUME NEW acc, NEW kind, NEW result, result.error = TRUE
  PROVE  Consult(acc, kind, result) = [out |-> acc.out, error |-> kind]
BY DEF Consult

LEMMA ConsultRecord ==
  ASSUME NEW acc, NEW kind, kind # "asn", NEW result, result.error = FALSE
  PROVE  Consult(acc, kind, result) = [out |-> Apply(acc.out, kind, result.fields), error |-> acc.error]
BY DEF Consult

LEMMA ConsultAsn ==
  ASSUME NEW acc, NEW result, result.error = FALSE
  PROVE  Consult(acc, "asn", result)
           = [out |-> Apply(acc.out, "asn", result.fields \cap AsnFields), error |-> acc.error]
BY DEF Consult

\* lookup of GeoPool, whatever its databases return.
LEMMA LookupIsSound ==
  ASSUME NEW loaded \in SUBSET Kinds, NEW r \in [loaded -> ReaderResults]
  PROVE  LET a == Lookup(loaded, r)
             gives(k, f) == k \in loaded /\ ~r[k].error /\ f \in r[k].fields
         IN  /\ (a.error = "none") <=> \E f \in Fields : a.out[f] # "none"
             /\ \A f \in AsnFields : gives("asn", f) => a.out[f] # "none"
             /\ {a.out["country"], a.out["country_code"]} # {"city", "country"}
             /\ \A f \in {"country", "country_code"} :
                  gives("country", f) /\ (\A g \in Fields : ~gives("city", g))
                    => a.out[f] = "country"
<1> DEFINE gives(k, f) == k \in loaded /\ ~r[k].error /\ f \in r[k].fields
           start == [out |-> NoField, error |-> "none"]
           city == IF "city" \in loaded THEN Consult(start, "city", r["city"]) ELSE start
           country == IF "country" \in loaded /\ AskCountry(city.out)
                      THEN Consult(city, "country", r["country"]) ELSE city
           asn == IF "asn" \in loaded THEN Consult(country, "asn", r["asn"]) ELSE country
           a == Lookup(loaded, r)
<1>0. /\ "city" \in Kinds /\ "country" \in Kinds /\ "asn" \in Kinds
      /\ "country" \in Fields /\ "country_code" \in Fields /\ AsnFields \subseteq Fields
      /\ "country" \notin AsnFields /\ "country_code" \notin AsnFields
      /\ \A k \in loaded : r[k].error \in BOOLEAN
  BY ResultsAssumption DEF Kinds, Fields, AsnFields
<1>1. NoField \in [Fields -> Marks] /\ \A f \in Fields : NoField[f] = "none"
  BY DEF NoField, Marks
<1>a. start.out = NoField /\ start.error = "none" /\ "city" # "asn"
  OBVIOUS
<1> HIDE DEF start
<1>2. /\ city.out \in [Fields -> Marks]
      /\ \A f \in Fields : city.out[f] = IF gives("city", f) THEN "city" ELSE "none"
  <2>1. CASE "city" \in loaded /\ r["city"].error = FALSE
    <3>1. city = [out |-> Apply(NoField, "city", r["city"].fields), error |-> "none"]
      <4>1. city = Consult(start, "city", r["city"])
        BY <2>1
      <4>2. Consult(start, "city", r["city"])
              = [out |-> Apply(start.out, "city", r["city"].fields), error |-> start.error]
        BY <1>a, <2>1, ConsultRecord, Zenon
      <4> HIDE DEF city
      <4> QED BY <1>a, <4>1, <4>2, Zenon
    <3> QED BY <1>0, <1>1, <2>1, <3>1, ApplyFacts
  <2>2. CASE "city" \in loaded /\ r["city"].error = TRUE
    <3>1. city = [out |-> NoField, error |-> "city"]
      <4>1. city = Consult(start, "city", r["city"])
        BY <2>2
      <4> QED BY <1>a, <2>2, <4>1, ConsultError, Zenon
    <3> QED BY <1>0, <1>1, <2>2, <3>1
  <2>3. CASE "city" \notin loaded
    BY <1>1, <1>a, <2>3
  <2> QED BY <1>0, <2>1, <2>2, <2>3
<1> HIDE DEF city
<1>3. /\ country.out \in [Fields -> Marks]
      /\ ~AskCountry(city.out) => country.out = city.out
      /\ AskCountry(city.out) => \A f \in {"country", "country_code"} :
           country.out[f] = IF gives("country", f) THEN "country" ELSE "none"
  <2>1. CASE "country" \in loaded /\ r["country"].error = FALSE /\ AskCountry(city.out)
    <3>1. country = [out |-> Apply(city.out, "country", r["country"].fields), error |-> city.error]
      <4>1. country = Consult(city, "country", r["country"]) /\ "country" # "asn"
        BY <2>1
      <4> QED BY <2>1, <4>1, ConsultRecord, Zenon
    <3> QED BY <1>0, <1>2, <2>1, <3>1, ApplyFacts DEF AskCountry
  <2>2. CASE "country" \in loaded /\ r["country"].error = TRUE /\ AskCountry(city.out)
    <3>1. country = [out |-> city.out, error |-> "country"]
      <4>1. country = Consult(city, "country", r["country"])
        BY <2>2
      <4> QED BY <2>2, <4>1, ConsultError, Zenon
    <3> QED BY <1>0, <1>2, <2>2, <3>1 DEF AskCountry
  <2>3. CASE "country" \notin loaded \/ ~AskCountry(city.out)
    BY <1>2, <2>3 DEF AskCountry
  <2> QED BY <1>0, <2>1, <2>2, <2>3
<1> HIDE DEF country
<1>4. /\ asn.out \in [Fields -> Marks]
      /\ \A f \in AsnFields : gives("asn", f) => asn.out[f] # "none"
      /\ \A f \in {"country", "country_code"} : asn.out[f] = country.out[f]
  <2>1. CASE "asn" \in loaded /\ r["asn"].error = FALSE
    <3>1. asn = [out |-> Apply(country.out, "asn", r["asn"].fields \cap AsnFields),
                 error |-> country.error]
      <4>1. asn = Consult(country, "asn", r["asn"])
        BY <2>1
      <4> QED BY <2>1, <4>1, ConsultAsn, Zenon
    <3> QED BY <1>0, <1>3, <2>1, <3>1, ApplyFacts
  <2>2. CASE "asn" \in loaded /\ r["asn"].error = TRUE
    <3>1. asn = [out |-> country.out, error |-> "asn"]
      <4>1. asn = Consult(country, "asn", r["asn"])
        BY <2>2
      <4> QED BY <2>2, <4>1, ConsultError, Zenon
    <3> QED BY <1>0, <1>3, <2>2, <3>1
  <2>3. CASE "asn" \notin loaded
    BY <1>3, <2>3
  <2> QED BY <1>0, <2>1, <2>2, <2>3
<1>5. a = [out |-> asn.out, error |-> FinalError(loaded, asn.out, asn.error)]
  BY DEF Lookup, asn, country, city, start
<1> HIDE DEF asn, a
<1>6. a.out = asn.out /\ a.error = FinalError(loaded, asn.out, asn.error)
  BY <1>5
<1>7. (a.error = "none") <=> \E f \in Fields : a.out[f] # "none"
  <2>1. asn.out # NoField <=> \E f \in Fields : asn.out[f] # "none"
    BY <1>1, <1>4
  <2> QED BY <1>6, <2>1 DEF FinalError, HasAnyField
<1>8. {a.out["country"], a.out["country_code"]} # {"city", "country"}
  <2>1. CASE AskCountry(city.out)
    BY <1>3, <1>4, <1>6, <2>1
  <2>2. CASE ~AskCountry(city.out)
    <3>1. \A f \in {"country", "country_code"} : a.out[f] \in {"city", "none"}
      BY <1>0, <1>2, <1>3, <1>4, <1>6, <2>2
    <3> QED BY <3>1
  <2> QED BY <2>1, <2>2
<1>9. ASSUME NEW f \in {"country", "country_code"}, gives("country", f),
             \A g \in Fields : ~gives("city", g)
      PROVE  a.out[f] = "country"
  <2>1. AskCountry(city.out)
    BY <1>0, <1>2, <1>9 DEF AskCountry
  <2> QED BY <1>3, <1>4, <1>6, <1>9, <2>1
<1> QED BY <1>4, <1>6, <1>7, <1>8, <1>9 DEF a
-----------------------------------------------------------------------------
\* The inductive invariant.

\* The files of the download a runner has in its temporary directory.
Work(r) ==
  IF script[r] \in {"check", "city", "asn"} THEN {"dbip-city-lite", "dbip-asn-lite"}
  ELSE IF script[r] \in {"validate", "replace"} THEN {Editions[todo].name} ELSE {}

\* What runs was started with a valid configuration.
ConfigRead == cfg = FromLookup(env) /\ (svc = "serving" => ~Rejected(env))

\* The entrypoint runs download-dbip.sh only, and cron only if it is set up.
ScriptsInv ==
  /\ script["entry"] \notin {"edition", "validate", "replace"}
  /\ script["cron"] \in {"edition", "validate", "replace"} => todo \in 1..Len(Editions)
  /\ script["cron"] # "idle" => env.cron # "none"

\* A temporary directory holds the current download and nothing else.
TmpInv ==
  \A r \in Runners, n \in FileNames :
    IF n \in Work(r) THEN \E k \in Kinds : n \in NamesOf(k) /\ tmp[r][n] \in Delivered(k)
    ELSE tmp[r][n] = Absent

\* What is about to replace a file has been validated, if it can be.
Checked ==
  \A r \in Runners :
    script[r] \in {"city", "asn", "replace"} /\ HasBin(r) => Verify(Open(tmp[r]))

\* The invariant that PoolSound needs: no script has brought a damaged file.
FilesClean ==
  env.cron # "blind" => \A n \in FileNames : files[n].state # "damaged" \/ files[n] \in FoundBefore

ServiceInv == TypeOK /\ ConfigRead /\ ScriptsInv /\ TmpInv /\ Checked /\ FilesClean /\ PoolSound

LEMMA EditionNames ==
  /\ Len(Editions) = 3
  /\ \A i \in 1..3 : /\ Editions[i].kind \in Kinds
                      /\ Editions[i].name \in NamesOf(Editions[i].kind)
                      /\ Editions[i].name \in FileNames
<1>1. /\ Editions[1] = [name |-> "GeoLite2-City", kind |-> "city"]
      /\ Editions[2] = [name |-> "GeoLite2-ASN", kind |-> "asn"]
      /\ Editions[3] = [name |-> "GeoLite2-Country", kind |-> "country"]
      /\ Len(Editions) = 3
  BY DEF Editions
<1>2. \A i \in 1..3 : /\ Editions[i].kind \in Kinds
                      /\ Editions[i].name \in NamesOf(Editions[i].kind)
  <2>1. \A i \in 1..3 : i = 1 \/ i = 2 \/ i = 3
    OBVIOUS
  <2> QED BY <1>1, <2>1, CandidateNames DEF Kinds
<1> QED BY <1>1, <1>2, CandidateNames

\* No file is read for two kinds of database.
LEMMA OneKindPerName ==
  ASSUME NEW j \in Kinds, NEW k \in Kinds, NEW n \in NamesOf(j), n \in NamesOf(k)
  PROVE  j = k
BY CandidateNames DEF Kinds

LEMMA ContentFacts ==
  /\ Absent \in Contents /\ Absent.state = "absent"
  /\ EmptyDir \in [FileNames -> Contents] /\ \A n \in FileNames : EmptyDir[n] = Absent
  /\ \A k \in Kinds : /\ Delivered(k) \subseteq Contents
                       /\ Content("damaged", {k}) \in Contents
                       /\ \A c \in Delivered(k) :
                            /\ c.state # "absent"
                            /\ c.state \in {"damaged", "good"} <=> Usable(c, k)
                            /\ \A j \in Kinds : Usable(c, j) => j = k
  /\ \A c \in Contents, k \in Kinds :
       Usable(c, k) /\ c.state # "damaged" => c.state = "good" /\ k \in c.kinds
<1>1. Absent \in Contents /\ Absent.state = "absent"
  BY DEF Absent, Content, Contents
<1>2. /\ EmptyDir \in [FileNames -> Contents] /\ \A n \in FileNames : EmptyDir[n] = Absent
  BY <1>1 DEF EmptyDir
<1>3. ASSUME NEW k \in Kinds
      PROVE  /\ Delivered(k) \subseteq Contents /\ Content("damaged", {k}) \in Contents
             /\ \A c \in Delivered(k) :
                  /\ c.state # "absent"
                  /\ c.state \in {"damaged", "good"} <=> Usable(c, k)
                  /\ \A j \in Kinds : Usable(c, j) => j = k
  BY DEF Delivered, Content, Contents, Usable
<1>4. \A c \in Contents, k \in Kinds :
        Usable(c, k) /\ c.state # "damaged" => c.state = "good" /\ k \in c.kinds
  BY DEF Usable
<1> QED BY <1>1, <1>2, <1>3, <1>4

\* What passes --check-geo in a temporary directory is not damaged, and a database of
\* the download is in it.
LEMMA PassedIsGood ==
  ASSUME TypeOK, ScriptsInv, TmpInv, NEW r \in Runners, Verify(Open(tmp[r])),
         script[r] \in {"check", "city", "asn", "validate", "replace"}
  PROVE  /\ \A n \in Work(r) : tmp[r][n].state # "damaged"
         /\ \E n \in Work(r), k \in Kinds : n \in NamesOf(k) /\ Usable(tmp[r][n], k)
<1>1. Work(r) \subseteq FileNames
  <2>1. script[r] \in {"validate", "replace"} => todo \in 1..3
    BY EditionNames DEF ScriptsInv, Runners
  <2> QED BY <2>1, CandidateNames, EditionNames DEF Work
<1>2. \A n \in FileNames, k \in Kinds : Usable(tmp[r][n], k) => n \in Work(r)
  BY UsableIsThere DEF TmpInv
<1>3. ASSUME NEW n \in Work(r), NEW m \in Work(r), NEW k \in Kinds,
             n \in NamesOf(k), m \in NamesOf(k)
      PROVE  n = m
  BY <1>3, CandidateNames DEF Work, Kinds
<1>4. ASSUME NEW n \in Work(r), tmp[r][n].state = "damaged" PROVE FALSE
  <2>1. PICK k \in Kinds : n \in NamesOf(k) /\ tmp[r][n] \in Delivered(k)
    BY <1>1, <1>4 DEF TmpInv
  <2>2. Usable(tmp[r][n], k)
    BY <1>4, <2>1, ContentFacts
  <2>3. PICK m \in NamesOf(k) : Open(tmp[r])[k] = tmp[r][m] /\ Usable(tmp[r][m], k)
    BY <2>1, <2>2, OpenedKinds
  <2>4. m = n
    BY <1>2, <1>3, <1>4, <2>1, <2>3, CandidateNames
  <2>5. Open(tmp[r])[k].state = "good"
    BY <2>1, <2>2, OpenedKinds DEF Verify
  <2> QED BY <1>4, <2>3, <2>4, <2>5
<1>5. \E n \in Work(r), k \in Kinds : n \in NamesOf(k) /\ Usable(tmp[r][n], k)
  <2>1. PICK k \in Kinds : k \in Sources(Open(tmp[r]))
    BY DEF Verify, Sources
  <2>2. PICK n \in NamesOf(k) : Usable(tmp[r][n], k)
    BY <2>1, OpenedKinds
  <2> QED BY <1>2, <2>2, CandidateNames
<1> QED BY <1>4, <1>5

LEMMA RdnsRange == ASSUME NEW e \in Envs PROVE FromLookup(e).rdns_timeout \in 0..MaxRdns
<1>1. FromLookup(e).rdns_timeout = ParseRdns(e.RDNS_TIMEOUT)
  BY DEF FromLookup
<1>2. e.RDNS_TIMEOUT \in Int
  BY EnvsAssumption
<1>3. \A n \in Int : ParseRdns(n) \in 0..MaxRdns
  <2>1. MaxRdns \in Nat /\ DefaultRdns \in Nat /\ DefaultRdns <= MaxRdns
    BY DEF MaxRdns, DefaultRdns
  <2> QED BY <2>1 DEF ParseRdns
<1> QED BY <1>1, <1>2, <1>3, Zenon

LEMMA ServiceInit == ASSUME Init PROVE ServiceInv
<1>1. cfg = FromLookup(env) /\ cfg.rdns_timeout \in 0..MaxRdns
  BY RdnsRange DEF Init
<1>2. TypeOK
  BY <1>1, BoundsAssumption, DirsAssumption, ContentFacts, EditionNames
     DEF Init, TypeOK, NoPool, Runners
<1>3. ConfigRead /\ ScriptsInv
  BY <1>1 DEF Init, ConfigRead, ScriptsInv, Runners
<1>4. TmpInv
  BY ContentFacts DEF Init, TmpInv, Work, Runners
<1>5. Checked /\ FilesClean /\ PoolSound
  BY DirsAssumption DEF Init, Checked, FilesClean, FoundBefore, PoolSound, NoPool, Sources, Runners
<1> QED BY <1>1, <1>2, <1>3, <1>4, <1>5 DEF ServiceInv

-----------------------------------------------------------------------------
\* Every step keeps it.

\* Runner r's script ends, with GEO_DIR in order.
LEMMA ScriptEndsStep ==
  ASSUME ServiceInv, NEW r \in Runners, NEW ok, ScriptEnds(r, ok), script[r] # "idle",
         files' \in [FileNames -> Contents], FilesClean'
  PROVE  ServiceInv'
<1> USE DEF ServiceInv
<1>1. /\ script' = [script EXCEPT ![r] = "idle"] /\ tmp' = [tmp EXCEPT ![r] = EmptyDir]
      /\ todo' = IF r = "cron" THEN 0 ELSE todo
      /\ svc' = IF r = "entry" THEN "start" ELSE svc
      /\ UNCHANGED <<env, cfg, pool, runs, kills>>
  BY DEF ScriptEnds, AfterDownload
<1>2. /\ script'[r] = "idle" /\ tmp'[r] = EmptyDir
      /\ \A q \in Runners \ {r} : script'[q] = script[q] /\ tmp'[q] = tmp[q]
  BY <1>1 DEF TypeOK
<1>3. TypeOK'
  BY <1>1, ContentFacts, EditionNames DEF TypeOK
<1>4. ConfigRead'
  BY <1>1 DEF ConfigRead
<1>5. ScriptsInv'
  BY <1>1, <1>2 DEF ScriptsInv, Runners
<1>6. \A q \in Runners \ {r} : Work(q)' = Work(q)
  BY <1>1, <1>2 DEF Work, ScriptsInv, Runners
<1>7. TmpInv'
  <2>1. Work(r)' = {} /\ \A n \in FileNames : tmp'[r][n] = Absent
    BY <1>2, ContentFacts DEF Work
  <2>2. ASSUME NEW q \in Runners \ {r}, NEW n \in FileNames
        PROVE  IF n \in Work(q)'
               THEN \E k \in Kinds : n \in NamesOf(k) /\ tmp'[q][n] \in Delivered(k)
               ELSE tmp'[q][n] = Absent
    BY <1>2, <1>6 DEF TmpInv
  <2> QED BY <2>1, <2>2 DEF TmpInv
<1>8. Checked'
  BY <1>1, <1>2 DEF Checked, HasBin
<1>9. PoolSound'
  BY <1>1 DEF PoolSound
<1> QED BY <1>3, <1>4, <1>5, <1>7, <1>8, <1>9

\* Runner r's script goes on with the same directory, and leaves GEO_DIR in order.
LEMMA ScriptMoves ==
  ASSUME ServiceInv, NEW r \in Runners, NEW s,
         s \in {"idle", "fetch", "check", "city", "asn", "edition", "validate", "replace"},
         script' = [script EXCEPT ![r] = s], tmp' = tmp, todo' = todo,
         svc' \in {"entry", "start", "serving", "exited", "killed"},
         svc' = "serving" => svc = "serving",
         UNCHANGED <<env, cfg, pool, kills>>, runs' \in 0..MaxRuns,
         s \in {"edition", "validate", "replace"} => r = "cron" /\ todo \in 1..Len(Editions),
         s # "idle" /\ r = "cron" => env.cron # "none",
         Work(r)' = Work(r),
         s \in {"city", "asn", "replace"} /\ HasBin(r) => Verify(Open(tmp[r])),
         files' \in [FileNames -> Contents], FilesClean'
  PROVE  ServiceInv'
<1> USE DEF ServiceInv
<1>1. script'[r] = s /\ \A q \in Runners \ {r} : script'[q] = script[q]
  BY DEF TypeOK
<1>2. TypeOK'
  BY DEF TypeOK
<1>3. ConfigRead'
  BY DEF ConfigRead
<1>4. ScriptsInv'
  BY <1>1 DEF ScriptsInv, Runners
<1>5. \A q \in Runners : Work(q)' = Work(q)
  BY <1>1 DEF Work
<1>6. TmpInv'
  BY <1>5 DEF TmpInv
<1>7. Checked'
  BY <1>1 DEF Checked, HasBin
<1>8. PoolSound'
  BY DEF PoolSound
<1> QED BY <1>2, <1>3, <1>4, <1>6, <1>7, <1>8

\* A step of the program itself.
LEMMA ProgramMoves ==
  ASSUME ServiceInv, UNCHANGED <<env, files, scriptVars, runs>>,
         kills' \in 0..MaxKills, svc' \in {"entry", "start", "serving", "exited", "killed"},
         ConfigRead', pool' \in [Kinds -> Contents], PoolSound'
  PROVE  ServiceInv'
<1> USE DEF ServiceInv
<1>1. TypeOK'
  BY RdnsRange DEF TypeOK, scriptVars, ConfigRead
<1>2. ScriptsInv'
  BY DEF ScriptsInv, scriptVars
<1>3. TmpInv'
  BY DEF TmpInv, scriptVars, Work
<1>4. Checked'
  BY DEF Checked, HasBin, scriptVars
<1>5. FilesClean'
  BY DEF FilesClean
<1> QED BY <1>1, <1>2, <1>3, <1>4, <1>5

\* Replacing a file by one of a validated download keeps the files clean.
LEMMA ReplacedFile ==
  ASSUME ServiceInv, NEW r \in Runners, NEW n \in Work(r),
         script[r] \in {"city", "asn", "replace"}, env' = env,
         files' = [files EXCEPT ![n] = tmp[r][n]]
  PROVE  /\ files' \in [FileNames -> Contents] /\ FilesClean' /\ n \in FileNames
         /\ HasBin(r) => tmp[r][n].state # "damaged"
<1> USE DEF ServiceInv
<1>1. n \in FileNames
  <2>1. script[r] = "replace" => todo \in 1..3
    BY EditionNames DEF ScriptsInv, Runners
  <2> QED BY <2>1, CandidateNames, EditionNames DEF Work
<1>2. HasBin(r) => tmp[r][n].state # "damaged"
  BY PassedIsGood DEF Checked
<1>3. files' \in [FileNames -> Contents]
  BY <1>1 DEF TypeOK
<1>4. env.cron # "blind" => HasBin(r)
  BY EnvsAssumption DEF HasBin, ScriptsInv, TypeOK, Runners
<1>5. FilesClean'
  BY <1>1, <1>2, <1>4 DEF FilesClean, TypeOK
<1> QED BY <1>1, <1>2, <1>3, <1>5

\* What open_first reads of clean files is good.
LEMMA OpenedAreSound ==
  ASSUME TypeOK, FilesClean
  PROVE  /\ Open(files) \in [Kinds -> Contents]
         /\ \A k \in Sources(Open(files)) :
              /\ k \in Open(files)[k].kinds
              /\ env.cron # "blind" => Open(files)[k].state = "good" \/ Open(files)[k] \in FoundBefore
<1>1. ASSUME NEW k \in Kinds
      PROVE  /\ Open(files)[k] \in Contents
             /\ k \in Sources(Open(files)) =>
                  /\ k \in Open(files)[k].kinds
                  /\ env.cron # "blind" => Open(files)[k].state = "good" \/ Open(files)[k] \in FoundBefore
  <2>1. CASE k \in Sources(Open(files))
    <3>1. PICK n \in NamesOf(k) : Open(files)[k] = files[n] /\ Usable(files[n], k)
      BY <2>1, OpenedKinds
    <3>2. n \in FileNames /\ files[n] \in Contents
      BY CandidateNames DEF TypeOK
    <3> QED BY <3>1, <3>2, ContentFacts DEF FilesClean, Usable
  <2>2. CASE k \notin Sources(Open(files))
    BY <2>2, OpenedKinds, ContentFacts
  <2> QED BY <2>1, <2>2
<1>2. Open(files) \in [Kinds -> Contents]
  BY <1>1 DEF Open
<1> QED BY <1>1, <1>2 DEF Sources

\* Fetch and FetchEdition: new files in runner r's directory, to be checked.
LEMMA Fetched ==
  ASSUME ServiceInv, NEW r \in Runners, NEW s \in {"check", "validate"},
         script' = [script EXCEPT ![r] = s], UNCHANGED <<env, files, serviceVars, todo, runs, kills>>,
         s = "validate" => r = "cron" /\ todo \in 1..Len(Editions), script[r] # "idle",
         tmp' \in [Runners -> [FileNames -> Contents]],
         \A q \in Runners \ {r} : tmp'[q] = tmp[q],
         \A n \in FileNames :
           IF n \in Work(r)' THEN \E k \in Kinds : n \in NamesOf(k) /\ tmp'[r][n] \in Delivered(k)
           ELSE tmp'[r][n] = Absent
  PROVE  ServiceInv'
<1> USE DEF ServiceInv
<1>1. script'[r] = s /\ \A q \in Runners \ {r} : script'[q] = script[q]
  BY DEF TypeOK
<1>2. TypeOK'
  BY DEF TypeOK, serviceVars
<1>3. ConfigRead' /\ FilesClean' /\ PoolSound'
  BY DEF ConfigRead, FilesClean, PoolSound, serviceVars
<1>4. ScriptsInv'
  BY <1>1 DEF ScriptsInv, Runners
<1>5. \A q \in Runners \ {r} : Work(q)' = Work(q)
  BY <1>1 DEF Work
<1>6. TmpInv'
  BY <1>5 DEF TmpInv
<1>7. Checked'
  BY <1>1 DEF Checked, HasBin
<1> QED BY <1>2, <1>3, <1>4, <1>6, <1>7

\* A step of either download script, or of its end.
LEMMA ScriptStepKeeps == ASSUME ServiceInv, NEW r \in Runners, ScriptStep(r) PROVE ServiceInv'
<1> USE DEF ServiceInv
<1>0. UNCHANGED <<env, files>> => FilesClean' /\ files' \in [FileNames -> Contents]
  BY DEF FilesClean, TypeOK
<1>1. CASE Fetch(r)
  <2>1. PICK c \in Delivered("city"), a \in Delivered("asn") :
          tmp' = [tmp EXCEPT ![r]["dbip-city-lite"] = c, ![r]["dbip-asn-lite"] = a]
    BY <1>1 DEF Fetch
  <2>2. /\ "dbip-city-lite" \in NamesOf("city") /\ "dbip-asn-lite" \in NamesOf("asn")
        /\ "dbip-city-lite" \in FileNames /\ "dbip-asn-lite" \in FileNames
        /\ "city" \in Kinds /\ "asn" \in Kinds
    BY CandidateNames DEF Kinds
  <2>3. c \in Contents /\ a \in Contents
    BY <2>2, ContentFacts
  <2>4. /\ tmp' \in [Runners -> [FileNames -> Contents]]
        /\ \A q \in Runners \ {r} : tmp'[q] = tmp[q]
        /\ tmp'[r]["dbip-city-lite"] = c /\ tmp'[r]["dbip-asn-lite"] = a
        /\ \A n \in FileNames \ {"dbip-city-lite", "dbip-asn-lite"} : tmp'[r][n] = tmp[r][n]
    BY <2>1, <2>2, <2>3 DEF TypeOK
  <2>5. Work(r) = {} /\ Work(r)' = {"dbip-city-lite", "dbip-asn-lite"}
    BY <1>1 DEF Fetch, Work, TypeOK
  <2>6. \A n \in FileNames :
          IF n \in Work(r)' THEN \E k \in Kinds : n \in NamesOf(k) /\ tmp'[r][n] \in Delivered(k)
          ELSE tmp'[r][n] = Absent
    BY <2>2, <2>4, <2>5 DEF TmpInv
  <2> QED BY <1>1, <2>4, <2>6, Fetched DEF Fetch
<1>2. CASE CheckGeo(r)
  <2>1. CASE Validated(r)
    <3>1. /\ script' = [script EXCEPT ![r] = "city"] /\ script[r] = "check"
          /\ UNCHANGED <<env, todo, tmp, serviceVars, runs, kills, files>>
      BY <1>2, <2>1 DEF CheckGeo
    <3>2. Work(r)' = Work(r)
      BY <3>1 DEF Work, TypeOK
    <3>3. r = "cron" => env.cron # "none"
      BY <3>1 DEF ScriptsInv
    <3>4. HasBin(r) => Verify(Open(tmp[r]))
      BY <2>1 DEF Validated
    <3> QED BY <1>0, <3>1, <3>2, <3>3, <3>4, ScriptMoves DEF serviceVars, TypeOK
  <2>2. CASE ~Validated(r)
    BY <1>0, <1>2, <2>2, ScriptEndsStep DEF CheckGeo, ScriptEnds
  <2> QED BY <2>1, <2>2
<1>3. CASE MoveCity(r)
  <2>1. /\ script[r] = "city" /\ script' = [script EXCEPT ![r] = "asn"]
        /\ files' = [files EXCEPT !["dbip-city-lite"] = tmp[r]["dbip-city-lite"]]
        /\ UNCHANGED <<env, todo, tmp, serviceVars, runs, kills>>
    BY <1>3 DEF MoveCity
  <2>2. Work(r)' = Work(r) /\ "dbip-city-lite" \in Work(r)
    BY <2>1 DEF Work, TypeOK
  <2>3. files' \in [FileNames -> Contents] /\ FilesClean'
    BY <2>1, <2>2, ReplacedFile
  <2>4. /\ r = "cron" => env.cron # "none"
        /\ HasBin(r) => Verify(Open(tmp[r]))
    BY <2>1 DEF ScriptsInv, Checked
  <2> QED BY <2>1, <2>2, <2>3, <2>4, ScriptMoves DEF serviceVars, TypeOK
<1>4. CASE MoveAsn(r)
  <2>1. /\ script[r] = "asn" /\ ScriptEnds(r, TRUE) /\ env' = env
        /\ files' = [files EXCEPT !["dbip-asn-lite"] = tmp[r]["dbip-asn-lite"]]
    BY <1>4 DEF MoveAsn, ScriptEnds
  <2>2. "dbip-asn-lite" \in Work(r)
    BY <2>1 DEF Work
  <2>3. files' \in [FileNames -> Contents] /\ FilesClean'
    BY <2>1, <2>2, ReplacedFile
  <2> QED BY <2>1, <2>3, ScriptEndsStep
<1>5. CASE ScriptFails(r)
  BY <1>0, <1>5, ScriptEndsStep DEF ScriptFails, ScriptEnds
<1> QED BY <1>1, <1>2, <1>3, <1>4, <1>5 DEF ScriptStep

\* A step of the next edition's download.
LEMMA EditionStepKeeps == ASSUME ServiceInv, EditionStep PROVE ServiceInv'
<1> USE DEF ServiceInv
<1>0. "cron" \in Runners /\ (UNCHANGED <<env, files>> => FilesClean' /\ files' \in [FileNames -> Contents])
  BY DEF FilesClean, TypeOK, Runners
<1> DEFINE name == Editions[todo].name
           kind == Editions[todo].kind
<1>1. /\ todo \in 1..3 /\ Len(Editions) = 3 /\ kind \in Kinds /\ name \in NamesOf(kind)
      /\ name \in FileNames /\ env.cron # "none"
  BY EditionNames DEF EditionStep, FetchEdition, CheckEdition, MoveEdition, ScriptsInv
<1>2. CASE FetchEdition
  <2>1. PICK c \in Delivered(kind) : tmp' = [tmp EXCEPT !["cron"][name] = c]
    BY <1>2 DEF FetchEdition
  <2>2. c \in Contents
    BY <1>1, ContentFacts
  <2>3. /\ tmp' \in [Runners -> [FileNames -> Contents]]
        /\ \A q \in Runners \ {"cron"} : tmp'[q] = tmp[q]
        /\ tmp'["cron"][name] = c
        /\ \A n \in FileNames \ {name} : tmp'["cron"][n] = tmp["cron"][n]
    BY <1>0, <1>1, <2>1, <2>2 DEF TypeOK
  <2>4. Work("cron") = {} /\ Work("cron")' = {name}
    BY <1>0, <1>2 DEF FetchEdition, Work, TypeOK
  <2>5. \A n \in FileNames :
          IF n \in Work("cron")'
          THEN \E k \in Kinds : n \in NamesOf(k) /\ tmp'["cron"][n] \in Delivered(k)
          ELSE tmp'["cron"][n] = Absent
    BY <1>0, <1>1, <2>3, <2>4 DEF TmpInv
  <2> QED BY <1>0, <1>1, <1>2, <2>3, <2>5, Fetched DEF FetchEdition
<1>3. CASE CheckEdition
  <2>1. CASE Validated("cron")
    <3>1. /\ script' = [script EXCEPT !["cron"] = "replace"] /\ script["cron"] = "validate"
          /\ UNCHANGED <<env, todo, tmp, serviceVars, runs, kills, files>>
      BY <1>3, <2>1 DEF CheckEdition
    <3>2. Work("cron")' = Work("cron")
      BY <1>0, <3>1 DEF Work, TypeOK
    <3>3. HasBin("cron") => Verify(Open(tmp["cron"]))
      BY <2>1 DEF Validated
    <3> QED BY <1>0, <1>1, <3>1, <3>2, <3>3, ScriptMoves DEF serviceVars, TypeOK
  <2>2. CASE ~Validated("cron")
    BY <1>0, <1>3, <2>2, ScriptEndsStep DEF CheckEdition, ScriptEnds
  <2> QED BY <2>1, <2>2
<1>4. CASE MoveEdition
  <2>1. /\ script["cron"] = "replace" /\ files' = [files EXCEPT ![name] = tmp["cron"][name]]
        /\ env' = env
    BY <1>4 DEF MoveEdition, ScriptEnds
  <2>2. Work("cron") = {name}
    BY <2>1 DEF Work
  <2>3. files' \in [FileNames -> Contents] /\ FilesClean'
    BY <1>0, <2>1, <2>2, ReplacedFile
  <2>4. CASE todo < 3
    <3>1. /\ todo' = todo + 1 /\ script' = [script EXCEPT !["cron"] = "edition"]
          /\ tmp' = [tmp EXCEPT !["cron"][name] = Absent]
          /\ UNCHANGED <<env, serviceVars, runs, kills>>
      BY <1>1, <1>4, <2>4 DEF MoveEdition
    <3>2. /\ script'["cron"] = "edition" /\ script'["entry"] = script["entry"]
          /\ tmp'["entry"] = tmp["entry"] /\ tmp'["cron"][name] = Absent
          /\ \A n \in FileNames \ {name} : tmp'["cron"][n] = tmp["cron"][n]
      BY <1>0, <1>1, <3>1 DEF TypeOK, Runners
    <3>3. TypeOK'
      <4>1. script' \in [Runners -> {"idle", "fetch", "check", "city", "asn",
                                    "edition", "validate", "replace"}]
        BY <3>1 DEF TypeOK
      <4>3. todo' \in 0..Len(Editions)
        BY <1>1, <2>4, <3>1
      <4>2. tmp' \in [Runners -> [FileNames -> Contents]]
        BY <1>1, <3>1, ContentFacts DEF TypeOK
      <4> QED BY <2>3, <3>1, <4>1, <4>2, <4>3 DEF TypeOK, serviceVars
    <3>4. ConfigRead' /\ PoolSound'
      BY <3>1 DEF ConfigRead, PoolSound, serviceVars
    <3>5. ScriptsInv'
      BY <1>1, <2>4, <3>1, <3>2 DEF ScriptsInv
    <3>6. Work("cron")' = {} /\ Work("entry")' = Work("entry")
      BY <3>2 DEF Work, ScriptsInv
    <3>7. TmpInv'
      BY <2>2, <3>2, <3>6 DEF TmpInv, Runners
    <3>8. Checked'
      BY <3>1, <3>2 DEF Checked, HasBin, Runners
    <3> QED BY <2>3, <3>3, <3>4, <3>5, <3>7, <3>8
  <2>5. CASE ~(todo < 3)
    BY <1>0, <1>1, <1>4, <2>1, <2>3, <2>5, ScriptEndsStep DEF MoveEdition
  <2> QED BY <2>4, <2>5
<1> QED BY <1>2, <1>3, <1>4 DEF EditionStep

LEMMA ServiceStep == ASSUME ServiceInv, [Next]_vars PROVE ServiceInv'
<1> USE DEF ServiceInv
<1>0. /\ "cron" \in Runners /\ "entry" \in Runners
      /\ UNCHANGED <<env, files>> => FilesClean' /\ files' \in [FileNames -> Contents]
  BY DEF FilesClean, TypeOK, Runners
<1>1. ASSUME SkipDownload \/ Restart \/ BindFails PROVE ServiceInv'
  <2>1. /\ UNCHANGED <<env, files, scriptVars, runs, cfg, pool>> /\ kills' \in 0..MaxKills
        /\ svc' \in {"start", "entry", "exited"}
    BY <1>1, BoundsAssumption DEF SkipDownload, Restart, BindFails, TypeOK
  <2>2. ConfigRead' /\ PoolSound'
    BY <2>1 DEF ConfigRead, PoolSound
  <2> QED BY <2>1, <2>2, ProgramMoves DEF TypeOK
<1>2. CASE EntryDownload
  <2>1. Work("entry")' = Work("entry")
    BY <1>0, <1>2 DEF EntryDownload, Work, TypeOK
  <2> QED BY <1>0, <1>2, <2>1, ScriptMoves DEF EntryDownload, serviceVars, TypeOK
<1>3. CASE CronDownload
  <2>1. Work("cron")' = Work("cron")
    BY <1>0, <1>3 DEF CronDownload, Work, TypeOK
  <2>2. runs' \in 0..MaxRuns
    BY <1>3, BoundsAssumption DEF CronDownload, TypeOK
  <2> QED BY <1>0, <1>3, <2>1, <2>2, ScriptMoves DEF CronDownload, serviceVars, TypeOK
<1>4. CASE CronGeolite
  <2>1. /\ script["cron"] = "idle" /\ env.cron # "none"
        /\ script' = [script EXCEPT !["cron"] = "edition"] /\ todo' = 1
        /\ UNCHANGED <<env, files, serviceVars, tmp, kills>>
        /\ runs' \in 0..MaxRuns
    BY <1>4, BoundsAssumption DEF CronGeolite, TypeOK
  <2>2. script'["cron"] = "edition" /\ script'["entry"] = script["entry"]
    BY <1>0, <2>1 DEF TypeOK
  <2>3. TypeOK'
    <3>1. script' \in [Runners -> {"idle", "fetch", "check", "city", "asn",
                                  "edition", "validate", "replace"}]
      BY <2>1 DEF TypeOK
    <3>2. todo' \in 0..Len(Editions)
      BY <2>1, EditionNames
    <3> QED BY <2>1, <3>1, <3>2 DEF TypeOK, serviceVars
  <2>4. ConfigRead' /\ PoolSound' /\ FilesClean'
    BY <2>1 DEF ConfigRead, PoolSound, FilesClean, serviceVars
  <2>5. ScriptsInv'
    BY <2>1, <2>2, EditionNames DEF ScriptsInv
  <2>6. Work("cron")' = Work("cron") /\ Work("entry")' = Work("entry")
    BY <2>1, <2>2 DEF Work, ScriptsInv
  <2>7. TmpInv'
    BY <2>1, <2>6 DEF TmpInv, Runners
  <2>8. Checked'
    BY <2>1, <2>2 DEF Checked, HasBin, Runners
  <2> QED BY <2>3, <2>4, <2>5, <2>7, <2>8
<1>5. CASE Start
  <2>1. UNCHANGED <<env, files, scriptVars, runs, kills>>
    BY <1>5 DEF Start
  <2>2. CASE Rejected(env)
    <3>1. svc' = "exited" /\ UNCHANGED <<cfg, pool>>
      BY <1>5, <2>2 DEF Start
    <3>2. ConfigRead' /\ PoolSound'
      BY <2>1, <3>1 DEF ConfigRead, PoolSound
    <3> QED BY <2>1, <3>1, <3>2, ProgramMoves DEF TypeOK
  <2>3. CASE ~Rejected(env)
    <3>1. svc' = "serving" /\ cfg' = FromLookup(env) /\ pool' = Open(files)
      BY <1>5, <2>3 DEF Start
    <3>2. ConfigRead'
      BY <2>1, <2>3, <3>1 DEF ConfigRead
    <3>3. pool' \in [Kinds -> Contents] /\ PoolSound'
      BY <2>1, <3>1, OpenedAreSound DEF PoolSound
    <3> QED BY <2>1, <3>1, <3>2, <3>3, ProgramMoves DEF TypeOK
  <2> QED BY <2>2, <2>3
<1>6. CASE Kill
  <2>1. /\ script' = [script EXCEPT !["entry"] = "idle"]
        /\ tmp' = [tmp EXCEPT !["entry"] = EmptyDir]
        /\ svc' = "killed" /\ pool' = NoPool /\ kills' \in 0..MaxKills
        /\ UNCHANGED <<env, files, cfg, todo, runs>>
    BY <1>6, BoundsAssumption DEF Kill, TypeOK
  <2>2. /\ script'["entry"] = "idle" /\ tmp'["entry"] = EmptyDir
        /\ script'["cron"] = script["cron"] /\ tmp'["cron"] = tmp["cron"]
    BY <1>0, <2>1 DEF TypeOK
  <2>3. TypeOK'
    BY <2>1, ContentFacts DEF TypeOK, NoPool
  <2>4. ConfigRead' /\ FilesClean'
    BY <2>1 DEF ConfigRead, FilesClean
  <2>5. PoolSound'
    BY <2>1 DEF PoolSound, Sources, NoPool
  <2>6. ScriptsInv'
    BY <2>1, <2>2 DEF ScriptsInv
  <2>7. TmpInv'
    <3>1. /\ Work("entry")' = {} /\ Work("cron")' = Work("cron")
          /\ \A n \in FileNames : tmp'["entry"][n] = Absent
      BY <2>1, <2>2, ContentFacts DEF Work
    <3> QED BY <2>2, <3>1 DEF TmpInv, Runners
  <2>8. Checked'
    BY <2>1, <2>2 DEF Checked, HasBin, Runners
  <2> QED BY <2>3, <2>4, <2>5, <2>6, <2>7, <2>8
<1>7. CASE UNCHANGED vars
  <2>1. TypeOK' /\ ConfigRead' /\ ScriptsInv'
    BY <1>7 DEF vars, serviceVars, scriptVars, TypeOK, ConfigRead, ScriptsInv
  <2>2. TmpInv' /\ Checked'
    BY <1>7 DEF vars, scriptVars, TmpInv, Work, Checked, HasBin
  <2>3. FilesClean' /\ PoolSound'
    BY <1>7 DEF vars, serviceVars, FilesClean, PoolSound
  <2> QED BY <2>1, <2>2, <2>3
<1> QED
  BY <1>1, <1>2, <1>3, <1>4, <1>5, <1>6, <1>7, ScriptStepKeeps, EditionStepKeeps DEF Next

\* The container's life: whatever is downloaded, by two scripts at once, and whenever a
\* script or the container is killed, ServiceInv holds.
THEOREM ServiceInvariant == Spec => []ServiceInv
<1>1. ServiceInv /\ [Next]_vars => ServiceInv'
  BY ServiceStep
<1> QED BY <1>1, ServiceInit, PTL DEF Spec

\* Type correctness; the part about cfg is parse_rdns_timeout's clamp.
THEOREM ServiceTypeCorrect == Spec => []TypeOK
<1>1. ServiceInv => TypeOK
  BY DEF ServiceInv
<1> QED BY <1>1, ServiceInvariant, PTL

\* download-dbip.sh, download-geolite2.sh and GeoPool::open: the service never loads a
\* damaged database that a script has brought, nor one of another kind.
THEOREM PoolAlwaysSound == Spec => []PoolSound
<1>1. ServiceInv => PoolSound
  BY DEF ServiceInv
<1> QED BY <1>1, ServiceInvariant, PTL

\* from_lookup: what a serving program trusts goes together, in any environment, and
\* beside an invalid setting it trusts nothing.
THEOREM ConfigAlwaysSound == Spec => []ConfigSound
<1>1. ServiceInv => ConfigSound
  <2> SUFFICES ASSUME ServiceInv, svc = "serving"
               PROVE  /\ cfg.trust_cf => cfg.trust_proxy
                      /\ cfg.edge_headers # {} => cfg.trust_proxy
                      /\ EdgeXff \notin cfg.edge_headers
                      /\ cfg.metrics_open =>
                           env.METRICS_TOKEN = "blank" /\ "METRICS_TOKEN" \notin env.notunicode
                      /\ DocumentedInvalid(env) => ~cfg.trust_proxy /\ ~cfg.trust_cf
    BY DEF ConfigSound
  <2>1. ~Rejected(env) /\ cfg = FromLookup(env)
    BY DEF ServiceInv, ConfigRead
  <2>2. /\ cfg.trust_proxy = TrustProxy(env) /\ cfg.trust_cf = TrustCf(env)
        /\ cfg.edge_headers = IF TrustProxy(env) THEN ParseEdgeHeaders(env.EDGE_HEADERS) ELSE {}
        /\ cfg.metrics_open = (env.METRICS_TOKEN = "blank" \/ "METRICS_TOKEN" \in env.notunicode)
    BY <2>1 DEF FromLookup
  <2>3. cfg.trust_cf => cfg.trust_proxy
    BY <2>2 DEF TrustCf
  <2>4. cfg.edge_headers # {} => cfg.trust_proxy
    BY <2>2
  <2>5. EdgeXff \notin cfg.edge_headers
    <3>1. EdgeXff \notin ParseEdgeHeaders(env.EDGE_HEADERS)
      BY <2>1 DEF Rejected, EdgeError, ParseEdgeHeaders
    <3> QED BY <2>2, <3>1
  <2>6. "METRICS_TOKEN" \notin env.notunicode
    BY <2>1 DEF Rejected, VarsRead, VarNames
  <2>7. ASSUME DocumentedInvalid(env) PROVE ~cfg.trust_proxy
    <3>1. TrustProxy(env) => VarsRead(env) = VarNames /\ "TRUST_CF" \in VarsRead(env)
      BY DEF VarsRead, VarNames
    <3>2. ~TrustProxy(env)
      BY <2>1, <2>7, <3>1 DEF Rejected, DocumentedInvalid, FlagError
    <3> QED BY <2>2, <3>2
  <2> QED BY <2>2, <2>3, <2>4, <2>5, <2>6, <2>7
<1> QED BY <1>1, ServiceInvariant, PTL

\* GeoPool::lookup: what an answer says is right for all databases that may be loaded,
\* and all that they may return.
THEOREM LookupAlwaysSound == Spec => []LookupSound
<1>1. LookupSound
  <2>1. Sources(pool) \subseteq Kinds
    BY DEF Sources
  <2> QED BY <2>1, LookupIsSound DEF LookupSound
<1> QED BY <1>1, PTL

\* download-geolite2.sh: an edition that replaces a file was validated alone, so that
\* whatever could be loaded before can be loaded after.
THEOREM EditionsAlwaysSurvive == Spec => EditionsSurvive
<1>1. ASSUME ServiceInv, MoveEdition, HasBin("cron"), NEW j \in Kinds, j \in Sources(Open(files))
      PROVE  j \in Sources(Open(files'))
  <2> DEFINE name == Editions[todo].name
  <2>1. /\ script["cron"] = "replace" /\ files' = [files EXCEPT ![name] = tmp["cron"][name]]
        /\ "cron" \in Runners
    BY <1>1 DEF MoveEdition, Runners
  <2>2. Work("cron") = {name} /\ name \in FileNames
    BY <1>1, <2>1, EditionNames DEF Work, ServiceInv, ScriptsInv
  <2>3. Verify(Open(tmp["cron"]))
    BY <1>1, <2>1 DEF ServiceInv, Checked
  <2>4. PICK k \in Kinds : name \in NamesOf(k) /\ Usable(tmp["cron"][name], k)
    BY <1>1, <2>1, <2>2, <2>3, PassedIsGood DEF ServiceInv
  <2>5. files'[name] = tmp["cron"][name] /\ \A n \in FileNames \ {name} : files'[n] = files[n]
    BY <1>1, <2>1, <2>2 DEF ServiceInv, TypeOK
  <2>6. PICK n \in NamesOf(j) : Usable(files[n], j)
    BY <1>1, OpenedKinds
  <2>7. CASE n = name
    BY <2>4, <2>5, <2>6, <2>7, OneKindPerName, OpenedKinds
  <2>8. CASE n # name
    BY <2>5, <2>6, <2>8, CandidateNames, OpenedKinds
  <2> QED BY <2>7, <2>8
<1>2. ServiceInv /\ [Next]_vars =>
        [MoveEdition /\ HasBin("cron") =>
           \A k \in Kinds : k \in Sources(Open(files)) => k \in Sources(Open(files'))]_vars
  BY <1>1
<1> QED BY <1>2, ServiceInvariant, PTL DEF Spec, EditionsSurvive
=============================================================================
