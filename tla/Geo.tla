---------------------------------- MODULE Geo ----------------------------------
(***************************************************************************)
(* src/geo.rs: which database files are opened, and what a lookup makes of *)
(* the records it finds.  A directory maps file names to contents.  A      *)
(* content is absent, a "stub" of at most 1 KiB, "corrupt" (it does not    *)
(* open), "damaged" (it opens, but verify finds it broken) or "good"; one  *)
(* that opens names kinds in its database_type.  A record is the set of    *)
(* the fields that can be read from it.                                    *)
(***************************************************************************)
EXTENDS Integers, Sequences, SequencesExt

Kinds == {"city", "country", "asn"}

\* open_first: the names it knows, then others with the kind in their name, sorted.
Candidates ==
  [city |-> <<"GeoLite2-City", "dbip-city-lite", "my-city">>,
   country |-> <<"GeoLite2-Country", "dbip-country-lite">>,
   asn |-> <<"GeoLite2-ASN", "dbip-asn-lite">>]

FileNames == UNION {{Candidates[k][i] : i \in 1..Len(Candidates[k])} : k \in Kinds}

Contents ==
  [state : {"absent", "stub", "corrupt"}, kinds : {{}}]
    \cup [state : {"damaged", "good"}, kinds : SUBSET Kinds]

Content(state, kinds) == [state |-> state, kinds |-> kinds]
Absent == Content("absent", {})
EmptyDir == [n \in FileNames |-> Absent]

\* try_open succeeds, and database_type contains the kind.
Usable(content, kind) == content.state \in {"damaged", "good"} /\ kind \in content.kinds

\* open_first: what it reads for a kind.
OpenFirst(dir, kind) ==
  LET i == SelectInSeq(Candidates[kind], LAMBDA n : Usable(dir[n], kind))
  IN  IF i = 0 THEN Absent ELSE dir[Candidates[kind][i]]

\* GeoPool::open
Open(dir) == [k \in Kinds |-> OpenFirst(dir, k)]

Sources(pool) == {k \in Kinds : pool[k] # Absent}

\* Slip: one good database is enough.
AnyGood(pool) == \E k \in Sources(pool) : pool[k].state = "good"

\* Slip: a pool without databases passes.
EmptyPasses(pool) == \A k \in Sources(pool) : pool[k].state = "good"

\* GeoPool::verify
Verify(pool) == Sources(pool) # {} /\ \A k \in Sources(pool) : pool[k].state = "good"

-----------------------------------------------------------------------------
\* GeoPool::lookup

AsnFields == {"asn", "aso"}
Fields == {"country", "country_code", "city", "latitude", "longitude"} \cup AsnFields

NoField == [f \in Fields |-> "none"]

\* has_any_field
HasAnyField(out) == out # NoField

\* apply_city and apply_asn fill in what is still missing.
Apply(out, kind, fields) ==
  [f \in Fields |-> IF out[f] = "none" /\ f \in fields THEN kind ELSE out[f]]

\* The country database is asked only if the city database gave neither name nor code.
AskCountry(out) == out["country"] = "none" /\ out["country_code"] = "none"

\* Slip: the error of one database stays beside the fields of another.
KeepError(sources, out, error) == IF error = "none" /\ ~HasAnyField(out) THEN "not found" ELSE error

\* The error lookup returns.
FinalError(sources, out, error) ==
  IF HasAnyField(out) THEN "none"
  ELSE IF error # "none" THEN error
  ELSE IF sources = {} THEN "no db" ELSE "not found"

\* One database's share: its result is an error, or the record's fields ({}: no record).
Consult(acc, kind, result) ==
  [out |-> IF result.error THEN acc.out
           ELSE Apply(acc.out, kind, IF kind = "asn" THEN result.fields \cap AsnFields
                                     ELSE result.fields),
   error |-> IF result.error THEN kind ELSE acc.error]

\* lookup of a valid address; r gives the result of each database for it.
Lookup(sources, r) ==
  LET start == [out |-> NoField, error |-> "none"]
      city == IF "city" \in sources THEN Consult(start, "city", r["city"]) ELSE start
      country == IF "country" \in sources /\ AskCountry(city.out)
                 THEN Consult(city, "country", r["country"]) ELSE city
      asn == IF "asn" \in sources THEN Consult(country, "asn", r["asn"]) ELSE country
  IN  [out |-> asn.out, error |-> FinalError(sources, asn.out, asn.error)]
=============================================================================
