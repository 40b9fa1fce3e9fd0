--------------------------- MODULE FactorSelection ---------------------------
(***************************************************************************)
(* Which factor an activity record is calculated with:                     *)
(* CalculationQualityService.matchFactor, a ladder of ten rungs that is    *)
(* walked down until one of them holds a factor, what the record is told   *)
(* about the choice (buildFactorSelectionMetadata), and the second ladder, *)
(* ConversionFactorsService.getApplicableFactor.                           *)
(*                                                                         *)
(* Everything here is a function of the record and of the catalogue, the   *)
(* set of governed versions and legacy factors that were read.             *)
(***************************************************************************)
EXTENDS Integers, FiniteSets

CONSTANTS
    Activities,
    Electricity,      \* calculated with a factor of its own region or not at all
    Fallback,         \* allowsCountryLevelFallback in calculation-quality.service
    CatalogFallback,  \* the shorter list in conversion-factors.service
    Tracked,          \* never converted into emissions
    Units,            \* normalized units
    KwhPer,           \* the units that convert into one another, in kWh
    Places,           \* normalized names of regions and of countries
    Canada,
    ProvinceRequired, \* what placeholder factors give as their region
    NoPlace,
    Spellings,        \* what people write for a place
    Normal,           \* Normal[s]: normalizeJurisdictionRegion, ...Country
    Null, Blank,      \* two ways of writing nothing: a missing text and an empty one
    NoYear,
    Pool              \* the factors there may be

ASSUME SelectionAssumption ==
    /\ Electricity \in Activities /\ Electricity \notin Fallback
    /\ Fallback \subseteq Activities /\ CatalogFallback \subseteq Fallback
    /\ Tracked \subseteq Activities \ (Fallback \cup {Electricity})
    /\ KwhPer \in [DOMAIN KwhPer -> Nat \ {0}] /\ DOMAIN KwhPer \subseteq Units
    /\ {Canada, ProvinceRequired} \subseteq Places /\ NoPlace \notin Places
    /\ Normal \in [Spellings -> Places \cup {NoPlace}]
    /\ {Null, Blank} \subseteq Spellings /\ Normal[Null] = NoPlace /\ Normal[Blank] = NoPlace
    /\ NoYear \notin Nat

Years == Nat \cup {NoYear}

(* FactorVersion with its Factor and FactorSource.  live: the factor and   *)
(* the source are active and the version is not retired.                   *)
Governed ==
    [kind : {"governed"}, activity : Activities, unit : Units, country : Spellings,
     region : Spellings, year : Years, status : {"DRAFT", "VERIFIED", "OFFICIAL"},
     confidence : 1..5, system : BOOLEAN, live : BOOLEAN, eligible : BOOLEAN,
     updated : Nat, value : Nat]

(* ConversionFactor of type EMISSION: of the organization, or a system     *)
(* default.  jurisdiction: an older field for the region.  placeholder:    *)
(* what its confidence level says.                                         *)
Legacy ==
    [kind : {"legacy"}, activity : Activities, unit : Units, country : Spellings,
     region : Spellings, jurisdiction : Spellings, year : Years,
     own : BOOLEAN, verified : BOOLEAN, preferred : BOOLEAN, placeholder : BOOLEAN,
     eligible : BOOLEAN, updated : Nat, value : Nat]

Factor == Governed \cup Legacy

ASSUME PoolAssumption ==
    /\ Pool \subseteq Factor /\ IsFiniteSet(Pool)
    /\ \A f, g \in Pool : f.updated = g.updated => f = g

(* What is asked: the record's activity and unit, the place resolved for   *)
(* it, its year, and the organization's allowDemoFactorsForCalculations.   *)
Query == [activity : Activities, unit : Units, country : Places,
          region : Places \cup {NoPlace}, year : Nat, allowDemo : BOOLEAN]

-----------------------------------------------------------------------------
(* What the searches go by: region || jurisdiction.                        *)
Region(f) ==
    IF f.kind = "legacy" /\ f.region \in {Null, Blank} THEN Normal[f.jurisdiction]
    ELSE Normal[f.region]

(* What the explanation goes by: region ?? jurisdiction.                   *)
ToldRegion(f) ==
    IF f.kind = "legacy" /\ f.region = Null THEN Normal[f.jurisdiction] ELSE Normal[f.region]

Country(f) == Normal[f.country]

unitsCompatible(u, w) == u = w \/ {u, w} \subseteq DOMAIN KwhPer

countryMatches(f, q) == Country(f) \in {NoPlace, q.country}
regionMatchesExactly(f, q) == q.region # NoPlace /\ Region(f) = q.region
CountryLevel(region, country) == region \in {NoPlace, Canada} \/ region = country
isCountryLevel(f) == CountryLevel(Region(f), Country(f))

YearOf(f) == IF f.year = NoYear THEN 0 ELSE f.year
Distance(f, q) == IF YearOf(f) > q.year THEN YearOf(f) - q.year ELSE q.year - YearOf(f)

StatusRank(f) == CASE f.status = "OFFICIAL" -> 4 [] f.status = "VERIFIED" -> 3 [] OTHER -> 1

(* compareGovernedFactorVersions                                           *)
Better(f, g) ==
    \/ StatusRank(f) > StatusRank(g)
    \/ /\ StatusRank(f) = StatusRank(g)
       /\ \/ f.confidence > g.confidence
          \/ f.confidence = g.confidence /\ f.updated > g.updated

(* The query's ORDER BY (own factors, verified ones, preferred ones, the   *)
(* newest), stably sorted by year, the latest first.                       *)
LegacyRank(f) ==
    (IF f.own THEN 4 ELSE 0) + (IF f.verified THEN 2 ELSE 0) + (IF f.preferred THEN 1 ELSE 0)

LegacyBefore(f, g) ==
    \/ LegacyRank(f) > LegacyRank(g)
    \/ LegacyRank(f) = LegacyRank(g) /\ f.updated > g.updated

Best(S) == {f \in S : \A g \in S \ {f} : Better(f, g)}
Latest(S) == {f \in S : \A g \in S : YearOf(f) >= YearOf(g)}
Nearest(S, q) == {f \in S : \A g \in S : Distance(f, q) <= Distance(g, q)}
First(S) == {f \in S : \A g \in S \ {f} : LegacyBefore(f, g)}

-----------------------------------------------------------------------------
(* matchFactor                                                             *)

LegacyCandidates(q, C) ==
    {f \in C : /\ f.kind = "legacy" /\ f.eligible
               /\ f.activity = q.activity /\ unitsCompatible(q.unit, f.unit)
               /\ YearOf(f) <= q.year}

(* (Mistake: the setting of the organization is not asked.)                *)
Reviewed_PilotOnly(f, q) ==
    \/ f.status \in {"VERIFIED", "OFFICIAL"}
    \/ f.confidence = 1 /\ q.activity = Electricity /\ f.system

(* A draft counts when it is a demo factor and these are allowed, or the   *)
(* system's pilot factor for electricity.                                  *)
Reviewed(f, q) ==
    \/ f.status \in {"VERIFIED", "OFFICIAL"}
    \/ f.confidence = 1 /\ (q.allowDemo \/ (q.activity = Electricity /\ f.system))

GovernedCandidates(q, C) ==
    {f \in C : /\ f.kind = "governed" /\ f.eligible /\ f.live
               /\ f.activity = q.activity /\ unitsCompatible(q.unit, f.unit)
               /\ Reviewed(f, q)}

OfYear(S, q) == {f \in S : f.year = q.year}
Local(S, q) == {f \in S : regionMatchesExactly(f, q)}

CountryWide(S, q) ==
    {f \in S : q.activity \in Fallback /\ isCountryLevel(f) /\ countryMatches(f, q)}

Defaults(S) == {f \in S : ~ f.own}
Verified(S, q) == {f \in S : f.verified /\ countryMatches(f, q)}

(* (Mistake: the latest year there is a factor of is chosen first, and     *)
(* then who applies.)                                                      *)
PriorYear_YearFirst(S, q) ==
    LET last == Latest({f \in S : f.year # NoYear /\ f.year < q.year})
    IN  Best(Local(last, q) \cup CountryWide(last, q))

PriorYear(S, q) ==
    LET past == {f \in S : f.year # NoYear /\ f.year < q.year}
    IN  Best(Latest(Local(past, q) \cup CountryWide(past, q)))

NearestYear(S, q) == Best(Nearest(Local(S, q) \cup CountryWide(S, q), q))

(* isPlaceholderFactor is asked of electricity only.                       *)
AnyDefault(S, q) ==
    {f \in Local(Defaults(S), q) :
        q.activity = Electricity /\ Region(f) = ProvinceRequired => q.allowDemo}

(* The only rung that does not ask for the place: electricity does, and    *)
(* other activities may use what is of another country.                    *)
Demo(S, q) ==
    {f \in Defaults(S) : /\ q.allowDemo
                         /\ IF q.activity = Electricity THEN regionMatchesExactly(f, q)
                            ELSE q.activity \in Fallback}

Ladder(q, C) ==
    LET L == LegacyCandidates(q, C)
        G == GovernedCandidates(q, C)
        own == {f \in L : f.own}
        year == {f \in OfYear(G, q) : countryMatches(f, q)}
        verified == Verified(Defaults(L), q)
        wide == {f \in Defaults(L) : q.activity \in Fallback /\ isCountryLevel(f)}
    IN  << [by |-> "CUSTOM", found |-> First(Latest(Local(Verified(own, q), q)))],
           [by |-> "EXACT_REGION_YEAR", found |-> Best(Local(year, q))],
           [by |-> "COUNTRY_YEAR", found |-> Best(CountryWide(OfYear(G, q), q))],
           [by |-> "PRIOR_YEAR", found |-> PriorYear(G, q)],
           [by |-> "NEAREST_YEAR", found |-> NearestYear(G, q)],
           [by |-> "VERIFIED_REGION", found |-> First(Latest(Local(verified, q)))],
           [by |-> "VERIFIED_COUNTRY", found |-> First(Latest(CountryWide(verified, q)))],
           [by |-> "DEFAULT_REGION", found |-> First(Latest(AnyDefault(L, q)))],
           [by |-> "DEFAULT_COUNTRY", found |-> First(Latest(wide))],
           [by |-> "PLACEHOLDER", found |-> First(Latest(Demo(L, q)))] >>

NoMatch == [by |-> "NO_MATCH", found |-> {}]

(* The first rung that holds a factor.                                     *)
FirstFound(ladder) ==
    LET hits == {i \in DOMAIN ladder : ladder[i].found # {}}
    IN  IF hits = {} THEN NoMatch
        ELSE ladder[CHOOSE i \in hits : \A j \in hits : i <= j]

matchFactor(q, C) == FirstFound(Ladder(q, C))

-----------------------------------------------------------------------------
(* buildFactorSelectionMetadata.  A factor chosen by PRIOR_YEAR is not     *)
(* said to be a demo factor, whatever it is.                               *)

PilotDefault(m, f) ==
    \/ m.by \in {"EXACT_REGION_YEAR", "COUNTRY_YEAR", "NEAREST_YEAR"} /\ f.confidence = 1
    \/ m.by \in {"DEFAULT_REGION", "DEFAULT_COUNTRY"} /\ f.placeholder
    \/ m.by = "PLACEHOLDER"

(* usedGenericFallback                                                     *)
ToldWider(q, f) ==
    CountryLevel(ToldRegion(f), Country(f)) /\ ~ CountryLevel(q.region, q.country)

(* (Mistake: only the prior-year rung is a fallback to another year.)      *)
Reason_ByRung(q, m, f) ==
    IF PilotDefault(m, f) THEN "PILOT_DEFAULT_FALLBACK"
    ELSE IF ToldWider(q, f) THEN "GENERIC_JURISDICTION_FALLBACK"
    ELSE IF m.by = "PRIOR_YEAR" THEN "PRIOR_YEAR_FALLBACK"
    ELSE "EXACT_MATCH"

Reason(q, m, f) ==
    IF PilotDefault(m, f) THEN "PILOT_DEFAULT_FALLBACK"
    ELSE IF ToldWider(q, f) THEN "GENERIC_JURISDICTION_FALLBACK"
    ELSE IF f.year # NoYear /\ f.year < q.year THEN "PRIOR_YEAR_FALLBACK"
    ELSE IF m.by = "NEAREST_YEAR" THEN "NEAREST_YEAR_PROXY"
    ELSE "EXACT_MATCH"

-----------------------------------------------------------------------------
(* getApplicableFactor: the unit has to be the very unit, the country is   *)
(* asked for everywhere, the status ranks the other way round, and no year *)
(* but the record's and the ones before it will do.                        *)

CatalogRank(f) == CASE f.status = "VERIFIED" -> 5 [] f.status = "OFFICIAL" -> 4 [] OTHER -> 3

CatalogBest(S) ==
    {f \in S : \A g \in S \ {f} :
        \/ CatalogRank(f) > CatalogRank(g)
        \/ CatalogRank(f) = CatalogRank(g) /\ f.updated > g.updated}

CatalogGoverned(q, C) ==
    {f \in C : /\ f.kind = "governed" /\ f.eligible /\ f.live
               /\ f.activity = q.activity /\ f.unit = q.unit /\ countryMatches(f, q)
               /\ \/ f.status \in {"VERIFIED", "OFFICIAL"}
                  \/ q.allowDemo /\ f.confidence = 1}

CatalogLegacy(q, C) ==
    {f \in C : f.kind = "legacy" /\ f.eligible /\ f.activity = q.activity /\ f.unit = q.unit}

SameYear(f, q) == f.year \in {NoYear, q.year}

(* regionCompatibleForActivity                                             *)
RegionCompatible(f, q) ==
    \/ regionMatchesExactly(f, q)
    \/ q.activity # Electricity /\ Region(f) \in {NoPlace, Canada}

CatalogLadder(q, C) ==
    LET L == CatalogLegacy(q, C)
        G == CatalogGoverned(q, C)
        past == {f \in G : f.year # NoYear /\ f.year < q.year}
        wide(S) == {f \in S : q.activity \in CatalogFallback /\ isCountryLevel(f)}
    IN  << [by |-> "CUSTOM",
            found |-> First({f \in L : /\ f.own /\ f.verified /\ SameYear(f, q)
                                       /\ countryMatches(f, q) /\ RegionCompatible(f, q)})],
           [by |-> "EXACT_REGION_YEAR", found |-> CatalogBest(Local(OfYear(G, q), q))],
           [by |-> "COUNTRY_YEAR", found |-> CatalogBest(wide(OfYear(G, q)))],
           [by |-> "PRIOR_YEAR", found |-> CatalogBest(Latest(Local(past, q) \cup wide(past)))],
           [by |-> "DEFAULT",
            found |-> First({f \in Defaults(L) :
                /\ SameYear(f, q)
                /\ IF q.activity = Electricity THEN regionMatchesExactly(f, q)
                   ELSE q.activity \in CatalogFallback})] >>

getApplicableFactor(q, C) ==
    IF q.activity \in Tracked \/ (q.activity = Electricity /\ q.region = NoPlace) THEN NoMatch
    ELSE FirstFound(CatalogLadder(q, C))
=============================================================================
