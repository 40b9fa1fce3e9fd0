---------------------------- MODULE MetricsSummary ----------------------------
(***************************************************************************)
(* What becomes of the factors: CalculationQualityService.evaluate judges  *)
(* the records one by one.  Calculating a record (CalculationSnapshots-    *)
(* Service.fields) keeps the judgement; the summary of the organization    *)
(* (buildSummary) shows what was kept and adds it up.  Meanwhile custom    *)
(* factors come, change and go (ConversionFactorsService).                 *)
(*                                                                         *)
(* A summary is one action: its reads are of what it shows, and the        *)
(* evaluation that follows is synchronous.                                 *)
(*                                                                         *)
(* Quantities are in ten-thousandths, as they are stored; what round() has *)
(* rounded is in thousandths; factor values are in parts of 1 / Scale.     *)
(* Arithmetic is exact.                                                    *)
(***************************************************************************)
EXTENDS FactorSelection, Folds

CONSTANTS
    Records,
    Rows,             \* what a record may say
    Tables,           \* what the records say: functions from Records to Rows
    Catalogues,       \* governed versions and system defaults: subsets of Pool
    Organizations,
    Supported,        \* the units that are not refused
    Fuels,
    Scale,            \* a factor value is a number of 1 / Scale
    Scopes,           \* what queries choose: their ids, documents or dates
    MaxCustom,        \* bound: custom factors at a time
    MaxEdits,         \* bound: changes of the catalogue in a behaviour
    None

(* place: the jurisdiction the record was given; facility: the one of its  *)
(* facility; hint: the province its source text or notes are taken to      *)
(* name.  Each is of normalized names.                                     *)
Jurisdictions == [country : Places \cup {NoPlace}, region : Places \cup {NoPlace}]

ASSUME SummaryAssumption ==
    /\ Supported \subseteq Units /\ DOMAIN KwhPer \subseteq Supported
    /\ Fuels \subseteq Activities
    /\ Rows \subseteq [activity : Activities, unit : Units, quantity : Int, year : Nat,
                       place : Jurisdictions, facility : Jurisdictions,
                       hint : Places \cup {NoPlace}, sourced : BOOLEAN, costed : BOOLEAN]
    /\ Tables \subseteq [Records -> Rows]
    /\ Organizations \subseteq [place : Jurisdictions, allowDemo : BOOLEAN]
    /\ \A C \in Catalogues : C \subseteq {f \in Pool : f.kind = "legacy" => ~ f.own}
    /\ \A S \in Scopes : S \subseteq Records /\ IsFiniteSet(S)
    /\ Scale \in Nat \ {0}
    /\ MaxCustom \in Nat /\ MaxEdits \in Nat

VARIABLES
    catalogue,        \* FactorVersion and ConversionFactor, as far as they are read
    table,
    organization,
    stored,           \* ActivityData.calculationSnapshot: the detail, or None
    summary,          \* what the last summary showed, or None
    edits

vars == <<catalogue, table, organization, stored, summary, edits>>

-----------------------------------------------------------------------------
(* resolveActivityJurisdiction: the first that says anything, even if it   *)
(* names a country only; then the region is not looked for elsewhere.      *)

Says(j) == j # [country |-> NoPlace, region |-> NoPlace]
InCanada(j) == IF j.country = NoPlace THEN [j EXCEPT !.country = Canada] ELSE j

(* (Mistake: where the bill seems to come from before where it was used.)  *)
Jurisdiction_HintFirst(row) ==
    InCanada(IF row.hint # NoPlace THEN [country |-> Canada, region |-> row.hint]
             ELSE IF Says(row.place) THEN row.place
             ELSE IF Says(row.facility) THEN row.facility ELSE organization.place)

Jurisdiction(row) ==
    InCanada(IF Says(row.place) THEN row.place
             ELSE IF Says(row.facility) THEN row.facility
             ELSE IF row.hint # NoPlace THEN [country |-> Canada, region |-> row.hint]
             ELSE organization.place)

QueryOf(row) ==
    LET j == Jurisdiction(row)
    IN  [activity |-> row.activity, unit |-> row.unit, country |-> j.country,
         region |-> j.region, year |-> row.year, allowDemo |-> organization.allowDemo]

(* (Mistake: the remainder is dropped.)                                    *)
Rounded_Down(n, d) == n \div d

(* Math.round of n / d.                                                    *)
Rounded(n, d) == (2 * n + d) \div (2 * d)

(* From the record's unit to the factor's: n / d of it.                    *)
Multiplier(unit, f) ==
    IF unit = f.unit THEN [n |-> 1, d |-> 1] ELSE [n |-> KwhPer[unit], d |-> KwhPer[f.unit]]

(* The quantity in the unit of the factor, rounded in any case, and what   *)
(* comes of it.                                                            *)
Converted(quantity, unit, f) ==
    Rounded(quantity * Multiplier(unit, f).n, 10 * Multiplier(unit, f).d)

Emissions(quantity, unit, f) == Rounded(Converted(quantity, unit, f) * f.value, Scale)

Skipped(row, status) ==
    [activity |-> row.activity, unit |-> row.unit, quantity |-> row.quantity,
     status |-> status, emissions |-> 0, factor |-> None, by |-> "", reason |-> "",
     region |-> IF status \in {"INVALID_QUANTITY", "INVALID_UNIT"} THEN NoPlace
                ELSE Jurisdiction(row).region]

Calculated(row, q, m) ==
    LET f == CHOOSE f \in m.found : TRUE
    IN  [activity |-> row.activity, unit |-> row.unit, quantity |-> row.quantity,
         status |-> "CALCULATED", emissions |-> Emissions(row.quantity, row.unit, f),
         factor |-> f, by |-> m.by, reason |-> Reason(q, m, f), region |-> q.region]

(* The checks that come before the factor, in their order.                 *)
Refusal(row) ==
    IF row.quantity <= 0 THEN "INVALID_QUANTITY"
    ELSE IF row.unit \notin Supported THEN "INVALID_UNIT"
    ELSE IF row.activity \in Tracked THEN "TRACKED_ONLY"
    ELSE IF row.activity = Electricity /\ Jurisdiction(row).region = NoPlace
         THEN "MISSING_JURISDICTION"
    ELSE "NONE"

(* evaluate with recalculate: from the catalogue, whatever was kept.       *)
Evaluated(row, C) ==
    LET q == QueryOf(row)
        m == matchFactor(q, C)
    IN  IF Refusal(row) # "NONE" THEN Skipped(row, Refusal(row))
        ELSE IF m.found = {} THEN Skipped(row, "MISSING_FACTOR")
        ELSE Calculated(row, q, m)

(* evaluate with persistedOnly: what was kept, and never the catalogue.    *)
(* (Mistake: what was not kept is calculated now.)                         *)
Shown_Live(r) == IF stored[r] # None THEN stored[r] ELSE Evaluated(table[r], catalogue)

Shown(r) ==
    IF stored[r] # None THEN stored[r]
    ELSE IF Refusal(table[r]) # "NONE" THEN Skipped(table[r], Refusal(table[r]))
    ELSE Skipped(table[r], "MISSING_FACTOR")

-----------------------------------------------------------------------------
(* The summary of the details D of the records in scope.                   *)

AddUp(f) ==
    MapThenFoldSet(LAMBDA a, b : a + b, 0, LAMBDA x : f[x],
                   LAMBDA S : CHOOSE x \in S : TRUE, DOMAIN f)

With(D, status) == {r \in DOMAIN D : D[r].status \in status}
Emitted(D, X) == AddUp([r \in X |-> D[r].emissions])

(* buildCategoryBreakdown, and buildHotspotSummary's categoryTotals.       *)
Categories(D) ==
    [a \in {D[r].activity : r \in DOMAIN D} |->
        LET of == {r \in DOMAIN D : D[r].activity = a}
            done == of \cap With(D, {"CALCULATED"})
        IN  [records |-> Cardinality(of), calculated |-> Cardinality(done),
             skipped |-> Cardinality(of \ done), emissions |-> Emitted(D, done)]]

(* mapHotspotExcludedReason                                                *)
ExcludedReason(status) ==
    IF status \in {"MISSING_FACTOR", "INVALID_UNIT", "TRACKED_ONLY", "MISSING_JURISDICTION"}
    THEN status ELSE "NEEDS_REVIEW"

(* buildExcludedHotspotCategories                                          *)
Excluded(D) ==
    LET out == DOMAIN D \ With(D, {"CALCULATED"})
        Key(r) == <<D[r].activity, ExcludedReason(D[r].status)>>
    IN  [k \in {Key(r) : r \in out} |-> Cardinality({r \in out : Key(r) = k})]

(* getHotspotLevel of the rounded percentage, in thousandths of a percent. *)
Share(emissions, total) == IF total = 0 THEN 0 ELSE Rounded(emissions * 100000, total)

Level(share) == IF share >= 40000 THEN "HIGH" ELSE IF share >= 15000 THEN "MEDIUM" ELSE "LOW"

Hotspots(D) ==
    LET categories == Categories(D)
        total == Emitted(D, With(D, {"CALCULATED"}))
        hot == {a \in DOMAIN categories : categories[a].emissions > 0}
    IN  [a \in hot |-> [share |-> Share(categories[a].emissions, total),
                        level |-> Level(Share(categories[a].emissions, total))]]

(* buildUsageTotals: what was consumed, with or without a factor for it;   *)
(* the running total is rounded, hence every quantity that is added to it. *)
Consumed(D) == {r \in With(D, {"CALCULATED", "MISSING_FACTOR"}) : D[r].quantity > 0}

Usage(D) ==
    LET fuel == {r \in Consumed(D) : D[r].activity \in Fuels}
        power == {r \in Consumed(D) : D[r].activity = Electricity /\ D[r].unit \in DOMAIN KwhPer}
    IN  [fuel |-> [k \in {<<D[r].activity, D[r].unit>> : r \in fuel} |->
                     LET alike == {r \in fuel : <<D[r].activity, D[r].unit>> = k}
                     IN  AddUp([r \in alike |-> Rounded(D[r].quantity, 10)])],
         electricity |-> AddUp([r \in power |->
                                  Rounded(D[r].quantity * KwhPer[D[r].unit], 10)])]

(* uniqueFactors                                                           *)
FactorsUsed(D) ==
    LET done == With(D, {"CALCULATED"})
    IN  [f \in {D[r].factor : r \in done} |-> Cardinality({r \in done : D[r].factor = f})]

(* buildDataQualitySummary.  coverage: thousandths of a percent.           *)
Coverage(n, total) == IF total = 0 THEN 0 ELSE Rounded(n * 100000, total)

Score(complete, done, placed, sourced, costed, total) ==
    Rounded(40 * Coverage(complete, total) + 30 * Coverage(done, total)
            + 15 * Coverage(placed, total) + 10 * Coverage(sourced, total)
            + 5 * Coverage(costed, total), 100)

Readiness(D) ==
    LET all == DOMAIN D
        complete == {r \in all : D[r].quantity > 0 /\ D[r].status # "INVALID_UNIT"}
        placed == {r \in all : D[r].activity = Electricity => D[r].region # NoPlace}
        score == Score(Cardinality(complete), Cardinality(With(D, {"CALCULATED"})),
                       Cardinality(placed), Cardinality({r \in all : table[r].sourced}),
                       Cardinality({r \in all : table[r].costed}), Cardinality(all))
    IN  IF score >= 80000 THEN "Good" ELSE IF score >= 50000 THEN "Needs Review" ELSE "Incomplete"

(* The counts of the response.                                             *)
SkippedReasons(D) ==
    [missingFactor |-> Cardinality(With(D, {"MISSING_FACTOR"})),
     invalidData |-> Cardinality(With(D, {"INVALID_QUANTITY", "INVALID_UNIT",
                                          "MISSING_JURISDICTION"})),
     trackedOnly |-> Cardinality(With(D, {"TRACKED_ONLY"}))]

SummaryOf(D) ==
    [scope |-> DOMAIN D, calculated |-> Cardinality(With(D, {"CALCULATED"})),
     total |-> Emitted(D, With(D, {"CALCULATED"})), skipped |-> SkippedReasons(D),
     categories |-> Categories(D), hotspots |-> Hotspots(D), excluded |-> Excluded(D),
     usage |-> Usage(D), factors |-> FactorsUsed(D), readiness |-> Readiness(D)]

-----------------------------------------------------------------------------
Init ==
    /\ catalogue \in Catalogues
    /\ table \in Tables
    /\ organization \in Organizations
    /\ stored = [r \in Records |-> None]
    /\ summary = None
    /\ edits = 0

Kept(detail) == IF detail.status = "CALCULATED" THEN detail ELSE None

(* fields: a quantity that is not positive is refused; what could not be   *)
(* calculated loses the result it had.                                     *)
CalculateRecord(r) ==
    /\ table[r].quantity > 0
    /\ stored' = [stored EXCEPT ![r] = Kept(Evaluated(table[r], catalogue))]
    /\ UNCHANGED <<catalogue, table, organization, summary, edits>>

(* buildSummary of the records in scope.                                   *)
Summarize(S) ==
    /\ summary' = SummaryOf([r \in S |-> Shown(r)])
    /\ UNCHANGED <<catalogue, table, organization, stored, edits>>

Own(C) == {f \in C : f.kind = "legacy" /\ f.own}

Catalogued(C) ==
    /\ edits < MaxEdits
    /\ catalogue' = C
    /\ edits' = edits + 1
    /\ UNCHANGED <<table, organization, stored, summary>>

(* ConversionFactorsService.create, update and remove.  ensureEditable     *)
(* lets an organization change what is its own, and no system default.     *)
CreateCustom(f) ==
    /\ f \notin catalogue
    /\ Cardinality(Own(catalogue)) < MaxCustom
    /\ Catalogued(catalogue \cup {f})

UpdateCustom(f, g) ==
    /\ f \in Own(catalogue) /\ g \notin catalogue
    /\ Catalogued((catalogue \ {f}) \cup {g})

RemoveCustom(f) ==
    /\ f \in Own(catalogue)
    /\ Catalogued(catalogue \ {f})

Next ==
    \/ \E r \in Records : CalculateRecord(r)
    \/ \E S \in Scopes : Summarize(S)
    \/ \E f \in Own(Pool) : CreateCustom(f) \/ RemoveCustom(f)
    \/ \E f, g \in Own(Pool) : UpdateCustom(f, g)

Spec == Init /\ [][Next]_vars

-----------------------------------------------------------------------------
TypeOK ==
    /\ catalogue \subseteq Pool
    /\ table \in Tables
    /\ organization \in Organizations
    /\ DOMAIN stored = Records
    /\ \A r \in Records : stored[r] # None =>
          stored[r].status = "CALCULATED" /\ stored[r].factor \in Pool
    /\ edits \in 0..MaxEdits

(* "Electricity factors must be jurisdiction-specific": electricity is     *)
(* calculated with a factor of the region it was used in -- the record's   *)
(* own, else its facility's -- whatever the catalogue holds, whatever the  *)
(* text of the bill names and wherever the organization is.                *)
ElectricityStaysLocal ==
    \A r \in Records : stored[r] # None /\ table[r].activity = Electricity =>
        LET row == table[r]
            used == IF Says(row.place) THEN row.place ELSE row.facility
        IN  /\ Region(stored[r].factor) # NoPlace
            /\ Says(used) => Region(stored[r].factor) = used.region

(* A result is off by half a thousandth and, if the quantity in the unit   *)
(* of the factor is no whole number of thousandths, by half a thousandth   *)
(* of that unit times the factor's value: rounding the quantity first is   *)
(* no better than that, converted or not.                                  *)
RoundingIsBounded ==
    \A r \in Records : stored[r] # None =>
        LET f == stored[r].factor
            m == Multiplier(table[r].unit, f)
            quantity == table[r].quantity * m.n
            unit == 10 * m.d
            error == 2 * stored[r].emissions * unit * Scale - 2 * quantity * f.value
            bound == unit * Scale + (IF quantity % unit = 0 THEN 0 ELSE unit * f.value)
        IN  -bound <= error /\ error <= bound

(* What a record would be calculated with.                                 *)
Chosen(r, C) == matchFactor(QueryOf(table[r]), C).found

(* One factor more changes what a record is calculated with to that very   *)
(* factor, or not at all: it never makes another one win.                  *)
ChoiceIgnoresTheRest ==
    \A r \in Records : \A f \in catalogue :
        Chosen(r, catalogue) \in {Chosen(r, catalogue \ {f}), {f}}

(* Where the catalogue's own ladder (getApplicableFactor) offers a         *)
(* governed version, a record of the same query is calculated, and not     *)
(* with a system default that nobody governs.                              *)
OfferedIsCalculated ==
    \A r \in Records :
        LET q == QueryOf(table[r])
            offer == getApplicableFactor(q, catalogue)
            match == matchFactor(q, catalogue)
        IN  offer.by \in {"EXACT_REGION_YEAR", "COUNTRY_YEAR", "PRIOR_YEAR"} =>
                \E f \in match.found : f.kind = "governed" \/ f.own

(* What a record is told about its factor was so when it was calculated.   *)
(* First what it is never told: an organization's own verified factor of   *)
(* the place, of whatever year, goes before everything, and any governed   *)
(* version that can be used goes before the system's defaults.  So "No     *)
(* exact factor was available" is not said of all there was, but only      *)
(*  - of the governed versions, when one of them was chosen: a factor of   *)
(*    the country passed over none of the place and year, one of a prior   *)
(*    year none of the year, one of a later year none of an earlier one;   *)
(*  - of the factors that are like the one chosen, when it is the          *)
(*    organization's own or a default: the same owner and place, and       *)
(*    verified if it is; and a default of the country passed over none of  *)
(*    the place.  (A factor whose region is the empty text and which is of *)
(*    the place by its jurisdiction is told to be of the country.)         *)
(* What is called exact is neither a draft nor of a wider place nor, when  *)
(* it says so, of another year before the record's.                        *)
Explained(r, detail, C) ==
    LET q == QueryOf(table[r])
        G == GovernedCandidates(q, C)
        L == LegacyCandidates(q, C)
        f == detail.factor
        governed == f.kind = "governed"
        usable == Local(G, q) \cup CountryWide(G, q)
        here == {g \in usable : countryMatches(g, q)}
        own == {g \in L : g.own}
        defaults == {g \in Defaults(L) : countryMatches(g, q) /\ (f.verified => g.verified)}
        alike == {g \in L : /\ g.own = f.own /\ (f.verified => g.verified)
                            /\ Region(g) = Region(f) /\ Country(g) = Country(f)}
    IN  /\ governed \/ ~ f.own => Local(Verified(own, q), q) = {}
        /\ ~ governed /\ ~ f.own => usable = {}
        /\ detail.reason = "GENERIC_JURISDICTION_FALLBACK" /\ ~ regionMatchesExactly(f, q) =>
              /\ governed /\ f.year = q.year =>
                    Local({g \in OfYear(G, q) : countryMatches(g, q)}, q) = {}
              /\ ~ governed => ~ f.own /\ Local(defaults, q) = {}
        /\ detail.reason = "PRIOR_YEAR_FALLBACK" =>
              /\ governed => OfYear(here, q) = {}
              /\ ~ governed => OfYear(alike, q) = {}
        /\ detail.reason = "NEAREST_YEAR_PROXY" =>
              \A g \in here : g.year = NoYear \/ g.year > q.year
        /\ detail.reason = "EXACT_MATCH" =>
              /\ governed => f.status # "DRAFT"
              /\ isCountryLevel(f) => CountryLevel(q.region, q.country)
              /\ f.year \in {NoYear, q.year}

ExplanationHolds ==
    [][\A r \in Records : stored'[r] \notin {stored[r], None} =>
          Explained(r, stored'[r], catalogue)]_vars

(* What a summary adds up are the kept results of its scope, all of them   *)
(* and nothing else.                                                       *)
ShowsResults(shown) ==
    LET kept == {r \in shown.scope : stored[r] # None}
    IN  /\ shown.calculated = Cardinality(kept)
        /\ shown.total = Emitted(stored, kept)
        /\ \A f \in DOMAIN shown.factors :
               shown.factors[f] = Cardinality({r \in kept : stored[r].factor = f})

(* Every record in scope is counted once: as calculated or under one       *)
(* reason for being skipped, in its category and, if skipped, among the    *)
(* excluded; and the categories add up to the total.                       *)
CountsOnce(shown) ==
    LET categories == shown.categories
        inScope == Cardinality(shown.scope)
    IN  /\ shown.calculated + AddUp(shown.skipped) = inScope
        /\ shown.calculated + AddUp(shown.excluded) = inScope
        /\ AddUp([a \in DOMAIN categories |-> categories[a].emissions]) = shown.total

(* What was consumed does not depend on what has been calculated.          *)
MeasuresUsage(shown) ==
    shown.usage = Usage([r \in shown.scope |->
        IF Refusal(table[r]) = "NONE" THEN Skipped(table[r], "MISSING_FACTOR")
        ELSE Skipped(table[r], Refusal(table[r]))])

(* "Historical projection uses persisted data only.  Never dereference the *)
(* live factor library": a summary shows the kept results, each counted    *)
(* once, also when the custom factor they were calculated with has been    *)
(* changed or removed since; and the usage it shows is what was consumed,  *)
(* with or without a factor for it.                                        *)
SummaryHolds ==
    [][summary' # summary =>
          /\ ShowsResults(summary') /\ CountsOnce(summary') /\ MeasuresUsage(summary')]_vars
=============================================================================
