--------------------------- MODULE MCMetricsSummary ---------------------------
(* MetricsSummary for TLC: factors of two provinces, of the country, of    *)
(* three years, in kWh and MWh, and records that tell them apart.          *)
EXTENDS MetricsSummary

CONSTANTS POWER, DIESEL, AIR, STEAM, WATER, kwh, mwh, liters, bushel,
          canada, alberta, ontario, required

MCActivities == {POWER, DIESEL, AIR, STEAM, WATER}
MCUnits == {kwh, mwh, liters, bushel}
MCKwhPer == [u \in {kwh, mwh} |-> IF u = kwh THEN 1 ELSE 1000]
MCPlaces == {canada, alberta, ontario, required}
MCSpellings == MCPlaces \cup {"AB", "Canada (Generic)", "", "null"}
MCNormal ==
    [s \in MCSpellings |-> CASE s = "AB" -> alberta [] s = "Canada (Generic)" -> canada
                             [] s \in {"", "null"} -> NoPlace [] OTHER -> s]

Version(activity, unit, region, year, status, confidence, updated, value) ==
    [kind |-> "governed", activity |-> activity, unit |-> unit, country |-> canada,
     region |-> region, year |-> year, status |-> status, confidence |-> confidence,
     system |-> status = "DRAFT", live |-> TRUE, eligible |-> TRUE,
     updated |-> updated, value |-> value]

Default(activity, unit, region, year, verified, updated, value) ==
    [kind |-> "legacy", activity |-> activity, unit |-> unit, country |-> "null",
     region |-> region, jurisdiction |-> "null", year |-> year, own |-> FALSE,
     verified |-> verified, preferred |-> FALSE, placeholder |-> ~ verified,
     eligible |-> TRUE, updated |-> updated, value |-> value]

Custom(activity, unit, region, year, verified, updated, value) ==
    [Default(activity, unit, region, year, verified, updated, value)
        EXCEPT !.own = TRUE, !.placeholder = FALSE]

Power == {Version(POWER, kwh, "AB", 3, "VERIFIED", 5, 1, 49),
          Version(POWER, mwh, alberta, 2, "OFFICIAL", 5, 2, 21235),
          Version(POWER, kwh, ontario, 3, "DRAFT", 1, 3, 4),
          Default(POWER, kwh, alberta, 2, FALSE, 4, 57),
          Default(POWER, kwh, required, NoYear, FALSE, 5, 10),
          Version(POWER, kwh, canada, 3, "OFFICIAL", 5, 6, 11)}
Diesel == {Version(DIESEL, liters, "Canada (Generic)", 3, "OFFICIAL", 5, 7, 268),
           Version(DIESEL, liters, alberta, 3, "VERIFIED", 4, 8, 270),
           Version(DIESEL, liters, alberta, 2, "VERIFIED", 5, 9, 269),
           Version(DIESEL, liters, ontario, 2, "OFFICIAL", 5, 10, 265),
           Version(DIESEL, liters, canada, 4, "DRAFT", 1, 11, 260),
           Default(DIESEL, liters, "null", NoYear, TRUE, 12, 266),
           Version(DIESEL, liters, ontario, 3, "DRAFT", 1, 21, 267),
           Default(DIESEL, liters, ontario, 2, TRUE, 13, 266)}
Other == {Version(AIR, liters, canada, 4, "VERIFIED", 4, 14, 250),
          Version(STEAM, kwh, canada, 3, "VERIFIED", 4, 15, 6)}
Customs == {Custom(POWER, kwh, alberta, NoYear, TRUE, 16, 1),
            Custom(DIESEL, liters, alberta, 3, TRUE, 17, 200000),
            Custom(DIESEL, liters, "null", 3, FALSE, 18, 272),
            [Custom(DIESEL, liters, "", 2, TRUE, 22, 274) EXCEPT !.jurisdiction = "AB"],
            Custom(DIESEL, liters, alberta, 2, TRUE, 23, 275)}

(* An old one of the place, a newer one of elsewhere, and one to come.     *)
Scattered == {Version(DIESEL, liters, alberta, 1, "VERIFIED", 5, 19, 264),
              Version(DIESEL, liters, ontario, 2, "OFFICIAL", 5, 10, 265),
              Version(DIESEL, liters, "AB", 4, "VERIFIED", 5, 20, 261)}

MCPool == Scattered \cup Power \cup Diesel \cup Other \cup Customs
MCCatalogues ==
    {{}} \cup {{f, g} : f, g \in Power} \cup {{f, g} : f, g \in Diesel}
         \cup {{f, g} : f, g \in Other} \cup {Scattered}

Nowhere == [country |-> NoPlace, region |-> NoPlace]
In(region) == [country |-> NoPlace, region |-> region]

Row(activity, unit, quantity, place, facility, hint) ==
    [activity |-> activity, unit |-> unit, quantity |-> quantity, year |-> 3, place |-> place,
     facility |-> facility, hint |-> hint, sourced |-> TRUE, costed |-> facility # Nowhere]

P1 == Row(POWER, kwh, 15000, In(alberta), In(ontario), ontario)
P2 == Row(POWER, mwh, 30, Nowhere, In(alberta), ontario)
P3 == Row(POWER, kwh, 15013, Nowhere, Nowhere, ontario)
P4 == Row(POWER, kwh, 10000, Nowhere, Nowhere, NoPlace)
P5 == Row(POWER, kwh, 5000, [country |-> canada, region |-> NoPlace], In(alberta), NoPlace)
P6 == Row(POWER, kwh, 5000, In(required), Nowhere, NoPlace)
D1 == Row(DIESEL, liters, 5, In(alberta), Nowhere, NoPlace)
D2 == Row(DIESEL, liters, 9994, Nowhere, In(ontario), NoPlace)
D3 == Row(DIESEL, bushel, 9990, In(ontario), Nowhere, NoPlace)
D4 == Row(DIESEL, liters, 0, In(ontario), Nowhere, NoPlace)
A1 == Row(AIR, liters, 7777, In(alberta), In(alberta), NoPlace)
S1 == Row(STEAM, kwh, 7771, In(alberta), Nowhere, NoPlace)
W1 == Row(WATER, liters, 7770, In(alberta), Nowhere, NoPlace)

MCRows == {P1, P2, P3, P4, P5, P6, D1, D2, D3, D4, A1, S1, W1}
ThreeOf == {<<P1, P2, P3>>, <<P4, P5, P6>>, <<D1, D2, A1>>, <<P2, S1, W1>>, <<D3, D4, P3>>}
MCTables == {[r \in Records |-> t[r]] : t \in ThreeOf}

MCOrganizations == {[place |-> In(ontario), allowDemo |-> TRUE],
                    [place |-> Nowhere, allowDemo |-> FALSE]}
=============================================================================
