---------------------------- MODULE SummaryProofs ----------------------------
(***************************************************************************)
(* Theorems about what MetricsSummary keeps of a calculation: the kept     *)
(* result is the judgement of its record with its factor, rounding twice   *)
(* is off by no more than it has to be, and the reason a record was told   *)
(* was so; and about the summary: its sums are of the kept results, each   *)
(* record counted once.                                                    *)
(***************************************************************************)
EXTENDS SelectionProofs, FunctionTheorems

-----------------------------------------------------------------------------
(* A calculated judgement: a factor some rung searched for, no rung before *)
(* it holding one, and the emissions that follow.                          *)
LEMMA JudgedAtARung ==
  ASSUME NEW row, NEW C, Evaluated(row, C).status = "CALCULATED"
  PROVE  LET q == QueryOf(row)
             e == Evaluated(row, C)
         IN  /\ Refusal(row) = "NONE"
             /\ e.activity = row.activity /\ e.unit = row.unit /\ e.quantity = row.quantity
             /\ e.emissions = Emissions(row.quantity, row.unit, e.factor)
             /\ \E i \in 1..10 :
                   /\ e.factor \in Ladder(q, C)[i].found
                   /\ e.factor \in Searched(q, C)[i]
                   /\ e.reason = Reason(q, Ladder(q, C)[i], e.factor)
                   /\ \A j \in 1..10 : j < i => Ladder(q, C)[j].found = {}
<1> DEFINE q == QueryOf(row)
           m == matchFactor(q, C)
           f == CHOOSE f \in m.found : TRUE
           e == Evaluated(row, C)
<1>1. ASSUME NEW why, why # "CALCULATED"
      PROVE  Skipped(row, why).status # "CALCULATED"
  BY <1>1 DEF Skipped
<1>2. Refusal(row) # "CALCULATED"
  BY DEF Refusal
<1>3. Refusal(row) = "NONE" /\ m.found # {} /\ e = Calculated(row, q, m)
  BY <1>1, <1>2 DEF Evaluated
<1>4. /\ e.factor = f /\ e.reason = Reason(q, m, f)
      /\ e.emissions = Emissions(row.quantity, row.unit, f)
      /\ e.activity = row.activity /\ e.unit = row.unit /\ e.quantity = row.quantity
  BY <1>3 DEF Calculated
<1>5. f \in m.found
  BY <1>3
<1> HIDE DEF q, f, e
<1>6. m # NoMatch
  BY <1>5 DEF NoMatch
<1>7. PICK i \in 1..10 : /\ m = Ladder(q, C)[i]
                         /\ \A j \in 1..10 : j < i => Ladder(q, C)[j].found = {}
  BY <1>6, FirstRung
<1>8. f \in Searched(q, C)[i]
  BY <1>5, <1>7, RungIsTaken, TakenIsSearched
<1> QED BY <1>3, <1>4, <1>5, <1>7, <1>8 DEF q, e

(* What is kept of a record is its judgement with the kept factor.         *)
KeptInv ==
    /\ LocalInv
    /\ \A r \in Records : stored[r] # None =>
          /\ stored[r].activity = table[r].activity
          /\ stored[r].unit = table[r].unit
          /\ stored[r].quantity = table[r].quantity
          /\ stored[r].emissions = Emissions(table[r].quantity, table[r].unit, stored[r].factor)
          /\ unitsCompatible(table[r].unit, stored[r].factor.unit)
          /\ Refusal(table[r]) = "NONE"

LEMMA KeptInvInit == Init => KeptInv
<1> SUFFICES ASSUME Init PROVE KeptInv
  OBVIOUS
<1>1. LocalInv
  BY LocalInvInit
<1>2. \A r \in Records : stored[r] = None
  BY DEF Init
<1> QED BY <1>1, <1>2 DEF KeptInv

(* Candidates have a unit the record's converts into.                      *)
LEMMA SearchedIsConvertible ==
  ASSUME NEW q, NEW C, NEW i \in 1..10, NEW f \in Searched(q, C)[i]
  PROVE  unitsCompatible(q.unit, f.unit)
<1>1. f \in GovernedCandidates(q, C) \/ f \in LegacyCandidates(q, C)
  BY SearchedIsCandidate
<1> QED BY <1>1 DEF GovernedCandidates, LegacyCandidates

(* The table and the organization do not change, nor what depends on them. *)
LEMMA QuestionsStay ==
  ASSUME [Next]_vars
  PROVE  /\ UNCHANGED <<table, organization>>
         /\ \A row : Jurisdiction(row)' = Jurisdiction(row)
         /\ \A row : Refusal(row)' = Refusal(row)
<1>1. UNCHANGED <<table, organization>>
  BY DEF Next, vars, CalculateRecord, Summarize, CreateCustom, UpdateCustom, RemoveCustom,
         Catalogued
<1>2. \A row : Jurisdiction(row)' = Jurisdiction(row)
  BY <1>1 DEF Jurisdiction
<1> QED BY <1>1, <1>2 DEF Refusal

(* A step keeps the results there are, or calculates one record.           *)
LEMMA OneIsCalculated ==
  ASSUME [Next]_vars, LocalInv, NEW r \in Records, stored'[r] \notin {stored[r], None}
  PROVE  /\ stored'[r] = Evaluated(table[r], catalogue)
         /\ stored'[r].status = "CALCULATED"
<1>1. CASE \E s \in Records : CalculateRecord(s)
  <2>1. PICK s \in Records : CalculateRecord(s)
    BY <1>1
  <2>2. stored' = [stored EXCEPT ![s] = Kept(Evaluated(table[s], catalogue))]
    BY <2>1 DEF CalculateRecord
  <2>3. r = s /\ stored'[r] = Kept(Evaluated(table[r], catalogue))
    BY <2>2 DEF LocalInv, TypeOK
  <2> QED BY <2>3 DEF Kept
<1>2. CASE UNCHANGED stored
  BY <1>2
<1>3. (\E s \in Records : CalculateRecord(s)) \/ UNCHANGED stored
  BY DEF Next, vars, Summarize, CreateCustom, UpdateCustom, RemoveCustom, Catalogued
<1> QED BY <1>1, <1>2, <1>3

LEMMA KeptInvStep == KeptInv /\ [Next]_vars => KeptInv'
<1> SUFFICES ASSUME KeptInv, [Next]_vars PROVE KeptInv'
  OBVIOUS
<1>1. LocalInv'
  BY LocalInvStep DEF KeptInv
<1>2. /\ UNCHANGED table
      /\ \A row : Refusal(row)' = Refusal(row)
  BY QuestionsStay
<1>3. ASSUME NEW r \in Records, stored'[r] # None
      PROVE  /\ stored'[r].activity = table[r].activity
             /\ stored'[r].unit = table[r].unit
             /\ stored'[r].quantity = table[r].quantity
             /\ stored'[r].emissions
                  = Emissions(table[r].quantity, table[r].unit, stored'[r].factor)
             /\ unitsCompatible(table[r].unit, stored'[r].factor.unit)
             /\ Refusal(table[r]) = "NONE"
  <2>1. CASE stored'[r] = stored[r]
    BY <1>3, <2>1 DEF KeptInv
  <2>2. CASE stored'[r] # stored[r]
    <3>1. /\ stored'[r] = Evaluated(table[r], catalogue)
          /\ stored'[r].status = "CALCULATED"
      BY <1>3, <2>2, OneIsCalculated DEF KeptInv
    <3>2. PICK i \in 1..10 : stored'[r].factor \in Searched(QueryOf(table[r]), catalogue)[i]
      BY <3>1, JudgedAtARung
    <3>3. QueryOf(table[r]).unit = table[r].unit
      BY DEF QueryOf
    <3>4. unitsCompatible(table[r].unit, stored'[r].factor.unit)
      BY <3>2, <3>3, SearchedIsConvertible
    <3> QED BY <3>1, <3>4, JudgedAtARung
  <2> QED BY <2>1, <2>2
<1> QED BY <1>1, <1>2, <1>3 DEF KeptInv

-----------------------------------------------------------------------------
(* Rounding.                                                               *)

LEMMA Division ==
  ASSUME NEW a \in Int, NEW b \in Nat \ {0}
  PROVE  a \div b \in Int /\ (a \div b) * b <= a /\ a < (a \div b) * b + b
OBVIOUS

(* Math.round is off by half, at most.                                     *)
LEMMA RoundedIsNear ==
  ASSUME NEW n \in Int, NEW d \in Nat \ {0}
  PROVE  /\ Rounded(n, d) \in Int
         /\ -d <= 2 * d * Rounded(n, d) - 2 * n
         /\ 2 * d * Rounded(n, d) - 2 * n <= d
<1> DEFINE k == (2 * n + d) \div (2 * d)
<1>1. 2 * n + d \in Int /\ 2 * d \in Nat \ {0}
  OBVIOUS
<1>2. k \in Int /\ k * (2 * d) <= 2 * n + d /\ 2 * n + d < k * (2 * d) + 2 * d
  BY <1>1, Division
<1> HIDE DEF k
<1>3. k * (2 * d) = 2 * d * k
  BY <1>2
<1> QED BY <1>2, <1>3 DEF k, Rounded

(* What divides evenly is not changed by it.                               *)
LEMMA RoundedIsExact ==
  ASSUME NEW n \in Int, NEW d \in Nat \ {0}, n % d = 0
  PROVE  Rounded(n, d) * d = n
<1> DEFINE k == n \div d
           c == Rounded(n, d)
<1>1. k \in Int /\ n = d * k
  OBVIOUS
<1>2. c \in Int /\ -d <= 2 * d * c - 2 * n /\ 2 * d * c - 2 * n <= d
  BY RoundedIsNear
<1> HIDE DEF k, c
<1>3. 2 * d * c - 2 * n = 2 * d * (c - k) /\ c - k \in Int
  BY <1>1, <1>2
<1>4. ~ (c - k >= 1)
  <2>1. c - k >= 1 => 2 * d * (c - k) >= 2 * d
    BY <1>1, <1>2
  <2> QED BY <1>2, <1>3, <2>1
<1>5. ~ (c - k <= -1)
  <2>1. c - k <= -1 => 2 * d * (c - k) <= -(2 * d)
    BY <1>1, <1>2
  <2> QED BY <1>2, <1>3, <2>1
<1>6. c = k
  BY <1>1, <1>2, <1>4, <1>5
<1> QED BY <1>1, <1>6 DEF c

(* The errors of the two roundings: the first of them, if there is any, is *)
(* multiplied by the factor.                                               *)
LEMMA TwiceRounded ==
  ASSUME NEW a \in Int, NEW unit \in Nat \ {0}, NEW v \in Nat, NEW s \in Nat \ {0}
  PROVE  LET e == Rounded(Rounded(a, unit) * v, s)
             error == 2 * e * unit * s - 2 * a * v
             bound == unit * s + (IF a % unit = 0 THEN 0 ELSE unit * v)
         IN  e \in Int /\ -bound <= error /\ error <= bound
<1> DEFINE c == Rounded(a, unit)
           e == Rounded(c * v, s)
           x == 2 * unit * c - 2 * a
           y == 2 * s * e - 2 * (c * v)
           error == 2 * e * unit * s - 2 * a * v
<1>1. c \in Int /\ -unit <= x /\ x <= unit /\ x \in Int
  BY RoundedIsNear
<1>2. c * v \in Int
  BY <1>1
<1>3. e \in Int /\ -s <= y /\ y <= s
  <2> DEFINE w == c * v
  <2>1. w \in Int
    BY <1>2
  <2> HIDE DEF w
  <2>2. /\ Rounded(w, s) \in Int
        /\ -s <= 2 * s * Rounded(w, s) - 2 * w /\ 2 * s * Rounded(w, s) - 2 * w <= s
    BY <2>1, RoundedIsNear
  <2> QED BY <2>2 DEF w
<1>4. a % unit = 0 => x = 0
  <2>1. ASSUME a % unit = 0
        PROVE  c * unit = a
    BY <2>1, RoundedIsExact
  <2> HIDE DEF c
  <2> QED BY <1>1, <2>1
<1> HIDE DEF c, e
<1>5. error = unit * y + v * x
  BY <1>1, <1>2, <1>3
<1>6. -(v * unit) <= v * x /\ v * x <= v * unit /\ (x = 0 => v * x = 0)
  <2> HIDE DEF x
  <2> QED BY <1>1
<1>7. -(unit * s) <= unit * y /\ unit * y <= unit * s
  <2>1. y \in Int
    BY <1>1, <1>2, <1>3
  <2> HIDE DEF y
  <2> QED BY <1>3, <2>1
<1>8. unit * y \in Int /\ v * x \in Int /\ v * unit = unit * v
  BY <1>1, <1>2, <1>3
<1> HIDE DEF x, y, error
<1>9. CASE a % unit = 0
  BY <1>3, <1>4, <1>5, <1>6, <1>7, <1>8, <1>9 DEF e, c, error
<1>10. CASE a % unit # 0
  BY <1>3, <1>5, <1>6, <1>7, <1>8, <1>10 DEF e, c, error
<1> QED BY <1>9, <1>10

(* What a kept result is made of: whole numbers.                           *)
LEMMA KeptIsOfNumbers ==
  ASSUME KeptInv, NEW r \in Records, stored[r] # None
  PROVE  LET f == stored[r].factor
             m == Multiplier(table[r].unit, f)
             quantity == table[r].quantity * m.n
             unit == 10 * m.d
         IN  /\ quantity \in Int /\ unit \in Nat \ {0} /\ f.value \in Nat
             /\ Scale \in Nat \ {0}
             /\ stored[r].emissions = Rounded(Rounded(quantity, unit) * f.value, Scale)
<1> DEFINE f == stored[r].factor
           u == table[r].unit
           m == Multiplier(u, f)
<1>1. table[r].quantity \in Int
  <2>1. table[r] \in Rows
    BY SummaryAssumption DEF KeptInv, LocalInv, TypeOK
  <2> QED BY <2>1, SummaryAssumption
<1>2. f.value \in Nat
  <2>1. f \in Pool
    BY DEF KeptInv, LocalInv, TypeOK
  <2> QED BY <2>1, PoolAssumption DEF Factor, Governed, Legacy
<1>3. stored[r].emissions
        = Rounded(Rounded(table[r].quantity * m.n, 10 * m.d) * f.value, Scale)
  BY DEF KeptInv, Emissions, Converted
<1>4. m.n \in Nat \ {0} /\ m.d \in Nat \ {0}
  <2>1. unitsCompatible(u, f.unit)
    BY DEF KeptInv
  <2>2. CASE u = f.unit
    BY <2>2 DEF Multiplier
  <2>3. CASE u # f.unit
    <3>1. KwhPer[u] \in Nat \ {0} /\ KwhPer[f.unit] \in Nat \ {0}
      BY <2>1, <2>3, SelectionAssumption DEF unitsCompatible
    <3> QED BY <2>3, <3>1 DEF Multiplier
  <2> QED BY <2>2, <2>3
<1> HIDE DEF f, u, m
<1>5. table[r].quantity * m.n \in Int /\ 10 * m.d \in Nat \ {0}
  BY <1>1, <1>4
<1> QED BY <1>2, <1>3, <1>5, SummaryAssumption DEF f, u, m

(* Whatever the quantities, the factors' values and the sizes of the units *)
(* are, a kept result is within half a thousandth of the exact one and, if *)
(* the quantity has to be rounded, half a thousandth of the factor's unit  *)
(* times its value: the two round() add nothing else.                      *)
THEOREM RoundingTwiceIsBounded == Spec => []RoundingIsBounded
<1>1. KeptInv => RoundingIsBounded
  <2> SUFFICES ASSUME KeptInv, NEW r \in Records, stored[r] # None
               PROVE  LET f == stored[r].factor
                          m == Multiplier(table[r].unit, f)
                          quantity == table[r].quantity * m.n
                          unit == 10 * m.d
                          error == 2 * stored[r].emissions * unit * Scale
                                     - 2 * quantity * f.value
                          bound == unit * Scale
                                     + (IF quantity % unit = 0 THEN 0 ELSE unit * f.value)
                      IN  -bound <= error /\ error <= bound
    BY DEF RoundingIsBounded
  <2> DEFINE f == stored[r].factor
             m == Multiplier(table[r].unit, f)
             quantity == table[r].quantity * m.n
             unit == 10 * m.d
             v == f.value
  <2>1. /\ quantity \in Int /\ unit \in Nat \ {0} /\ v \in Nat /\ Scale \in Nat \ {0}
        /\ stored[r].emissions = Rounded(Rounded(quantity, unit) * v, Scale)
    BY KeptIsOfNumbers
  <2> HIDE DEF quantity, unit, v
  <2>2. LET e == Rounded(Rounded(quantity, unit) * v, Scale)
            error == 2 * e * unit * Scale - 2 * quantity * v
            bound == unit * Scale + (IF quantity % unit = 0 THEN 0 ELSE unit * v)
        IN  -bound <= error /\ error <= bound
    BY <2>1, TwiceRounded
  <2> QED BY <2>1, <2>2 DEF quantity, unit, v
<1> QED BY <1>1, KeptInvInit, KeptInvStep, PTL DEF Spec

-----------------------------------------------------------------------------
(* What a record is told about its factor.                                 *)

(* The rungs whose names the explanation looks at.                         *)
LEMMA RungNames ==
  ASSUME NEW q, NEW C, NEW i \in 1..10
  PROVE  LET by == Ladder(q, C)[i].by
         IN  /\ i \in {2, 3, 5} => by \in {"EXACT_REGION_YEAR", "COUNTRY_YEAR", "NEAREST_YEAR"}
             /\ by = "NEAREST_YEAR" <=> i = 5
             /\ by = "PLACEHOLDER" <=> i = 10
<1>1. CASE i \in {1, 2, 3, 4, 5}
  BY <1>1 DEF Ladder
<1>2. CASE i \in {6, 7, 8, 9, 10}
  BY <1>2 DEF Ladder
<1> QED BY <1>1, <1>2

(* Who is searched for, rung by rung: governed versions, and an            *)
(* organization's own factors before them ...                              *)
LEMMA FirstFiveRungs ==
  ASSUME NEW q, NEW C
  PROVE  LET G == GovernedCandidates(q, C)
             Usable(g) == g \in Local(G, q) \/ g \in CountryWide(G, q)
         IN  /\ \A g \in Searched(q, C)[1] : regionMatchesExactly(g, q) /\ countryMatches(g, q)
             /\ \A g \in Searched(q, C)[2] : /\ regionMatchesExactly(g, q)
                                             /\ countryMatches(g, q) /\ g.year = q.year
             /\ \A g \in Searched(q, C)[3] : g.year = q.year
             /\ \A g \in Searched(q, C)[4] : g.year # NoYear /\ g.year < q.year
             /\ \A g : Usable(g) /\ countryMatches(g, q) /\ g.year = q.year =>
                   g \in Searched(q, C)[2] \/ g \in Searched(q, C)[3]
             /\ \A g : Usable(g) /\ g.year # NoYear /\ g.year < q.year =>
                   g \in Searched(q, C)[4]
<1> DEFINE L == LegacyCandidates(q, C)
           G == GovernedCandidates(q, C)
           own == {g \in L : g.own}
           past == {g \in G : g.year # NoYear /\ g.year < q.year}
           Usable(g) == g \in Local(G, q) \/ g \in CountryWide(G, q)
<1>1. /\ Searched(q, C)[1] = Local(Verified(own, q), q)
      /\ Searched(q, C)[2] = Local({g \in OfYear(G, q) : countryMatches(g, q)}, q)
      /\ Searched(q, C)[3] = CountryWide(OfYear(G, q), q)
      /\ Searched(q, C)[4] = Local(past, q) \cup CountryWide(past, q)
  BY DEF Searched
<1> HIDE DEF L, G
<1>2. \A g \in Searched(q, C)[1] : regionMatchesExactly(g, q) /\ countryMatches(g, q)
  BY <1>1 DEF Local, Verified
<1>3. \A g \in Searched(q, C)[2] : /\ regionMatchesExactly(g, q)
                                   /\ countryMatches(g, q) /\ g.year = q.year
  BY <1>1 DEF Local, OfYear
<1>4. \A g \in Searched(q, C)[3] : g.year = q.year
  BY <1>1 DEF CountryWide, OfYear
<1>5. \A g \in Searched(q, C)[4] : g.year # NoYear /\ g.year < q.year
  BY <1>1 DEF CountryWide, Local
<1>6. ASSUME NEW g, Usable(g), countryMatches(g, q), g.year = q.year
      PROVE  g \in Searched(q, C)[2] \/ g \in Searched(q, C)[3]
  BY <1>1, <1>6 DEF CountryWide, Local, OfYear
<1>7. ASSUME NEW g, Usable(g), g.year # NoYear, g.year < q.year
      PROVE  g \in Searched(q, C)[4]
  BY <1>1, <1>7 DEF CountryWide, Local
<1> QED BY <1>1, <1>2, <1>3, <1>4, <1>5, <1>6, <1>7 DEF G

(* ... and the factors that nobody governs, an organization's own before   *)
(* the governed versions, the system's defaults after them.                *)
LEMMA RungsOfLegacy ==
  ASSUME NEW q, NEW C, NEW g
  PROVE  LET L == LegacyCandidates(q, C)
             default == g \in L /\ ~ g.own
             wide == q.activity \in Fallback /\ isCountryLevel(g)
         IN  /\ g \in Searched(q, C)[1] <=> /\ g \in L /\ g.own /\ g.verified
                                            /\ countryMatches(g, q) /\ regionMatchesExactly(g, q)
             /\ g \in Searched(q, C)[6] <=> /\ default /\ g.verified
                                            /\ countryMatches(g, q) /\ regionMatchesExactly(g, q)
             /\ g \in Searched(q, C)[7] <=> /\ default /\ g.verified
                                            /\ countryMatches(g, q) /\ wide
             /\ g \in Searched(q, C)[8] <=>
                   /\ default /\ regionMatchesExactly(g, q)
                   /\ q.activity = Electricity /\ Region(g) = ProvinceRequired => q.allowDemo
             /\ g \in Searched(q, C)[9] <=> default /\ wide
             /\ g \in Searched(q, C)[10] => default
<1> DEFINE L == LegacyCandidates(q, C)
<1>1. /\ Searched(q, C)[1] = Local(Verified({f \in L : f.own}, q), q)
      /\ Searched(q, C)[6] = Local(Verified(Defaults(L), q), q)
      /\ Searched(q, C)[7] = CountryWide(Verified(Defaults(L), q), q)
      /\ Searched(q, C)[8] = AnyDefault(L, q)
      /\ Searched(q, C)[9] = {f \in Defaults(L) : q.activity \in Fallback /\ isCountryLevel(f)}
      /\ Searched(q, C)[10] = Demo(L, q)
  BY DEF Searched
<1> HIDE DEF L
<1>2. g \in Searched(q, C)[1] <=> /\ g \in L /\ g.own /\ g.verified
                                  /\ countryMatches(g, q) /\ regionMatchesExactly(g, q)
  BY <1>1 DEF Local, Verified
<1>3. g \in Searched(q, C)[6] <=> /\ g \in L /\ ~ g.own /\ g.verified
                                  /\ countryMatches(g, q) /\ regionMatchesExactly(g, q)
  BY <1>1 DEF Local, Verified, Defaults
<1>4. g \in Searched(q, C)[7] <=> /\ g \in L /\ ~ g.own /\ g.verified /\ countryMatches(g, q)
                                  /\ q.activity \in Fallback /\ isCountryLevel(g)
  BY <1>1 DEF CountryWide, Verified, Defaults
<1>5. g \in Searched(q, C)[8] <=>
         /\ g \in L /\ ~ g.own /\ regionMatchesExactly(g, q)
         /\ q.activity = Electricity /\ Region(g) = ProvinceRequired => q.allowDemo
  BY <1>1 DEF AnyDefault, Local, Defaults
<1>6. g \in Searched(q, C)[9] <=> /\ g \in L /\ ~ g.own
                                  /\ q.activity \in Fallback /\ isCountryLevel(g)
  BY <1>1 DEF Defaults
<1>7. g \in Searched(q, C)[10] => g \in L /\ ~ g.own
  BY <1>1 DEF Demo, Defaults
<1> QED BY <1>2, <1>3, <1>4, <1>5, <1>6, <1>7 DEF L

(* What is like a factor is searched for on the same rungs.                *)
LEMMA AlikeIsSearchedToo ==
  ASSUME NEW q, NEW C, NEW i \in {1, 6, 7, 8, 9}, NEW f \in Searched(q, C)[i],
         NEW g \in LegacyCandidates(q, C), g.own = f.own, f.verified => g.verified,
         Region(g) = Region(f), Country(g) = Country(f)
  PROVE  g \in Searched(q, C)[i]
<1>1. /\ countryMatches(f, q) => countryMatches(g, q)
      /\ regionMatchesExactly(f, q) => regionMatchesExactly(g, q)
      /\ isCountryLevel(f) => isCountryLevel(g)
  BY DEF countryMatches, regionMatchesExactly, isCountryLevel
<1>2. CASE i = 1
  BY <1>1, <1>2, RungsOfLegacy
<1>3. CASE i = 6
  BY <1>1, <1>3, RungsOfLegacy
<1>4. CASE i = 7
  BY <1>1, <1>4, RungsOfLegacy
<1>5. CASE i = 8
  BY <1>1, <1>5, RungsOfLegacy
<1>6. CASE i = 9
  BY <1>1, <1>6, RungsOfLegacy
<1> QED BY <1>2, <1>3, <1>4, <1>5, <1>6

(* A factor of a whole country is told to be one: where the explanation    *)
(* reads another region than the search, it reads none.                    *)
LEMMA ToldAsWide ==
  ASSUME NEW f, isCountryLevel(f)
  PROVE  CountryLevel(ToldRegion(f), Country(f))
<1>1. CASE ToldRegion(f) = Region(f)
  BY <1>1 DEF isCountryLevel
<1>2. CASE ToldRegion(f) # Region(f)
  <2>1. ToldRegion(f) = NoPlace
    BY <1>2, SelectionAssumption DEF ToldRegion, Region
  <2> QED BY <2>1 DEF CountryLevel
<1> QED BY <1>1, <1>2

(* The conditions of buildFactorSelectionMetadata.                         *)
LEMMA ReasonsMean ==
  ASSUME NEW q, NEW m, NEW f
  PROVE  /\ m.by = "PLACEHOLDER" => Reason(q, m, f) = "PILOT_DEFAULT_FALLBACK"
         /\ Reason(q, m, f) = "PRIOR_YEAR_FALLBACK" => f.year # NoYear /\ f.year < q.year
         /\ Reason(q, m, f) = "NEAREST_YEAR_PROXY" => m.by = "NEAREST_YEAR"
         /\ Reason(q, m, f) = "EXACT_MATCH" =>
               /\ ~ PilotDefault(m, f)
               /\ isCountryLevel(f) => CountryLevel(q.region, q.country)
               /\ ~ (f.year # NoYear /\ f.year < q.year)
               /\ m.by # "NEAREST_YEAR"
<1> DEFINE wider == ToldWider(q, f)
           past == f.year # NoYear /\ f.year < q.year
<1>1. m.by = "PLACEHOLDER" => PilotDefault(m, f)
  BY DEF PilotDefault
<1>2. PilotDefault(m, f) => Reason(q, m, f) = "PILOT_DEFAULT_FALLBACK"
  BY DEF Reason
<1>3. isCountryLevel(f) /\ ~ wider => CountryLevel(q.region, q.country)
  BY ToldAsWide DEF ToldWider
<1>4. ~ PilotDefault(m, f) /\ wider => Reason(q, m, f) = "GENERIC_JURISDICTION_FALLBACK"
  BY DEF Reason
<1>5. ~ PilotDefault(m, f) /\ ~ wider /\ past => Reason(q, m, f) = "PRIOR_YEAR_FALLBACK"
  BY DEF Reason
<1>6. ~ PilotDefault(m, f) /\ ~ wider /\ ~ past =>
         Reason(q, m, f) = IF m.by = "NEAREST_YEAR" THEN "NEAREST_YEAR_PROXY" ELSE "EXACT_MATCH"
  BY DEF Reason
<1> HIDE DEF wider
<1>7. CASE PilotDefault(m, f)
  BY <1>2, <1>7
<1>8. CASE ~ PilotDefault(m, f)
  BY <1>1, <1>3, <1>4, <1>5, <1>6, <1>8
<1> QED BY <1>7, <1>8

(* Which rung a factor comes from says who owns it, and whoever came       *)
(* before was not there.                                                   *)
LEMMA RungOfAFactor ==
  ASSUME NEW q, NEW C, NEW i \in 1..10, NEW f \in Searched(q, C)[i]
  PROVE  /\ f.kind = "governed" <=> i \in 2..5
         /\ i \notin 2..5 => f \in LegacyCandidates(q, C) /\ (f.own <=> i = 1)
         /\ i \in 2..5 => f \in GovernedCandidates(q, C)
<1>1. f \in IF i \in 2..5 THEN GovernedCandidates(q, C) ELSE LegacyCandidates(q, C)
  BY SearchedIsCandidate
<1>2. f.kind = "governed" <=> i \in 2..5
  BY <1>1 DEF GovernedCandidates, LegacyCandidates
<1>3. ASSUME i \notin 2..5
      PROVE  f.own <=> i = 1
  <2>1. CASE i = 1
    BY <2>1, RungsOfLegacy
  <2>2. CASE i = 6
    BY <2>2, RungsOfLegacy
  <2>3. CASE i = 7
    BY <2>3, RungsOfLegacy
  <2>4. CASE i = 8
    BY <2>4, RungsOfLegacy
  <2>5. CASE i = 9
    BY <2>5, RungsOfLegacy
  <2>6. CASE i = 10
    BY <2>6, RungsOfLegacy
  <2> QED BY <1>3, <2>1, <2>2, <2>3, <2>4, <2>5, <2>6
<1> QED BY <1>1, <1>2, <1>3

(* A factor that a rung found, no rung before it finding any: what may     *)
(* have been passed over for it, if nobody governs it.                     *)
LEMMA UngovernedReasonHolds ==
  ASSUME NEW q, q.year \in Nat, NEW C, C \subseteq Pool, NEW i \in 1..10 \ 2..5,
         NEW f \in Searched(q, C)[i], f \in Ladder(q, C)[i].found,
         \A j \in 1..10 : j < i => Ladder(q, C)[j].found = {},
         NEW reason, reason = Reason(q, Ladder(q, C)[i], f)
  PROVE  LET L == LegacyCandidates(q, C)
             defaults == {g \in Defaults(L) : countryMatches(g, q) /\ (f.verified => g.verified)}
             alike == {g \in L : /\ g.own = f.own /\ (f.verified => g.verified)
                                 /\ Region(g) = Region(f) /\ Country(g) = Country(f)}
         IN  /\ reason = "GENERIC_JURISDICTION_FALLBACK" /\ ~ regionMatchesExactly(f, q) =>
                   ~ f.own /\ Local(defaults, q) = {}
             /\ reason = "PRIOR_YEAR_FALLBACK" => OfYear(alike, q) = {}
<1> DEFINE L == LegacyCandidates(q, C)
           S(j) == Searched(q, C)[j]
           defaults == {g \in Defaults(L) : countryMatches(g, q) /\ (f.verified => g.verified)}
           alike == {g \in L : /\ g.own = f.own /\ (f.verified => g.verified)
                               /\ Region(g) = Region(f) /\ Country(g) = Country(f)}
<1>1. \A j \in 1..10 : j < i => S(j) = {}
  BY SomethingIsTaken
<1>2. /\ reason = "PRIOR_YEAR_FALLBACK" => f.year # NoYear /\ f.year < q.year
      /\ i = 10 => reason = "PILOT_DEFAULT_FALLBACK"
  BY RungNames, ReasonsMean
<1> HIDE DEF L, S, defaults, alike
<1>3. ASSUME reason = "GENERIC_JURISDICTION_FALLBACK", ~ regionMatchesExactly(f, q)
      PROVE  ~ f.own /\ Local(defaults, q) = {}
  <2>1. i # 1 /\ i # 6 /\ i # 8
    <3>1. CASE i = 1
      BY <1>3, <3>1, RungsOfLegacy
    <3>2. CASE i = 6
      BY <1>3, <3>2, RungsOfLegacy
    <3>3. CASE i = 8
      BY <1>3, <3>3, RungsOfLegacy
    <3> QED BY <3>1, <3>2, <3>3
  <2>2. i # 10
    BY <1>2, <1>3
  <2>3. i \in {7, 9}
    BY <2>1, <2>2
  <2>4. ~ f.own
    BY <2>3, RungOfAFactor
  <2>5. ASSUME NEW g \in Local(defaults, q)
        PROVE  FALSE
    <3>1. /\ g \in L /\ ~ g.own /\ countryMatches(g, q) /\ (f.verified => g.verified)
          /\ regionMatchesExactly(g, q)
      BY <2>5 DEF Local, Defaults, defaults
    <3>2. CASE i = 7
      <4>1. f.verified
        BY <3>2, RungsOfLegacy
      <4>2. g \in S(6)
        BY <3>1, <4>1, RungsOfLegacy DEF L, S
      <4> QED BY <1>1, <3>2, <4>2
    <3>3. CASE i = 9
      <4>1. q.activity # Electricity
        BY <3>3, RungsOfLegacy, SelectionAssumption
      <4>2. g \in S(8)
        BY <3>1, <4>1, RungsOfLegacy DEF L, S
      <4> QED BY <1>1, <3>3, <4>2
    <3> QED BY <2>3, <3>2, <3>3
  <2> QED BY <2>4, <2>5
<1>4. ASSUME reason = "PRIOR_YEAR_FALLBACK", NEW g \in OfYear(alike, q)
      PROVE  FALSE
  <2>1. f.year # NoYear /\ f.year < q.year
    BY <1>2, <1>4
  <2>2. i # 10
    BY <1>2, <1>4
  <2>3. i \in {1, 6, 7, 8, 9}
    BY <2>2
  <2>4. g \in alike /\ g.year = q.year
    BY <1>4 DEF OfYear
  <2>5. g \in S(i)
    BY <2>3, <2>4, AlikeIsSearchedToo DEF alike, L, S
  <2>6. f \in Taken(i, S(i), q)
    BY RungIsTaken DEF S
  <2>7. f \in Latest(S(i))
    <3>1. Taken(i, S(i), q) = First(Latest(S(i)))
      BY <2>3 DEF Taken
    <3> QED BY <2>6, <3>1 DEF First
  <2>8. YearOf(f) >= YearOf(g)
    BY <2>5, <2>7 DEF Latest
  <2>9. YearOf(g) = q.year /\ YearOf(f) = f.year
    BY <2>1, <2>4, SelectionAssumption DEF YearOf
  <2>10. f.year \in Nat
    <3>1. f \in Pool
      BY RungOfAFactor DEF LegacyCandidates
    <3>2. f.year \in Years
      BY <3>1, PoolAssumption DEF Factor, Governed, Legacy
    <3> QED BY <2>1, <3>2 DEF Years
  <2> QED BY <2>1, <2>8, <2>9, <2>10
<1>5. reason = "PRIOR_YEAR_FALLBACK" => OfYear(alike, q) = {}
  BY <1>4
<1> QED BY <1>3, <1>5 DEF L, defaults, alike

(* A factor that a rung found, no rung before it finding any, is what its  *)
(* reason says.                                                            *)
LEMMA ReasonHolds ==
  ASSUME NEW q, q.year \in Nat, NEW C, C \subseteq Pool, NEW i \in 1..10,
         NEW f \in Searched(q, C)[i], f \in Ladder(q, C)[i].found,
         \A j \in 1..10 : j < i => Ladder(q, C)[j].found = {},
         NEW reason, reason = Reason(q, Ladder(q, C)[i], f)
  PROVE  LET G == GovernedCandidates(q, C)
             usable == Local(G, q) \cup CountryWide(G, q)
             here == {g \in usable : countryMatches(g, q)}
         IN  /\ f.kind = "governed" \/ ~ f.own => Searched(q, C)[1] = {}
             /\ f.kind # "governed" /\ ~ f.own => Searched(q, C)[5] = {}
             /\ (reason = "GENERIC_JURISDICTION_FALLBACK" /\ f.kind = "governed"
                   /\ ~ regionMatchesExactly(f, q)) => Searched(q, C)[2] = {}
             /\ reason = "PRIOR_YEAR_FALLBACK" /\ f.kind = "governed" =>
                   OfYear(here, q) = {}
             /\ reason = "NEAREST_YEAR_PROXY" =>
                   \A g \in here : g.year = NoYear \/ g.year > q.year
             /\ reason = "EXACT_MATCH" =>
                   /\ f.kind = "governed" => f.status # "DRAFT"
                   /\ isCountryLevel(f) => CountryLevel(q.region, q.country)
                   /\ f.year \in {NoYear, q.year}
<1> DEFINE G == GovernedCandidates(q, C)
           S(j) == Searched(q, C)[j]
           m == Ladder(q, C)[i]
           usable == Local(G, q) \cup CountryWide(G, q)
           here == {g \in usable : countryMatches(g, q)}
           Usable(g) == g \in Local(G, q) \/ g \in CountryWide(G, q)
<1>1. \A j \in 1..10 : j < i => S(j) = {}
  BY SomethingIsTaken
<1>2. /\ \A g \in S(1) : regionMatchesExactly(g, q) /\ countryMatches(g, q)
      /\ \A g \in S(2) : regionMatchesExactly(g, q) /\ countryMatches(g, q) /\ g.year = q.year
      /\ \A g \in S(3) : g.year = q.year
      /\ \A g \in S(4) : g.year # NoYear /\ g.year < q.year
      /\ \A g : Usable(g) /\ countryMatches(g, q) /\ g.year = q.year =>
            g \in S(2) \/ g \in S(3)
      /\ \A g : Usable(g) /\ g.year # NoYear /\ g.year < q.year => g \in S(4)
  BY FirstFiveRungs
<1>3. f \in IF i \in 2..5 THEN G ELSE LegacyCandidates(q, C)
  BY RungOfAFactor
<1>4. /\ i \in {2, 3, 5} => m.by \in {"EXACT_REGION_YEAR", "COUNTRY_YEAR", "NEAREST_YEAR"}
      /\ m.by = "NEAREST_YEAR" <=> i = 5
  BY RungNames
<1>5. f \in S(i)
  OBVIOUS
<1>6. f.kind = "governed" <=> i \in 2..5
  BY RungOfAFactor
<1>7. \A g \in here : g \in Pool /\ g.year \in Years
  <2>1. G \subseteq Pool
    BY DEF GovernedCandidates
  <2>2. here \subseteq Pool
    BY <2>1 DEF Local, CountryWide
  <2> QED BY <2>2, PoolAssumption DEF Factor, Governed, Legacy
<1>8. /\ \A g \in usable : Usable(g)
      /\ here \subseteq usable
  OBVIOUS
<1>9. NoYear # q.year
  BY SelectionAssumption
<1>17. /\ reason = "PRIOR_YEAR_FALLBACK" => f.year # NoYear /\ f.year < q.year
       /\ reason = "NEAREST_YEAR_PROXY" => i = 5
       /\ reason = "EXACT_MATCH" =>
             /\ ~ PilotDefault(m, f)
             /\ isCountryLevel(f) => CountryLevel(q.region, q.country)
             /\ ~ (f.year # NoYear /\ f.year < q.year)
             /\ i # 5
  BY <1>4, ReasonsMean
<1> HIDE DEF S, m, G, usable, Usable
<1>11. ASSUME reason = "GENERIC_JURISDICTION_FALLBACK", ~ regionMatchesExactly(f, q),
              f.kind = "governed"
       PROVE  S(2) = {}
  <2>1. i \in 2..5 /\ i # 2
    BY <1>2, <1>5, <1>6, <1>11
  <2> QED BY <1>1, <2>1
<1>12. ASSUME reason = "PRIOR_YEAR_FALLBACK", f.kind = "governed"
       PROVE  OfYear(here, q) = {}
  <2>1. f.year # NoYear /\ f.year < q.year
    BY <1>12, <1>17
  <2>2. i \in 2..5 /\ i # 2 /\ i # 3
    BY <1>2, <1>5, <1>6, <1>12, <2>1
  <2>3. S(2) = {} /\ S(3) = {}
    BY <1>1, <2>2
  <2> QED BY <1>8, <1>2, <2>3 DEF OfYear
<1>13. ASSUME reason = "NEAREST_YEAR_PROXY", NEW g \in here, g.year # NoYear
       PROVE  g.year > q.year
  <2>1. i = 5
    BY <1>13, <1>17
  <2>2. S(2) = {} /\ S(3) = {} /\ S(4) = {}
    BY <1>1, <2>1
  <2>3. g.year # q.year /\ ~ (g.year < q.year)
    BY <1>8, <1>2, <1>13, <2>2
  <2>4. g.year \in Nat
    BY <1>7, <1>13 DEF Years
  <2> QED BY <2>3, <2>4
<1>14. ASSUME reason = "EXACT_MATCH"
       PROVE  /\ f.kind = "governed" => f.status # "DRAFT"
              /\ isCountryLevel(f) => CountryLevel(q.region, q.country)
              /\ f.year \in {NoYear, q.year}
  <2>1. /\ ~ PilotDefault(m, f)
        /\ isCountryLevel(f) => CountryLevel(q.region, q.country)
        /\ ~ (f.year # NoYear /\ f.year < q.year)
        /\ i # 5
    BY <1>14, <1>17
  <2>2. i # 4
    BY <1>2, <1>5, <2>1
  <2>3. ASSUME f.kind = "governed"
        PROVE  f.status # "DRAFT"
    <3>1. i \in {2, 3}
      BY <1>6, <2>1, <2>2, <2>3
    <3>2. f.confidence # 1
      BY <1>4, <2>1, <3>1 DEF PilotDefault
    <3>3. Reviewed(f, q)
      BY <1>3, <3>1 DEF G, GovernedCandidates
    <3> QED BY <3>2, <3>3 DEF Reviewed
  <2>4. f.year \in {NoYear, q.year}
    <3>1. CASE i \in {2, 3}
      BY <1>2, <1>5, <3>1
    <3>2. CASE i \notin 2..5
      <4>1. f \in LegacyCandidates(q, C)
        BY <1>3, <3>2
      <4>2. f \in Pool /\ YearOf(f) <= q.year
        BY <4>1 DEF LegacyCandidates
      <4>3. f.year \in Years
        BY <4>2, PoolAssumption DEF Factor, Governed, Legacy
      <4> QED BY <2>1, <4>2, <4>3 DEF Years, YearOf
    <3> QED BY <2>1, <2>2, <3>1, <3>2
  <2> QED BY <2>1, <2>3, <2>4
<1>15. ASSUME f.kind = "governed" \/ ~ f.own
       PROVE  S(1) = {}
  <2>1. i # 1
    BY <1>6, <1>15, RungOfAFactor
  <2> QED BY <1>1, <2>1
<1>16. ASSUME f.kind # "governed", ~ f.own
       PROVE  S(5) = {}
  <2>1. i \notin 2..5 /\ i # 1
    BY <1>6, <1>16, RungOfAFactor
  <2> QED BY <1>1, <2>1
<1> QED BY <1>11, <1>12, <1>13, <1>14, <1>15, <1>16 DEF S, G, usable

(* What a record is told about its factor was so when it was calculated,   *)
(* whatever the catalogue held -- as far as Explained goes: among the      *)
(* governed versions if a version was chosen, and else among the factors   *)
(* like the one chosen.  An organization's own factor of a prior year is   *)
(* taken before a governed version of the record's year, and the record is *)
(* told that no exact factor was available; of this the theorem says only  *)
(* that the organization had none of its own, for that place and year.     *)
THEOREM ExplanationsHold == Spec => ExplanationHolds
<1>1. LocalInv /\ [Next]_vars =>
        [\A r \in Records : stored'[r] \notin {stored[r], None} =>
            Explained(r, stored'[r], catalogue)]_vars
  <2> SUFFICES ASSUME LocalInv, [Next]_vars, NEW r \in Records,
                      stored'[r] \notin {stored[r], None}
               PROVE  Explained(r, stored'[r], catalogue)
    OBVIOUS
  <2> DEFINE q == QueryOf(table[r])
             e == stored'[r]
  <2>1. e = Evaluated(table[r], catalogue) /\ e.status = "CALCULATED"
    BY OneIsCalculated
  <2>2. PICK i \in 1..10 :
           /\ e.factor \in Ladder(q, catalogue)[i].found
           /\ e.factor \in Searched(q, catalogue)[i]
           /\ e.reason = Reason(q, Ladder(q, catalogue)[i], e.factor)
           /\ \A j \in 1..10 : j < i => Ladder(q, catalogue)[j].found = {}
    BY <2>1, JudgedAtARung
  <2>3. q.year \in Nat /\ catalogue \subseteq Pool
    BY QueriesAreDated
  <2>4. e.factor.kind = "governed" <=> i \in 2..5
    BY <2>2, RungOfAFactor
  <2> DEFINE L == LegacyCandidates(q, catalogue)
             defaults == {g \in Defaults(L) :
                             countryMatches(g, q) /\ (e.factor.verified => g.verified)}
             alike == {g \in L : /\ g.own = e.factor.own /\ (e.factor.verified => g.verified)
                                 /\ Region(g) = Region(e.factor)
                                 /\ Country(g) = Country(e.factor)}
             G == GovernedCandidates(q, catalogue)
             usable == Local(G, q) \cup CountryWide(G, q)
             here == {g \in usable : countryMatches(g, q)}
             own == {g \in L : g.own}
             ofTheYear == {g \in OfYear(G, q) : countryMatches(g, q)}
             governed == e.factor.kind = "governed"
             generic == /\ e.reason = "GENERIC_JURISDICTION_FALLBACK"
                        /\ ~ regionMatchesExactly(e.factor, q)
  <2> HIDE DEF q, e
  <2>5. ASSUME e.factor.kind # "governed"
        PROVE  /\ generic => ~ e.factor.own /\ Local(defaults, q) = {}
               /\ e.reason = "PRIOR_YEAR_FALLBACK" => OfYear(alike, q) = {}
    <3>1. i \in 1..10 \ 2..5
      BY <2>4, <2>5
    <3> QED BY <2>2, <2>3, <3>1, UngovernedReasonHolds
  <2>6. /\ governed \/ ~ e.factor.own => Local(Verified(own, q), q) = {}
        /\ ~ governed /\ ~ e.factor.own => usable = {}
        /\ generic /\ governed => Local(ofTheYear, q) = {}
        /\ e.reason = "PRIOR_YEAR_FALLBACK" /\ governed => OfYear(here, q) = {}
        /\ e.reason = "NEAREST_YEAR_PROXY" =>
              \A g \in here : g.year = NoYear \/ g.year > q.year
        /\ e.reason = "EXACT_MATCH" =>
              /\ governed => e.factor.status # "DRAFT"
              /\ isCountryLevel(e.factor) => CountryLevel(q.region, q.country)
              /\ e.factor.year \in {NoYear, q.year}
    <3> DEFINE f == e.factor
               reason == e.reason
    <3>1. /\ f \in Searched(q, catalogue)[i] /\ f \in Ladder(q, catalogue)[i].found
          /\ reason = Reason(q, Ladder(q, catalogue)[i], f)
      BY <2>2
    <3> HIDE DEF f, reason
    <3>2. /\ f.kind = "governed" \/ ~ f.own => Searched(q, catalogue)[1] = {}
          /\ f.kind # "governed" /\ ~ f.own => Searched(q, catalogue)[5] = {}
          /\ (reason = "GENERIC_JURISDICTION_FALLBACK" /\ f.kind = "governed"
                /\ ~ regionMatchesExactly(f, q)) => Searched(q, catalogue)[2] = {}
          /\ reason = "PRIOR_YEAR_FALLBACK" /\ f.kind = "governed" => OfYear(here, q) = {}
          /\ reason = "NEAREST_YEAR_PROXY" =>
                \A g \in here : g.year = NoYear \/ g.year > q.year
          /\ reason = "EXACT_MATCH" =>
                /\ f.kind = "governed" => f.status # "DRAFT"
                /\ isCountryLevel(f) => CountryLevel(q.region, q.country)
                /\ f.year \in {NoYear, q.year}
      BY SMTT(60), <2>2, <2>3, <3>1, ReasonHolds
    <3>3. /\ Searched(q, catalogue)[1] = Local(Verified(own, q), q)
          /\ Searched(q, catalogue)[2] = Local(ofTheYear, q)
          /\ Searched(q, catalogue)[5] = usable
      BY DEF Searched
    <3> HIDE DEF L, G, usable, here, own, ofTheYear
    <3> QED BY <3>2, <3>3 DEF f, reason
  <2>7. Explained(r, e, catalogue) <=>
          /\ governed \/ ~ e.factor.own => Local(Verified(own, q), q) = {}
          /\ ~ governed /\ ~ e.factor.own => usable = {}
          /\ generic =>
                /\ governed /\ e.factor.year = q.year => Local(ofTheYear, q) = {}
                /\ ~ governed => ~ e.factor.own /\ Local(defaults, q) = {}
          /\ e.reason = "PRIOR_YEAR_FALLBACK" =>
                /\ governed => OfYear(here, q) = {}
                /\ ~ governed => OfYear(alike, q) = {}
          /\ e.reason = "NEAREST_YEAR_PROXY" =>
                \A g \in here : g.year = NoYear \/ g.year > q.year
          /\ e.reason = "EXACT_MATCH" =>
                /\ governed => e.factor.status # "DRAFT"
                /\ isCountryLevel(e.factor) => CountryLevel(q.region, q.country)
                /\ e.factor.year \in {NoYear, q.year}
    BY DEF Explained, q
  <2> HIDE DEF L, G, defaults, alike, usable, here, own, ofTheYear, governed, generic
  <2>8. Explained(r, e, catalogue)
    <3>1. ~ governed => /\ generic => ~ e.factor.own /\ Local(defaults, q) = {}
                        /\ e.reason = "PRIOR_YEAR_FALLBACK" => OfYear(alike, q) = {}
      BY <2>5 DEF governed
    <3> QED BY <2>6, <2>7, <3>1
  <2> QED BY <2>8 DEF e
<1> QED BY <1>1, LocalInvInit, LocalInvStep, PTL DEF Spec, ExplanationHolds

-----------------------------------------------------------------------------
(* Sums.  AddUp is a recursive function on the subsets of a finite set:    *)
(* there is one, it does not depend on the order in which it takes its     *)
(* terms, and it may be taken by kinds.                                    *)

(* What holds of a finite set if it holds of one whenever it holds of its  *)
(* smaller subsets: a set B of exceptions would have a minimal one.        *)
LEMMA MinimalSet ==
  ASSUME NEW X, IsFiniteSet(X), NEW B, B \subseteq SUBSET X, B # {}
  PROVE  \E T \in B : \A U \in B : U \subseteq T => U = T
<1> DEFINE O == StrictSubsetOrdering(X)
<1>1. IsWellFoundedOn(O, SUBSET X)
  <2>1. FiniteSubsetsOf(X) = SUBSET X
    BY FS_FiniteSubsetsOfFinite
  <2> QED BY <2>1, FS_StrictSubsetOrderingWellFounded
<1>2. PICK T \in B : \A U \in B : <<U, T>> \notin O
  <2> HIDE DEF O
  <2> QED BY <1>1, WFMin
<1>3. ASSUME NEW U \in B, U \subseteq T, U # T
      PROVE  <<U, T>> \in O
  BY <1>3 DEF StrictSubsetOrdering
<1> HIDE DEF O
<1>4. ASSUME NEW U \in B, U \subseteq T
      PROVE  U = T
  BY <1>2, <1>3, <1>4
<1> QED BY <1>4

Pick(S) == CHOOSE x \in S : TRUE

Less(S) == S \ {Pick(S)}

Sums(g, f, X) ==
    g = [S \in SUBSET X |-> IF S = {} THEN 0 ELSE f[Pick(S)] + g[Less(S)]]

Sum(f, X) == (CHOOSE g : Sums(g, f, X))[X]

LEMMA AddUpIsSum ==
  ASSUME NEW f
  PROVE  AddUp(f) = Sum(f, DOMAIN f)
BY DEF AddUp, MapThenFoldSet, Sums, Sum, Pick, Less

LEMMA LessIsLess ==
  ASSUME NEW S, S # {}
  PROVE  Pick(S) \in S /\ Less(S) \subseteq S /\ Less(S) # S
<1>1. Pick(S) \in S
  BY DEF Pick
<1> QED BY <1>1 DEF Less

LEMMA SumsAre ==
  ASSUME NEW f, NEW X, NEW g, Sums(g, f, X), NEW S \in SUBSET X
  PROVE  g[S] = IF S = {} THEN 0 ELSE f[Pick(S)] + g[Less(S)]
BY DEF Sums

LEMMA SumsAgree ==
  ASSUME NEW f, NEW X, IsFiniteSet(X), NEW g, Sums(g, f, X), NEW Y, NEW h, Sums(h, f, Y),
         NEW S, S \subseteq X, S \subseteq Y
  PROVE  g[S] = h[S]
<1> DEFINE B == {T \in SUBSET X : T \subseteq Y /\ g[T] # h[T]}
<1>1. SUFFICES ASSUME B # {} PROVE FALSE
  OBVIOUS
<1>2. PICK T \in B : \A U \in B : U \subseteq T => U = T
  <2> HIDE DEF B
  <2>1. B \subseteq SUBSET X
    BY DEF B
  <2> QED BY <1>1, <2>1, MinimalSet
<1>3. T \subseteq X /\ T \subseteq Y /\ g[T] # h[T]
  BY <1>2
<1>4. /\ g[T] = IF T = {} THEN 0 ELSE f[Pick(T)] + g[Less(T)]
      /\ h[T] = IF T = {} THEN 0 ELSE f[Pick(T)] + h[Less(T)]
  <2> HIDE DEF B
  <2>1. T \in SUBSET X /\ T \in SUBSET Y
    BY <1>3
  <2>2. g[T] = IF T = {} THEN 0 ELSE f[Pick(T)] + g[Less(T)]
    BY <2>1, SumsAre
  <2>3. h[T] = IF T = {} THEN 0 ELSE f[Pick(T)] + h[Less(T)]
    BY <2>1, SumsAre
  <2> QED BY <2>2, <2>3
<1>5. T # {} /\ Less(T) \subseteq T /\ Less(T) # T
  BY <1>3, <1>4, LessIsLess
<1>6. Less(T) \notin B
  BY <1>2, <1>5
<1>7. g[Less(T)] = h[Less(T)]
  BY <1>3, <1>5, <1>6
<1> QED BY <1>3, <1>4, <1>5, <1>7

LEMMA SumsExist ==
  ASSUME NEW f, NEW X, IsFiniteSet(X)
  PROVE  \E g : Sums(g, f, X)
<1> DEFINE B == {T \in SUBSET X : ~ \E g : Sums(g, f, T)}
<1>1. SUFFICES ASSUME B # {} PROVE FALSE
  OBVIOUS
<1>2. PICK T \in B : \A U \in B : U \subseteq T => U = T
  <2> HIDE DEF B
  <2>1. B \subseteq SUBSET X
    BY DEF B
  <2> QED BY <1>1, <2>1, MinimalSet
<1>3. T \subseteq X /\ IsFiniteSet(T)
  BY <1>2, FS_Subset
<1> DEFINE H(U) == CHOOSE g : Sums(g, f, U)
           h == [S \in SUBSET T |-> IF S = {} THEN 0 ELSE f[Pick(S)] + H(Less(S))[Less(S)]]
<1>4. ASSUME NEW U, U \subseteq T, U # T
      PROVE  Sums(H(U), f, U) /\ IsFiniteSet(U)
  <2>1. U \notin B
    BY <1>2, <1>4
  <2>2. \E g : Sums(g, f, U)
    BY <1>3, <1>4, <2>1
  <2>3. IsFiniteSet(U)
    BY <1>3, <1>4, FS_Subset
  <2> QED BY <2>2, <2>3
<1> HIDE DEF H
<1>5. ASSUME NEW S \in SUBSET T, S # {}
      PROVE  h[Less(S)] = H(Less(S))[Less(S)]
  <2> DEFINE U == Less(S)
  <2>1. U \subseteq T /\ U # T
    BY <1>5, LessIsLess
  <2>2. Sums(H(U), f, U) /\ IsFiniteSet(U)
    BY <1>4, <2>1
  <2> HIDE DEF U
  <2>3. H(U)[U] = IF U = {} THEN 0 ELSE f[Pick(U)] + H(U)[Less(U)]
    BY <2>2, SumsAre
  <2>4. CASE U = {}
    BY <2>1, <2>3, <2>4 DEF U
  <2>5. CASE U # {}
    <3>1. Less(U) \subseteq U /\ Less(U) \subseteq T /\ Less(U) # T
      BY <2>1, <2>5, LessIsLess
    <3>2. Sums(H(Less(U)), f, Less(U)) /\ IsFiniteSet(Less(U))
      BY <1>4, <3>1
    <3>3. H(Less(U))[Less(U)] = H(U)[Less(U)]
      BY <2>2, <3>1, <3>2, SumsAgree
    <3>4. h[U] = f[Pick(U)] + H(Less(U))[Less(U)]
      BY <2>1, <2>5
    <3> QED BY <2>3, <2>5, <3>3, <3>4 DEF U
  <2> QED BY <2>4, <2>5
<1>6. h = [S \in SUBSET T |-> IF S = {} THEN 0 ELSE f[Pick(S)] + h[Less(S)]]
  <2>1. \A S \in SUBSET T : h[S] = IF S = {} THEN 0 ELSE f[Pick(S)] + h[Less(S)]
    BY <1>5
  <2>2. h = [S \in SUBSET T |-> h[S]]
    OBVIOUS
  <2> HIDE DEF h
  <2> QED BY <2>1, <2>2
<1>7. Sums(h, f, T)
  <2> HIDE DEF h
  <2> QED BY <1>6 DEF Sums
<1> QED BY <1>2, <1>7

LEMMA SumIs ==
  ASSUME NEW f, NEW X, IsFiniteSet(X)
  PROVE  Sum(f, X) = IF X = {} THEN 0 ELSE f[Pick(X)] + Sum(f, Less(X))
<1> DEFINE H(U) == CHOOSE g : Sums(g, f, U)
           U == Less(X)
<1>1. Sums(H(X), f, X)
  BY SumsExist
<1>2. IsFiniteSet(U) /\ U \subseteq X
  <2>1. U \subseteq X
    BY DEF Less
  <2> QED BY <2>1, FS_Subset
<1>3. Sums(H(U), f, U)
  <2> HIDE DEF U
  <2> QED BY <1>2, SumsExist
<1>4. Sum(f, X) = H(X)[X] /\ Sum(f, U) = H(U)[U]
  BY DEF Sum
<1> HIDE DEF H
<1>5. H(X)[X] = IF X = {} THEN 0 ELSE f[Pick(X)] + H(X)[U]
  BY <1>1, SumsAre
<1>6. H(U)[U] = H(X)[U]
  <2> HIDE DEF U
  <2> QED BY <1>1, <1>2, <1>3, SumsAgree
<1> QED BY <1>4, <1>5, <1>6

LEMMA SumSame ==
  ASSUME NEW f, NEW g, NEW X, IsFiniteSet(X), \A x \in X : f[x] = g[x]
  PROVE  Sum(f, X) = Sum(g, X)
<1> DEFINE B == {T \in SUBSET X : Sum(f, T) # Sum(g, T)}
<1>1. SUFFICES ASSUME B # {} PROVE FALSE
  OBVIOUS
<1>2. PICK T \in B : \A U \in B : U \subseteq T => U = T
  <2> HIDE DEF B
  <2>1. B \subseteq SUBSET X
    BY DEF B
  <2> QED BY <1>1, <2>1, MinimalSet
<1>3. T \subseteq X /\ IsFiniteSet(T) /\ Sum(f, T) # Sum(g, T)
  BY <1>2, FS_Subset
<1>4. /\ Sum(f, T) = IF T = {} THEN 0 ELSE f[Pick(T)] + Sum(f, Less(T))
      /\ Sum(g, T) = IF T = {} THEN 0 ELSE g[Pick(T)] + Sum(g, Less(T))
  BY <1>3, SumIs
<1>5. T # {} /\ Pick(T) \in X /\ Less(T) \subseteq T /\ Less(T) # T
  BY <1>3, <1>4, LessIsLess
<1>6. Less(T) \notin B
  BY <1>2, <1>5
<1>7. Sum(f, Less(T)) = Sum(g, Less(T))
  BY <1>3, <1>5, <1>6
<1> QED BY <1>3, <1>4, <1>5, <1>7

LEMMA SumIsInt ==
  ASSUME NEW f, NEW X, IsFiniteSet(X), \A x \in X : f[x] \in Int
  PROVE  Sum(f, X) \in Int
<1> DEFINE B == {T \in SUBSET X : Sum(f, T) \notin Int}
<1>1. SUFFICES ASSUME B # {} PROVE FALSE
  OBVIOUS
<1>2. PICK T \in B : \A U \in B : U \subseteq T => U = T
  <2> HIDE DEF B
  <2>1. B \subseteq SUBSET X
    BY DEF B
  <2> QED BY <1>1, <2>1, MinimalSet
<1>3. T \subseteq X /\ IsFiniteSet(T) /\ Sum(f, T) \notin Int
  BY <1>2, FS_Subset
<1>4. Sum(f, T) = IF T = {} THEN 0 ELSE f[Pick(T)] + Sum(f, Less(T))
  BY <1>3, SumIs
<1>5. T # {} /\ Pick(T) \in X /\ Less(T) \subseteq T /\ Less(T) # T
  BY <1>3, <1>4, LessIsLess
<1>6. Less(T) \notin B
  BY <1>2, <1>5
<1>7. Sum(f, Less(T)) \in Int
  BY <1>3, <1>5, <1>6
<1> QED BY <1>3, <1>4, <1>5, <1>7

(* The terms may be taken in any order.                                    *)
LEMMA SumTakes ==
  ASSUME NEW f, NEW X, IsFiniteSet(X), \A x \in X : f[x] \in Int, NEW x \in X
  PROVE  Sum(f, X) = f[x] + Sum(f, X \ {x})
<1> DEFINE Rest(T, y) == T \ {y}
           B == {T \in SUBSET X : \E y \in T : Sum(f, T) # f[y] + Sum(f, Rest(T, y))}
<1>1. SUFFICES ASSUME B # {} PROVE FALSE
  OBVIOUS
<1>2. PICK T \in B : \A U \in B : U \subseteq T => U = T
  <2> HIDE DEF B
  <2>1. B \subseteq SUBSET X
    BY DEF B
  <2> QED BY <1>1, <2>1, MinimalSet
<1>3. T \subseteq X /\ IsFiniteSet(T)
  BY <1>2, FS_Subset
<1>4. PICK y \in T : Sum(f, T) # f[y] + Sum(f, Rest(T, y))
  BY <1>2
<1> DEFINE p == Pick(T)
           U == Rest(T, p)
           V == Rest(T, y)
           W == Rest(U, y)
<1>5. p \in T /\ Less(T) = U
  BY <1>4, LessIsLess DEF Less
<1>6. Sum(f, T) = f[p] + Sum(f, U)
  BY <1>3, <1>4, <1>5, SumIs
<1>7. p # y
  BY <1>4, <1>6
<1>8. /\ U \subseteq X /\ V \subseteq X /\ U \subseteq T /\ V \subseteq T
      /\ U # T /\ V # T /\ y \in U /\ p \in V
  BY <1>3, <1>5, <1>7
<1>9. U \notin B /\ V \notin B
  <2> HIDE DEF U, V, B
  <2> QED BY <1>2, <1>8
<1>10. Sum(f, U) = f[y] + Sum(f, W)
  <2> HIDE DEF U, W, Rest
  <2>1. Sum(f, U) = f[y] + Sum(f, Rest(U, y))
    BY <1>8, <1>9
  <2> QED BY <2>1 DEF W
<1>11. Rest(V, p) = W
  OBVIOUS
<1>12. Sum(f, V) = f[p] + Sum(f, W)
  <2> HIDE DEF V, W, Rest
  <2>1. Sum(f, V) = f[p] + Sum(f, Rest(V, p))
    BY <1>8, <1>9
  <2> QED BY <1>11, <2>1
<1>13. f[p] \in Int /\ f[y] \in Int /\ Sum(f, W) \in Int
  <2>1. W \subseteq X
    BY <1>8
  <2>2. IsFiniteSet(W)
    <3> HIDE DEF W
    <3> QED BY <2>1, FS_Subset
  <2> HIDE DEF W
  <2> QED BY <1>3, <1>4, <1>5, <2>1, <2>2, SumIsInt
<1> HIDE DEF p, U, V, W
<1>14. Sum(f, T) = f[y] + Sum(f, V)
  BY <1>6, <1>10, <1>12, <1>13
<1> QED BY <1>4, <1>14 DEF V

LEMMA SumOfNone ==
  ASSUME NEW f
  PROVE  Sum(f, {}) = 0
<1>1. IsFiniteSet({})
  BY FS_EmptySet
<1> QED BY <1>1, SumIs

LEMMA SumOfZeros ==
  ASSUME NEW f, NEW X, IsFiniteSet(X), \A x \in X : f[x] = 0
  PROVE  Sum(f, X) = 0
<1> DEFINE B == {T \in SUBSET X : Sum(f, T) # 0}
<1>1. SUFFICES ASSUME B # {} PROVE FALSE
  OBVIOUS
<1>2. PICK T \in B : \A U \in B : U \subseteq T => U = T
  <2> HIDE DEF B
  <2>1. B \subseteq SUBSET X
    BY DEF B
  <2> QED BY <1>1, <2>1, MinimalSet
<1>3. T \subseteq X /\ IsFiniteSet(T) /\ Sum(f, T) # 0
  BY <1>2, FS_Subset
<1>4. Sum(f, T) = IF T = {} THEN 0 ELSE f[Pick(T)] + Sum(f, Less(T))
  BY <1>3, SumIs
<1>5. T # {} /\ Pick(T) \in X /\ Less(T) \subseteq T /\ Less(T) # T
  BY <1>3, <1>4, LessIsLess
<1>6. Less(T) \notin B
  BY <1>2, <1>5
<1>7. Sum(f, Less(T)) = 0
  BY <1>3, <1>5, <1>6
<1> QED BY <1>3, <1>4, <1>5, <1>7

LEMMA SumOfOnes ==
  ASSUME NEW f, NEW X, IsFiniteSet(X), \A x \in X : f[x] = 1
  PROVE  Sum(f, X) = Cardinality(X)
<1> DEFINE B == {T \in SUBSET X : Sum(f, T) # Cardinality(T)}
<1>1. SUFFICES ASSUME B # {} PROVE FALSE
  OBVIOUS
<1>2. PICK T \in B : \A U \in B : U \subseteq T => U = T
  <2> HIDE DEF B
  <2>1. B \subseteq SUBSET X
    BY DEF B
  <2> QED BY <1>1, <2>1, MinimalSet
<1>3. T \subseteq X /\ IsFiniteSet(T) /\ Sum(f, T) # Cardinality(T)
  BY <1>2, FS_Subset
<1>4. Sum(f, T) = IF T = {} THEN 0 ELSE f[Pick(T)] + Sum(f, Less(T))
  BY <1>3, SumIs
<1>5. T # {} /\ Pick(T) \in T /\ Less(T) \subseteq T /\ Less(T) # T
  BY <1>3, <1>4, FS_EmptySet, LessIsLess
<1>6. Less(T) \notin B
  BY <1>2, <1>5
<1>7. Sum(f, Less(T)) = Cardinality(Less(T))
  BY <1>3, <1>5, <1>6
<1>8. Cardinality(Less(T)) = Cardinality(T) - 1 /\ Cardinality(T) \in Nat
  BY <1>3, <1>5, FS_RemoveElement, FS_CardinalityType DEF Less
<1> QED BY <1>3, <1>4, <1>5, <1>7, <1>8

(* What is added up by kinds is added up.                                  *)
OfKind(kind, S, a) == {r \in S : kind[r] = a}

LEMMA SumByKind ==
  ASSUME NEW K, IsFiniteSet(K), NEW S, IsFiniteSet(S), NEW kind, \A r \in S : kind[r] \in K,
         NEW w, \A r \in S : w[r] \in Int
  PROVE  Sum([a \in K |-> Sum(w, OfKind(kind, S, a))], K) = Sum(w, S)
<1> DEFINE t(T) == [a \in K |-> Sum(w, OfKind(kind, T, a))]
           B == {T \in SUBSET S : Sum(t(T), K) # Sum(w, T)}
<1>1. SUFFICES ASSUME B # {} PROVE FALSE
  BY DEF t
<1>2. PICK T \in B : \A U \in B : U \subseteq T => U = T
  <2> HIDE DEF B
  <2>1. B \subseteq SUBSET S
    BY DEF B
  <2> QED BY <1>1, <2>1, MinimalSet
<1>3. T \subseteq S /\ IsFiniteSet(T) /\ Sum(t(T), K) # Sum(w, T)
  BY <1>2, FS_Subset
<1>4. T # {}
  <2> SUFFICES ASSUME T = {} PROVE FALSE
    OBVIOUS
  <2>1. \A a \in K : t(T)[a] = 0
    BY SumOfNone DEF OfKind
  <2> HIDE DEF t
  <2>2. Sum(t(T), K) = 0
    BY <2>1, SumOfZeros
  <2> QED BY <1>3, <2>2, SumOfNone
<1> DEFINE x == Pick(T)
           U == T \ {x}
           k == kind[x]
<1>5. x \in T /\ U = Less(T) /\ U \subseteq T /\ U # T
  BY <1>4, LessIsLess DEF Less
<1>6. IsFiniteSet(U) /\ U \subseteq S
  BY <1>3, <1>5, FS_Subset
<1>7. Sum(t(U), K) = Sum(w, U)
  <2> HIDE DEF U, t
  <2>1. U \notin B
    BY <1>2, <1>5
  <2> QED BY <1>6, <2>1
<1>8. Sum(w, T) = w[x] + Sum(w, U)
  BY <1>3, <1>4, <1>5, SumIs
<1>9. x \in S /\ k \in K /\ w[x] \in Int
  BY <1>3, <1>5
<1>10. \A V \in SUBSET S : \A a : IsFiniteSet(OfKind(kind, V, a)) /\ OfKind(kind, V, a) \subseteq V
  <2>1. \A V \in SUBSET S : \A a : OfKind(kind, V, a) \subseteq V
    BY DEF OfKind
  <2> QED BY <2>1, FS_Subset
<1>11. \A V \in SUBSET S : \A a \in K : t(V)[a] \in Int
  <2>1. ASSUME NEW V \in SUBSET S, NEW a \in K
        PROVE  Sum(w, OfKind(kind, V, a)) \in Int
    <3> DEFINE F == OfKind(kind, V, a)
    <3>1. IsFiniteSet(F) /\ F \subseteq S
      BY <1>10
    <3> HIDE DEF F
    <3>2. Sum(w, F) \in Int
      BY <3>1, SumIsInt
    <3> QED BY <3>2 DEF F
  <2> QED BY <2>1
<1>12. t(T)[k] = w[x] + t(U)[k]
  <2> DEFINE F == OfKind(kind, T, k)
  <2>1. x \in F /\ F \ {x} = OfKind(kind, U, k)
    BY <1>5 DEF OfKind
  <2>2. IsFiniteSet(F) /\ \A r \in F : w[r] \in Int
    BY <1>3, <1>10
  <2>3. Sum(w, F) = w[x] + Sum(w, F \ {x})
    <3> HIDE DEF F, x
    <3> QED BY <2>1, <2>2, SumTakes
  <2> HIDE DEF F, U, x, k
  <2> QED BY <1>9, <2>1, <2>3 DEF F
<1>13. \A a \in K \ {k} : t(T)[a] = t(U)[a]
  <2>1. \A a \in K \ {k} : OfKind(kind, T, a) = OfKind(kind, U, a)
    BY DEF OfKind
  <2> QED BY <2>1
<1> DEFINE J == K \ {k}
<1>14. IsFiniteSet(J)
  <2>1. J \subseteq K
    OBVIOUS
  <2> HIDE DEF J
  <2> QED BY <2>1, FS_Subset
<1> HIDE DEF t, x, U, k
<1>15. Sum(t(T), K) = t(T)[k] + Sum(t(T), J)
  BY <1>3, <1>9, <1>11, SumTakes
<1>16. Sum(t(U), K) = t(U)[k] + Sum(t(U), J)
  BY <1>6, <1>9, <1>11, SumTakes
<1>17. Sum(t(T), J) = Sum(t(U), J)
  <2>1. \A a \in J : t(T)[a] = t(U)[a]
    BY <1>13
  <2> HIDE DEF J
  <2> QED BY <1>14, <2>1, SumSame
<1>18. t(U)[k] \in Int /\ Sum(t(U), J) \in Int
  <2>1. \A a \in J : t(U)[a] \in Int
    BY <1>6, <1>11
  <2>2. t(U)[k] \in Int
    BY <1>6, <1>9, <1>11
  <2> HIDE DEF J
  <2> QED BY <1>14, <2>1, <2>2, SumIsInt
<1> HIDE DEF J
<1>19. Sum(t(T), K) = w[x] + Sum(t(U), K)
  BY <1>9, <1>12, <1>15, <1>16, <1>17, <1>18
<1> QED BY <1>3, <1>7, <1>8, <1>19

(* So is what is counted by kinds.                                         *)
LEMMA CountByKind ==
  ASSUME NEW K, IsFiniteSet(K), NEW S, IsFiniteSet(S), NEW kind, \A r \in S : kind[r] \in K
  PROVE  Sum([a \in K |-> Cardinality(OfKind(kind, S, a))], K) = Cardinality(S)
<1> DEFINE one == [r \in S |-> 1]
<1>1. \A r \in S : one[r] = 1
  OBVIOUS
<1> HIDE DEF one
<1>2. Sum([a \in K |-> Sum(one, OfKind(kind, S, a))], K) = Sum(one, S)
  BY <1>1, SumByKind
<1>3. ASSUME NEW T, T \subseteq S
      PROVE  Sum(one, T) = Cardinality(T)
  BY <1>1, <1>3, FS_Subset, SumOfOnes
<1>4. \A a \in K : Sum(one, OfKind(kind, S, a)) = Cardinality(OfKind(kind, S, a))
  BY <1>3 DEF OfKind
<1>5. [a \in K |-> Sum(one, OfKind(kind, S, a))] = [a \in K |-> Cardinality(OfKind(kind, S, a))]
  BY <1>4
<1> QED BY <1>2, <1>3, <1>5

LEMMA ImageIsFinite ==
  ASSUME NEW S, IsFiniteSet(S), NEW g
  PROVE  IsFiniteSet({g[r] : r \in S})
<1> DEFINE T == {g[r] : r \in S}
           h == [r \in S |-> g[r]]
<1>1. h \in [S -> T] /\ \A t \in T : \E r \in S : h[r] = t
  OBVIOUS
<1>2. h \in Surjection(S, T)
  <2> HIDE DEF h, T
  <2> QED BY <1>1, Fun_IsSurj
<1> HIDE DEF h, T
<1>3. IsFiniteSet(T)
  BY <1>2, FS_Surjection
<1> QED BY <1>3 DEF T

-----------------------------------------------------------------------------
(* The details a summary is made of.                                       *)

Details(S) == [r \in S |-> Shown(r)]

Statuses == {"CALCULATED", "MISSING_FACTOR", "INVALID_QUANTITY", "INVALID_UNIT",
             "MISSING_JURISDICTION", "TRACKED_ONLY"}

LEMMA EmissionsAreNumbers ==
  ASSUME KeptInv, NEW r \in Records, stored[r] # None
  PROVE  stored[r].emissions \in Int
<1> DEFINE f == stored[r].factor
           m == Multiplier(table[r].unit, f)
           quantity == table[r].quantity * m.n
           unit == 10 * m.d
           v == f.value
<1>1. /\ quantity \in Int /\ unit \in Nat \ {0} /\ v \in Nat /\ Scale \in Nat \ {0}
      /\ stored[r].emissions = Rounded(Rounded(quantity, unit) * v, Scale)
  BY KeptIsOfNumbers
<1> HIDE DEF quantity, unit, v
<1>2. Rounded(Rounded(quantity, unit) * v, Scale) \in Int
  BY <1>1, TwiceRounded
<1> QED BY <1>1, <1>2

(* A record is shown with what was kept of it, or as skipped for a reason. *)
LEMMA ShownIs ==
  ASSUME KeptInv, NEW r \in Records
  PROVE  /\ Shown(r).status \in Statuses
         /\ Shown(r).emissions \in Int
         /\ Shown(r).status = "CALCULATED" <=> stored[r] # None
         /\ stored[r] # None => Shown(r) = stored[r]
<1>1. ASSUME stored[r] # None
      PROVE  Shown(r) = stored[r] /\ stored[r].status = "CALCULATED"
  BY <1>1 DEF Shown, KeptInv, LocalInv, TypeOK
<1>2. ASSUME stored[r] = None
      PROVE  \E why \in Statuses \ {"CALCULATED"} : Shown(r) = Skipped(table[r], why)
  <2>1. Refusal(table[r]) \in Statuses \cup {"NONE"} /\ Refusal(table[r]) # "CALCULATED"
    BY DEF Refusal, Statuses
  <2> QED BY <1>2, <2>1 DEF Shown, Statuses
<1>3. ASSUME NEW row, NEW why
      PROVE  Skipped(row, why).status = why /\ Skipped(row, why).emissions = 0
  BY DEF Skipped
<1>4. CASE stored[r] # None
  <2>1. stored[r].emissions \in Int
    BY <1>4, EmissionsAreNumbers
  <2> QED BY <1>1, <1>4, <2>1 DEF Statuses
<1>5. CASE stored[r] = None
  <2>1. PICK why \in Statuses \ {"CALCULATED"} : Shown(r) = Skipped(table[r], why)
    BY <1>2, <1>5
  <2>2. Shown(r).status = why /\ Shown(r).emissions = 0
    BY <1>3, <2>1
  <2> QED BY <1>5, <2>2
<1> QED BY <1>4, <1>5

LEMMA CalculatedAreKept ==
  ASSUME KeptInv, NEW S, S \subseteq Records
  PROVE  With(Details(S), {"CALCULATED"}) = {r \in S : stored[r] # None}
<1>1. DOMAIN Details(S) = S /\ \A r \in S : Details(S)[r] = Shown(r)
  BY DEF Details
<1> QED BY <1>1, ShownIs DEF With

(* What a summary adds up are the kept results.                            *)
LEMMA ShowsWhatIsKept ==
  ASSUME KeptInv, NEW S, S \subseteq Records
  PROVE  ShowsResults(SummaryOf(Details(S)))
<1> DEFINE D == Details(S)
           kept == {r \in S : stored[r] # None}
           shown == SummaryOf(D)
<1>1. DOMAIN D = S /\ \A r \in S : D[r] = Shown(r)
  BY DEF Details
<1>2. With(D, {"CALCULATED"}) = kept
  BY CalculatedAreKept
<1>3. \A r \in kept : D[r] = stored[r]
  BY <1>1, ShownIs
<1> HIDE DEF D
<1>4. /\ shown.scope = S /\ shown.calculated = Cardinality(kept)
      /\ shown.total = Emitted(D, kept) /\ shown.factors = FactorsUsed(D)
  BY <1>1, <1>2 DEF SummaryOf
<1>5. Emitted(D, kept) = Emitted(stored, kept)
  <2>1. [r \in kept |-> D[r].emissions] = [r \in kept |-> stored[r].emissions]
    BY <1>3
  <2> HIDE DEF kept
  <2> QED BY <2>1 DEF Emitted
<1>6. \A f \in DOMAIN FactorsUsed(D) :
         FactorsUsed(D)[f] = Cardinality({r \in kept : stored[r].factor = f})
  <2>1. FactorsUsed(D) = [f \in {D[r].factor : r \in kept} |->
                             Cardinality({r \in kept : D[r].factor = f})]
    <3> HIDE DEF kept
    <3> QED BY <1>2 DEF FactorsUsed
  <2>2. ASSUME NEW f
        PROVE  {r \in kept : D[r].factor = f} = {r \in kept : stored[r].factor = f}
    BY <1>3
  <2> HIDE DEF kept
  <2> QED BY <2>1, <2>2
<1> HIDE DEF kept, shown
<1>7. kept = {r \in shown.scope : stored[r] # None}
  BY <1>4 DEF kept
<1> QED BY <1>4, <1>5, <1>6, <1>7 DEF ShowsResults, D, shown

(* What was consumed depends on the records, and not on the results.       *)
LEMMA UsageIsOfTheRecords ==
  ASSUME NEW S, NEW D, NEW E, DOMAIN D = S, DOMAIN E = S,
         \A r \in S : /\ D[r].activity = E[r].activity /\ D[r].unit = E[r].unit
                      /\ D[r].quantity = E[r].quantity
                      /\ D[r].status \in {"CALCULATED", "MISSING_FACTOR"}
                           <=> E[r].status \in {"CALCULATED", "MISSING_FACTOR"}
  PROVE  Usage(D) = Usage(E)
<1> DEFINE fuel(C) == {r \in Consumed(C) : C[r].activity \in Fuels}
           power(C) == {r \in Consumed(C) :
                           C[r].activity = Electricity /\ C[r].unit \in DOMAIN KwhPer}
           Key(C, r) == <<C[r].activity, C[r].unit>>
           Keys(C) == {Key(C, r) : r \in fuel(C)}
           Alike(C, k) == {r \in fuel(C) : Key(C, r) = k}
           Burnt(C, k) == [r \in Alike(C, k) |-> Rounded(C[r].quantity, 10)]
           Drawn(C) == [r \in power(C) |-> Rounded(C[r].quantity * KwhPer[C[r].unit], 10)]
<1>1. ASSUME NEW C
      PROVE  Usage(C) = [fuel |-> [k \in Keys(C) |-> AddUp(Burnt(C, k))],
                         electricity |-> AddUp(Drawn(C))]
  BY DEF Usage
<1>2. Consumed(D) = Consumed(E) /\ Consumed(D) \subseteq S
  BY DEF Consumed, With
<1>3. fuel(D) = fuel(E) /\ fuel(D) \subseteq S /\ power(D) = power(E) /\ power(D) \subseteq S
  BY <1>2
<1>4. \A r \in S : Key(D, r) = Key(E, r)
  OBVIOUS
<1>5. Drawn(D) = Drawn(E)
  <2> HIDE DEF power
  <2> QED BY <1>3
<1> HIDE DEF fuel, power, Key, Drawn
<1>6. Keys(D) = Keys(E)
  BY <1>3, <1>4
<1>7. \A k : Alike(D, k) = Alike(E, k) /\ Alike(D, k) \subseteq S
  BY <1>3, <1>4
<1> HIDE DEF Keys, Alike
<1>8. \A k : Burnt(D, k) = Burnt(E, k)
  BY <1>7
<1> HIDE DEF Burnt
<1>9. [k \in Keys(D) |-> AddUp(Burnt(D, k))] = [k \in Keys(E) |-> AddUp(Burnt(E, k))]
  BY <1>6, <1>8
<1> QED BY <1>1, <1>5, <1>9

LEMMA MeasuresWhatWasUsed ==
  ASSUME KeptInv, NEW S, S \subseteq Records
  PROVE  MeasuresUsage(SummaryOf(Details(S)))
<1> DEFINE D == Details(S)
           E == [r \in S |-> IF Refusal(table[r]) = "NONE"
                             THEN Skipped(table[r], "MISSING_FACTOR")
                             ELSE Skipped(table[r], Refusal(table[r]))]
           shown == SummaryOf(D)
<1>1. DOMAIN D = S /\ \A r \in S : D[r] = Shown(r)
  BY DEF Details
<1>2. DOMAIN E = S
  OBVIOUS
<1>3. ASSUME NEW row, NEW why
      PROVE  /\ Skipped(row, why).status = why /\ Skipped(row, why).activity = row.activity
             /\ Skipped(row, why).unit = row.unit
             /\ Skipped(row, why).quantity = row.quantity
  BY DEF Skipped
<1>4. ASSUME NEW r \in S
      PROVE  /\ D[r].activity = E[r].activity /\ D[r].unit = E[r].unit
             /\ D[r].quantity = E[r].quantity
             /\ D[r].status \in {"CALCULATED", "MISSING_FACTOR"}
                  <=> E[r].status \in {"CALCULATED", "MISSING_FACTOR"}
  <2>1. CASE stored[r] # None
    <3>1. D[r] = stored[r] /\ stored[r].status = "CALCULATED"
      BY <1>1, <2>1, ShownIs
    <3>2. E[r] = Skipped(table[r], "MISSING_FACTOR")
      BY <2>1 DEF KeptInv
    <3>3. /\ stored[r].activity = table[r].activity /\ stored[r].unit = table[r].unit
          /\ stored[r].quantity = table[r].quantity
      BY <2>1 DEF KeptInv
    <3> HIDE DEF D, E
    <3> QED BY <1>3, <3>1, <3>2, <3>3
  <2>2. CASE stored[r] = None
    <3>1. D[r] = E[r]
      BY <1>1, <2>2 DEF Shown
    <3> QED BY <3>1
  <2> QED BY <2>1, <2>2
<1> HIDE DEF D, E
<1>5. Usage(D) = Usage(E)
  BY <1>1, <1>2, <1>4, UsageIsOfTheRecords
<1>6. shown.scope = S /\ shown.usage = Usage(D)
  BY <1>1 DEF SummaryOf
<1> HIDE DEF shown
<1> QED BY <1>5, <1>6 DEF MeasuresUsage, E, D, shown

-----------------------------------------------------------------------------
(* Every record is counted once.                                           *)

LEMMA StatusesAddUp ==
  ASSUME KeptInv, NEW S, S \subseteq Records, IsFiniteSet(S)
  PROVE  LET D == Details(S)
         IN  Cardinality(With(D, {"CALCULATED"})) + AddUp(SkippedReasons(D)) = Cardinality(S)
<1> DEFINE D == Details(S)
           c == With(D, {"CALCULATED"})
           m == With(D, {"MISSING_FACTOR"})
           v == With(D, {"INVALID_QUANTITY", "INVALID_UNIT", "MISSING_JURISDICTION"})
           t == With(D, {"TRACKED_ONLY"})
           f == SkippedReasons(D)
<1>1. DOMAIN D = S /\ \A r \in S : D[r].status \in Statuses
  BY ShownIs DEF Details
<1> HIDE DEF D
<1>2. /\ c \subseteq S /\ m \subseteq S /\ v \subseteq S /\ t \subseteq S
      /\ S = ((c \cup m) \cup v) \cup t
      /\ c \cap m = {} /\ (c \cup m) \cap v = {} /\ ((c \cup m) \cup v) \cap t = {}
  BY <1>1 DEF With, Statuses
<1> HIDE DEF c, m, v, t
<1>3. IsFiniteSet(c) /\ IsFiniteSet(m) /\ IsFiniteSet(v) /\ IsFiniteSet(t)
  BY <1>2, FS_Subset
<1>4. IsFiniteSet(c \cup m) /\ Cardinality(c \cup m) = Cardinality(c) + Cardinality(m) - 0
  BY <1>2, <1>3, FS_Union, FS_EmptySet
<1>5. /\ IsFiniteSet((c \cup m) \cup v)
      /\ Cardinality((c \cup m) \cup v) = Cardinality(c \cup m) + Cardinality(v) - 0
  <2> DEFINE cm == c \cup m
  <2>1. IsFiniteSet(cm) /\ cm \cap v = {}
    BY <1>2, <1>4
  <2> HIDE DEF cm
  <2>2. IsFiniteSet(cm \cup v) /\ Cardinality(cm \cup v) = Cardinality(cm) + Cardinality(v) - 0
    BY <1>3, <2>1, FS_Union, FS_EmptySet
  <2> QED BY <2>2 DEF cm
<1>6. Cardinality(S) = Cardinality((c \cup m) \cup v) + Cardinality(t) - 0
  <2> DEFINE cmv == (c \cup m) \cup v
  <2>1. IsFiniteSet(cmv) /\ cmv \cap t = {} /\ S = cmv \cup t
    BY <1>2, <1>5
  <2> HIDE DEF cmv
  <2>2. Cardinality(cmv \cup t) = Cardinality(cmv) + Cardinality(t) - 0
    BY <1>3, <2>1, FS_Union, FS_EmptySet
  <2> QED BY <2>1, <2>2 DEF cmv
<1>7. f = [missingFactor |-> Cardinality(m), invalidData |-> Cardinality(v),
           trackedOnly |-> Cardinality(t)]
  BY DEF SkippedReasons, m, v, t
<1>8. /\ Cardinality(c) \in Nat /\ Cardinality(m) \in Nat
      /\ Cardinality(v) \in Nat /\ Cardinality(t) \in Nat
  BY <1>3, FS_CardinalityType
<1> DEFINE X == {"missingFactor", "invalidData", "trackedOnly"}
           Y == {"invalidData", "trackedOnly"}
           Z == {"trackedOnly"}
<1>9. /\ DOMAIN f = X /\ f["missingFactor"] = Cardinality(m)
      /\ f["invalidData"] = Cardinality(v) /\ f["trackedOnly"] = Cardinality(t)
  BY <1>7
<1> HIDE DEF f
<1>10. IsFiniteSet(X) /\ IsFiniteSet(Y) /\ IsFiniteSet(Z)
  <2>1. IsFiniteSet({})
    BY FS_EmptySet
  <2>2. IsFiniteSet({} \cup {"trackedOnly"})
    BY <2>1, FS_AddElement
  <2>3. IsFiniteSet(Z \cup {"invalidData"})
    BY <2>2, FS_AddElement
  <2>4. IsFiniteSet(Y \cup {"missingFactor"})
    BY <2>3, FS_AddElement
  <2>5. /\ {} \cup {"trackedOnly"} = Z /\ Z \cup {"invalidData"} = Y
        /\ Y \cup {"missingFactor"} = X
    OBVIOUS
  <2> QED BY <2>2, <2>3, <2>4, <2>5
<1>11. /\ X \ {"missingFactor"} = Y /\ Y \ {"invalidData"} = Z /\ Z \ {"trackedOnly"} = {}
       /\ \A x \in X : f[x] \in Int
  BY <1>8, <1>9
<1>12. "missingFactor" \in X /\ "invalidData" \in Y /\ "trackedOnly" \in Z
       /\ Y \subseteq X /\ Z \subseteq X
  OBVIOUS
<1> HIDE DEF X, Y, Z
<1>13. Sum(f, X) = Cardinality(m) + Sum(f, Y)
  BY <1>9, <1>10, <1>11, <1>12, SumTakes
<1>14. Sum(f, Y) = Cardinality(v) + Sum(f, Z)
  BY <1>9, <1>10, <1>11, <1>12, SumTakes
<1>15. Sum(f, Z) = Cardinality(t) + 0
  <2>1. Sum(f, Z) = f["trackedOnly"] + Sum(f, {})
    BY <1>10, <1>11, <1>12, SumTakes
  <2> QED BY <1>9, <2>1, SumOfNone
<1>16. AddUp(f) = Sum(f, X)
  BY <1>9, AddUpIsSum
<1>17. Cardinality(c) + AddUp(f) = Cardinality(S)
  BY <1>4, <1>5, <1>6, <1>8, <1>13, <1>14, <1>15, <1>16
<1> QED BY <1>17 DEF D, c, f

LEMMA ExcludedAddUp ==
  ASSUME KeptInv, NEW S, S \subseteq Records, IsFiniteSet(S)
  PROVE  LET D == Details(S)
         IN  Cardinality(With(D, {"CALCULATED"})) + AddUp(Excluded(D)) = Cardinality(S)
<1> DEFINE D == Details(S)
           c == With(D, {"CALCULATED"})
           out == S \ c
           kind == [r \in out |-> <<D[r].activity, ExcludedReason(D[r].status)>>]
           K == {kind[r] : r \in out}
<1>1. DOMAIN D = S
  BY DEF Details
<1> HIDE DEF D
<1>2. c \subseteq S
  BY <1>1 DEF With
<1>3. Excluded(D) = [k \in K |-> Cardinality(OfKind(kind, out, k))]
  <2>1. Excluded(D) =
          [k \in {<<D[r].activity, ExcludedReason(D[r].status)>> : r \in out} |->
             Cardinality({r \in out : <<D[r].activity, ExcludedReason(D[r].status)>> = k})]
    BY <1>1 DEF Excluded
  <2> HIDE DEF out
  <2>2. {<<D[r].activity, ExcludedReason(D[r].status)>> : r \in out} = K
    OBVIOUS
  <2>3. \A k : {r \in out : <<D[r].activity, ExcludedReason(D[r].status)>> = k}
                 = OfKind(kind, out, k)
    BY DEF OfKind
  <2> HIDE DEF K, kind
  <2> QED BY <2>1, <2>2, <2>3
<1> HIDE DEF c
<1>4. IsFiniteSet(c) /\ IsFiniteSet(out) /\ Cardinality(out) = Cardinality(S) - Cardinality(c)
  <2>1. IsFiniteSet(c) /\ S \cap c = c
    BY <1>2, FS_Subset
  <2>2. IsFiniteSet(S \ c) /\ Cardinality(S \ c) = Cardinality(S) - Cardinality(S \cap c)
    BY FS_Difference
  <2> QED BY <2>1, <2>2
<1>5. IsFiniteSet(K) /\ \A r \in out : kind[r] \in K
  <2>1. \A r \in out : kind[r] \in K
    OBVIOUS
  <2> HIDE DEF out, kind
  <2> QED BY <1>4, <2>1, ImageIsFinite
<1> HIDE DEF out, kind, K
<1>6. Sum([k \in K |-> Cardinality(OfKind(kind, out, k))], K) = Cardinality(out)
  BY <1>4, <1>5, CountByKind
<1>7. AddUp(Excluded(D)) = Sum(Excluded(D), K)
  BY <1>3, AddUpIsSum
<1>8. Cardinality(c) \in Nat /\ Cardinality(S) \in Nat
  BY <1>4, FS_CardinalityType
<1> QED BY <1>3, <1>4, <1>6, <1>7, <1>8 DEF D, c

LEMMA CategoriesAddUp ==
  ASSUME KeptInv, NEW S, S \subseteq Records, IsFiniteSet(S)
  PROVE  LET D == Details(S)
             categories == Categories(D)
         IN  AddUp([a \in DOMAIN categories |-> categories[a].emissions])
               = Emitted(D, With(D, {"CALCULATED"}))
<1> DEFINE D == Details(S)
           c == With(D, {"CALCULATED"})
           w == [r \in S |-> D[r].emissions]
           kind == [r \in S |-> D[r].activity]
           K == {kind[r] : r \in S}
           perCategory == [a \in DOMAIN Categories(D) |-> Categories(D)[a].emissions]
<1>1. DOMAIN D = S /\ \A r \in S : D[r].emissions \in Int
  BY ShownIs DEF Details
<1> HIDE DEF D
<1>2. c \subseteq S
  BY <1>1 DEF With
<1>3. IsFiniteSet(c)
  <2> HIDE DEF c
  <2> QED BY <1>2, FS_Subset
<1>4. ASSUME NEW X, X \subseteq S
      PROVE  Emitted(D, X) = Sum(w, X)
  <2> DEFINE e == [r \in X |-> D[r].emissions]
  <2>1. DOMAIN e = X /\ \A r \in X : e[r] = w[r]
    BY <1>4
  <2>2. Emitted(D, X) = AddUp(e)
    BY DEF Emitted
  <2>3. IsFiniteSet(X)
    BY <1>4, FS_Subset
  <2> HIDE DEF e, w
  <2>4. AddUp(e) = Sum(e, X)
    BY <2>1, AddUpIsSum
  <2> QED BY <2>1, <2>2, <2>3, <2>4, SumSame
<1>5. /\ DOMAIN Categories(D) = K
      /\ \A a \in K : Categories(D)[a].emissions = Emitted(D, {r \in S : D[r].activity = a} \cap c)
  <2>1. K = {D[r].activity : r \in S}
    OBVIOUS
  <2> HIDE DEF K
  <2> QED BY <1>1, <2>1 DEF Categories
<1>6. \A a : /\ {r \in S : D[r].activity = a} \cap c = OfKind(kind, c, a)
            /\ OfKind(kind, c, a) \subseteq S
  <2> HIDE DEF c
  <2> QED BY <1>2 DEF OfKind
<1>7. perCategory = [a \in K |-> Sum(w, OfKind(kind, c, a))]
  <2> HIDE DEF K, w, kind, c
  <2>1. ASSUME NEW a \in K
        PROVE  Categories(D)[a].emissions = Sum(w, OfKind(kind, c, a))
    BY <1>4, <1>5, <1>6
  <2> QED BY <1>5, <2>1
<1>8. IsFiniteSet(K)
  <2> HIDE DEF kind
  <2> QED BY ImageIsFinite
<1>9. (\A r \in c : kind[r] \in K) /\ \A r \in c : w[r] \in Int
  <2> HIDE DEF c
  <2> QED BY <1>1, <1>2
<1> HIDE DEF c, w, kind, K
<1>10. Sum([a \in K |-> Sum(w, OfKind(kind, c, a))], K) = Sum(w, c)
  BY <1>3, <1>8, <1>9, SumByKind
<1>11. AddUp(perCategory) = Sum(perCategory, K)
  <2>1. DOMAIN perCategory = K
    BY <1>5
  <2> HIDE DEF perCategory
  <2> QED BY <2>1, AddUpIsSum
<1>12. AddUp(perCategory) = Emitted(D, c)
  <2> HIDE DEF perCategory
  <2> QED BY <1>2, <1>4, <1>7, <1>10, <1>11
<1> QED BY <1>12 DEF D, c

LEMMA CountsEachOnce ==
  ASSUME KeptInv, NEW S, S \subseteq Records, IsFiniteSet(S)
  PROVE  CountsOnce(SummaryOf(Details(S)))
<1> DEFINE D == Details(S)
           shown == SummaryOf(D)
<1>1. DOMAIN D = S
  BY DEF Details
<1> HIDE DEF D
<1>2. /\ shown.scope = S /\ shown.calculated = Cardinality(With(D, {"CALCULATED"}))
      /\ shown.total = Emitted(D, With(D, {"CALCULATED"}))
      /\ shown.skipped = SkippedReasons(D) /\ shown.categories = Categories(D)
      /\ shown.excluded = Excluded(D)
  BY <1>1 DEF SummaryOf
<1> HIDE DEF shown
<1>3. /\ Cardinality(With(D, {"CALCULATED"})) + AddUp(SkippedReasons(D)) = Cardinality(S)
      /\ Cardinality(With(D, {"CALCULATED"})) + AddUp(Excluded(D)) = Cardinality(S)
  BY StatusesAddUp, ExcludedAddUp DEF D
<1>4. AddUp([a \in DOMAIN Categories(D) |-> Categories(D)[a].emissions])
        = Emitted(D, With(D, {"CALCULATED"}))
  BY CategoriesAddUp DEF D
<1> QED BY <1>2, <1>3, <1>4 DEF CountsOnce, shown, D

(* "Historical projection uses persisted data only": whatever the          *)
(* catalogue has become, a summary adds up the kept results of its scope   *)
(* and counts each record once, by status, by category and by what it was  *)
(* excluded for; and the usage it shows does not depend on the results.    *)
THEOREM SummariesHold == Spec => SummaryHolds
<1>1. KeptInv /\ [Next]_vars =>
        [summary' # summary =>
            /\ ShowsResults(summary') /\ CountsOnce(summary') /\ MeasuresUsage(summary')]_vars
  <2> SUFFICES ASSUME KeptInv, [Next]_vars, summary' # summary
               PROVE  /\ ShowsResults(summary') /\ CountsOnce(summary')
                      /\ MeasuresUsage(summary')
    OBVIOUS
  <2>1. PICK S \in Scopes : Summarize(S)
    BY DEF Next, vars, CalculateRecord, CreateCustom, UpdateCustom, RemoveCustom, Catalogued
  <2>2. S \subseteq Records /\ IsFiniteSet(S)
    BY SummaryAssumption
  <2>3. summary' = SummaryOf(Details(S))
    BY <2>1 DEF Summarize, Details
  <2> QED BY <2>2, <2>3, ShowsWhatIsKept, CountsEachOnce, MeasuresWhatWasUsed
<1> QED BY <1>1, KeptInvInit, KeptInvStep, PTL DEF Spec, SummaryHolds
=============================================================================
