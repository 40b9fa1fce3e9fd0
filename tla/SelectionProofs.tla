--------------------------- MODULE SelectionProofs ---------------------------
(***************************************************************************)
(* Theorems about MetricsSummary: whatever the catalogue holds,            *)
(* electricity is calculated with a factor of the region it was used in,   *)
(* one factor more wins or changes nothing, and what the catalogue's own   *)
(* ladder offers is not left for an ungoverned default.                    *)
(***************************************************************************)
EXTENDS MetricsSummary, FiniteSetTheorems, TLAPS

-----------------------------------------------------------------------------
(* What a sort picks.  A finite set that is not empty has an element that  *)
(* none precedes, in whatever order; so a sort picks one.                  *)

LEMMA NonePrecedes ==
  ASSUME NEW S, IsFiniteSet(S), S # {}, NEW R,
         \A x, y, z \in S : <<x, y>> \in R /\ <<y, z>> \in R => <<x, z>> \in R,
         \A x \in S : <<x, x>> \notin R
  PROVE  \E x \in S : \A y \in S : <<y, x>> \notin R
<1> DEFINE Above(x) == {y \in S : <<y, x>> \in R}
           A == {Above(x) : x \in S}
           O == StrictSubsetOrdering(S)
<1>1. IsWellFoundedOn(O, FiniteSubsetsOf(S))
  BY FS_StrictSubsetOrderingWellFounded
<1>2. A \subseteq FiniteSubsetsOf(S) /\ A # {}
  <2>1. FiniteSubsetsOf(S) = SUBSET S
    BY FS_FiniteSubsetsOfFinite
  <2>2. \A x \in S : Above(x) \in SUBSET S
    OBVIOUS
  <2>3. ASSUME NEW a \in A
        PROVE  a \in SUBSET S
    <3>1. PICK x \in S : a = Above(x)
      BY <2>3
    <3> QED BY <3>1
  <2>4. A # {}
    <3>1. PICK x \in S : TRUE
      OBVIOUS
    <3>2. Above(x) \in A
      OBVIOUS
    <3> QED BY <3>2
  <2> HIDE DEF A
  <2> QED BY <2>1, <2>3, <2>4
<1>3. PICK m \in A : \A n \in A : <<n, m>> \notin O
  <2> HIDE DEF A, O
  <2> QED BY <1>1, <1>2, WFMin
<1>4. PICK x \in S : m = Above(x)
  OBVIOUS
<1>5. ASSUME NEW y \in S, <<y, x>> \in R PROVE FALSE
  <2>1. Above(y) \subseteq Above(x)
    BY <1>5
  <2>2. y \in Above(x) /\ y \notin Above(y)
    BY <1>5
  <2>3. Above(y) \in A
    OBVIOUS
  <2>4. <<Above(y), Above(x)>> \in O
    BY <2>1, <2>2 DEF StrictSubsetOrdering
  <2> QED BY <1>3, <1>4, <2>3, <2>4
<1> QED BY <1>5

(* The first rung that holds a factor, as a statement about the rungs.     *)
LEMMA FirstFoundIs ==
  ASSUME NEW ladder, NEW n \in Nat, DOMAIN ladder = 1..n
  PROVE  \/ /\ FirstFound(ladder) = NoMatch
            /\ \A i \in 1..n : ladder[i].found = {}
         \/ \E i \in 1..n : /\ FirstFound(ladder) = ladder[i]
                             /\ ladder[i].found # {}
                             /\ \A j \in 1..n : j < i => ladder[j].found = {}
<1> DEFINE hits == {i \in 1..n : ladder[i].found # {}}
           i == CHOOSE i \in hits : \A j \in hits : i <= j
<1>1. FirstFound(ladder) = IF hits = {} THEN NoMatch ELSE ladder[i]
  BY DEF FirstFound
<1>2. CASE hits = {}
  BY <1>1, <1>2
<1>3. CASE hits # {}
  <2>1. hits \subseteq 1..n /\ IsFiniteSet(hits)
    <3>1. hits \subseteq 1..n
      OBVIOUS
    <3>2. IsFiniteSet(1..n)
      BY FS_Interval
    <3> HIDE DEF hits
    <3> QED BY <3>1, <3>2, FS_Subset
  <2>2. \E k \in hits : \A j \in hits : k <= j
    <3> DEFINE R == {p \in hits \X hits : p[1] < p[2]}
    <3> HIDE DEF hits
    <3>1. \A x, y \in hits : <<x, y>> \in R <=> x < y
      OBVIOUS
    <3>2. hits \subseteq Int
      BY <2>1
    <3> HIDE DEF R
    <3>3. /\ \A x, y, z \in hits : <<x, y>> \in R /\ <<y, z>> \in R => <<x, z>> \in R
          /\ \A x \in hits : <<x, x>> \notin R
      BY <3>1, <3>2
    <3>4. PICK k \in hits : \A j \in hits : <<j, k>> \notin R
      BY <1>3, <2>1, <3>3, NonePrecedes
    <3>5. ASSUME NEW j \in hits
          PROVE  k <= j
      <4>1. ~ (j < k)
        BY <3>1, <3>4
      <4> QED BY <3>2, <4>1
    <3> QED BY <3>5
  <2>3. i \in hits /\ \A j \in hits : i <= j
    <3> HIDE DEF hits
    <3> QED BY <2>2
  <2> HIDE DEF i
  <2>4. i \in 1..n /\ ladder[i].found # {}
    BY <2>3
  <2>5. \A j \in 1..n : j < i => ladder[j].found = {}
    BY <2>3, <2>4
  <2> QED BY <1>1, <1>3, <2>4, <2>5
<1> QED BY <1>2, <1>3

LEMMA FirstRung ==
  ASSUME NEW q, NEW C
  PROVE  \/ /\ matchFactor(q, C) = NoMatch
            /\ \A i \in 1..10 : Ladder(q, C)[i].found = {}
         \/ \E i \in 1..10 : /\ matchFactor(q, C) = Ladder(q, C)[i]
                              /\ Ladder(q, C)[i].found # {}
                              /\ \A j \in 1..10 : j < i => Ladder(q, C)[j].found = {}
<1>1. DOMAIN Ladder(q, C) = 1..10
  BY DEF Ladder
<1> QED BY <1>1, FirstFoundIs DEF matchFactor

-----------------------------------------------------------------------------
(* Every rung sorts what it searches and takes the first.                  *)

Searched(q, C) ==
    LET L == LegacyCandidates(q, C)
        G == GovernedCandidates(q, C)
        past == {f \in G : f.year # NoYear /\ f.year < q.year}
        verified == Verified(Defaults(L), q)
    IN  << Local(Verified({f \in L : f.own}, q), q),
           Local({f \in OfYear(G, q) : countryMatches(f, q)}, q),
           CountryWide(OfYear(G, q), q),
           Local(past, q) \cup CountryWide(past, q),
           Local(G, q) \cup CountryWide(G, q),
           Local(verified, q),
           CountryWide(verified, q),
           AnyDefault(L, q),
           {f \in Defaults(L) : q.activity \in Fallback /\ isCountryLevel(f)},
           Demo(L, q) >>

Taken(i, S, q) ==
    CASE i \in {2, 3} -> Best(S)
      [] i = 4 -> Best(Latest(S))
      [] i = 5 -> Best(Nearest(S, q))
      [] OTHER -> First(Latest(S))

LEMMA RungIsTaken ==
  ASSUME NEW q, NEW C, NEW i \in 1..10
  PROVE  Ladder(q, C)[i].found = Taken(i, Searched(q, C)[i], q)
<1> DEFINE L == LegacyCandidates(q, C)
           G == GovernedCandidates(q, C)
           own == {f \in L : f.own}
           year == {f \in OfYear(G, q) : countryMatches(f, q)}
           verified == Verified(Defaults(L), q)
           wide == {f \in Defaults(L) : q.activity \in Fallback /\ isCountryLevel(f)}
           past == {f \in G : f.year # NoYear /\ f.year < q.year}
<1>1. Ladder(q, C) =
        << [by |-> "CUSTOM", found |-> First(Latest(Local(Verified(own, q), q)))],
           [by |-> "EXACT_REGION_YEAR", found |-> Best(Local(year, q))],
           [by |-> "COUNTRY_YEAR", found |-> Best(CountryWide(OfYear(G, q), q))],
           [by |-> "PRIOR_YEAR", found |-> PriorYear(G, q)],
           [by |-> "NEAREST_YEAR", found |-> NearestYear(G, q)],
           [by |-> "VERIFIED_REGION", found |-> First(Latest(Local(verified, q)))],
           [by |-> "VERIFIED_COUNTRY", found |-> First(Latest(CountryWide(verified, q)))],
           [by |-> "DEFAULT_REGION", found |-> First(Latest(AnyDefault(L, q)))],
           [by |-> "DEFAULT_COUNTRY", found |-> First(Latest(wide))],
           [by |-> "PLACEHOLDER", found |-> First(Latest(Demo(L, q)))] >>
  BY DEF Ladder
<1>2. Searched(q, C) =
        << Local(Verified(own, q), q), Local(year, q), CountryWide(OfYear(G, q), q),
           Local(past, q) \cup CountryWide(past, q), Local(G, q) \cup CountryWide(G, q),
           Local(verified, q), CountryWide(verified, q), AnyDefault(L, q), wide, Demo(L, q) >>
  BY DEF Searched
<1>3. /\ PriorYear(G, q) = Best(Latest(Local(past, q) \cup CountryWide(past, q)))
      /\ NearestYear(G, q) = Best(Nearest(Local(G, q) \cup CountryWide(G, q), q))
  BY DEF PriorYear, NearestYear
<1> HIDE DEF L, G, own, year, verified, wide, past
<1>4. CASE i \in {2, 3}
  BY <1>1, <1>2, <1>4 DEF Taken
<1>5. CASE i = 4
  BY <1>1, <1>2, <1>3, <1>5 DEF Taken
<1>6. CASE i = 5
  BY <1>1, <1>2, <1>3, <1>6 DEF Taken
<1>7. CASE i \in {1, 6, 7, 8, 9, 10}
  <2>1. Taken(i, Searched(q, C)[i], q) = First(Latest(Searched(q, C)[i]))
    BY <1>7 DEF Taken
  <2> QED BY <1>1, <1>2, <1>7, <2>1
<1> QED BY <1>4, <1>5, <1>6, <1>7

(* The searches return what they are given, those for a place what is of   *)
(* the place, and those for a whole country nothing for electricity.       *)

LEMMA Sorted ==
  ASSUME NEW S, NEW q
  PROVE  /\ Best(S) \subseteq S /\ Latest(S) \subseteq S
         /\ Nearest(S, q) \subseteq S /\ First(S) \subseteq S
BY DEF Best, Latest, Nearest, First

LEMMA NothingCountryWide ==
  ASSUME NEW S, NEW q, q.activity = Electricity
  PROVE  CountryWide(S, q) = {}
BY SelectionAssumption DEF CountryWide

LEMMA TakenIsSearched ==
  ASSUME NEW i, NEW S, NEW q
  PROVE  Taken(i, S, q) \subseteq S
<1>1. /\ Best(S) \subseteq S
      /\ Best(Latest(S)) \subseteq S
      /\ Best(Nearest(S, q)) \subseteq S
      /\ First(Latest(S)) \subseteq S
  BY Sorted
<1> QED BY <1>1 DEF Taken

LEMMA SearchedIsCandidate ==
  ASSUME NEW q, NEW C, NEW i \in 1..10
  PROVE  Searched(q, C)[i] \subseteq IF i \in 2..5 THEN GovernedCandidates(q, C)
                                    ELSE LegacyCandidates(q, C)
<1> DEFINE L == LegacyCandidates(q, C)
           G == GovernedCandidates(q, C)
           own == {f \in L : f.own}
           year == {f \in OfYear(G, q) : countryMatches(f, q)}
           verified == Verified(Defaults(L), q)
           wide == {f \in Defaults(L) : q.activity \in Fallback /\ isCountryLevel(f)}
           past == {f \in G : f.year # NoYear /\ f.year < q.year}
<1>1. Searched(q, C) =
        << Local(Verified(own, q), q), Local(year, q), CountryWide(OfYear(G, q), q),
           Local(past, q) \cup CountryWide(past, q), Local(G, q) \cup CountryWide(G, q),
           Local(verified, q), CountryWide(verified, q), AnyDefault(L, q), wide, Demo(L, q) >>
  BY DEF Searched
<1>2. /\ own \subseteq L /\ wide \subseteq L /\ year \subseteq G /\ past \subseteq G
      /\ verified \subseteq L /\ OfYear(G, q) \subseteq G
  BY DEF Defaults, Verified, OfYear
<1>3. AnyDefault(L, q) \subseteq L /\ Demo(L, q) \subseteq L
  BY DEF AnyDefault, Demo, Defaults, Local
<1> HIDE DEF L, G, own, year, verified, wide, past
<1>4. \A S : Local(S, q) \subseteq S /\ CountryWide(S, q) \subseteq S /\ Verified(S, q) \subseteq S
  BY DEF Local, CountryWide, Verified
<1>5. /\ Local(Verified(own, q), q) \subseteq L /\ Local(verified, q) \subseteq L
      /\ CountryWide(verified, q) \subseteq L
  BY <1>2, <1>4
<1>6. /\ Local(year, q) \subseteq G /\ CountryWide(OfYear(G, q), q) \subseteq G
      /\ Local(past, q) \cup CountryWide(past, q) \subseteq G
      /\ Local(G, q) \cup CountryWide(G, q) \subseteq G
  BY <1>2, <1>4
<1> QED BY <1>1, <1>2, <1>3, <1>5, <1>6 DEF L, G

LEMMA SearchedIsCatalogued ==
  ASSUME NEW q, NEW C, NEW i \in 1..10
  PROVE  /\ Searched(q, C)[i] \subseteq C
         /\ i \in 2..5 => \A f \in Searched(q, C)[i] : f.kind = "governed"
<1>1. /\ LegacyCandidates(q, C) \subseteq C
      /\ GovernedCandidates(q, C) \subseteq C
      /\ \A f \in GovernedCandidates(q, C) : f.kind = "governed"
  BY DEF LegacyCandidates, GovernedCandidates
<1> QED BY <1>1, SearchedIsCandidate

(* A match is what some rung searched for.                                 *)
LEMMA MatchIsSearched ==
  ASSUME NEW q, NEW C, NEW f \in matchFactor(q, C).found
  PROVE  \E i \in 1..10 : f \in Searched(q, C)[i]
<1>1. matchFactor(q, C) # NoMatch
  BY DEF NoMatch
<1>2. PICK i \in 1..10 : matchFactor(q, C) = Ladder(q, C)[i]
  BY <1>1, FirstRung
<1> QED BY <1>2, RungIsTaken, TakenIsSearched

(* What every rung returns is in the catalogue.                            *)
LEMMA MatchIsCatalogued ==
  ASSUME NEW q, NEW C
  PROVE  matchFactor(q, C).found \subseteq C
BY MatchIsSearched, SearchedIsCatalogued

(* What a rung searches for electricity is of the very region.             *)
LEMMA SearchedInPlace ==
  ASSUME NEW q, NEW C, q.activity = Electricity, NEW i \in 1..10,
         NEW f \in Searched(q, C)[i]
  PROVE  q.region # NoPlace /\ Region(f) = q.region
<1> DEFINE L == LegacyCandidates(q, C)
           G == GovernedCandidates(q, C)
           own == {g \in L : g.own}
           year == {g \in OfYear(G, q) : countryMatches(g, q)}
           verified == Verified(Defaults(L), q)
           wide == {g \in Defaults(L) : q.activity \in Fallback /\ isCountryLevel(g)}
           past == {g \in G : g.year # NoYear /\ g.year < q.year}
<1>1. Searched(q, C) =
        << Local(Verified(own, q), q), Local(year, q), CountryWide(OfYear(G, q), q),
           Local(past, q) \cup CountryWide(past, q), Local(G, q) \cup CountryWide(G, q),
           Local(verified, q), CountryWide(verified, q), AnyDefault(L, q), wide, Demo(L, q) >>
  BY DEF Searched
<1>2. \A S : CountryWide(S, q) = {}
  BY NothingCountryWide
<1>3. wide = {}
  BY SelectionAssumption
<1>4. \A g \in AnyDefault(L, q) \cup Demo(L, q) : regionMatchesExactly(g, q)
  BY DEF AnyDefault, Demo, Local
<1>5. \A S : \A g \in Local(S, q) : regionMatchesExactly(g, q)
  BY DEF Local
<1> HIDE DEF L, G, own, year, verified, wide, past
<1>6. regionMatchesExactly(f, q)
  <2>1. CASE i \in {1, 2, 3}
    BY <1>1, <1>2, <1>5, <2>1
  <2>2. CASE i \in {4, 5}
    BY <1>1, <1>2, <1>5, <2>2
  <2>3. CASE i \in {6, 7, 8, 9, 10}
    BY <1>1, <1>2, <1>3, <1>4, <1>5, <2>3
  <2> QED BY <2>1, <2>2, <2>3
<1> QED BY <1>6 DEF regionMatchesExactly

(* "Electricity factors must be jurisdiction-specific": of any catalogue,  *)
(* for any place, matchFactor gives electricity a factor of its region.    *)
THEOREM ElectricityFactorIsLocal ==
  ASSUME NEW q, NEW C, q.activity = Electricity, NEW f \in matchFactor(q, C).found
  PROVE  f \in C /\ q.region # NoPlace /\ Region(f) = q.region
<1>1. PICK i \in 1..10 : f \in Searched(q, C)[i]
  BY MatchIsSearched
<1> QED BY <1>1, MatchIsCatalogued, SearchedInPlace

-----------------------------------------------------------------------------
(* A calculated judgement: from the catalogue and, for electricity, from   *)
(* the region the record's place resolves to.                              *)
LEMMA JudgedLocally ==
  ASSUME NEW row, NEW C, Evaluated(row, C).status = "CALCULATED"
  PROVE  LET f == Evaluated(row, C).factor
         IN  /\ f \in C
             /\ row.activity = Electricity =>
                  Region(f) # NoPlace /\ Region(f) = Jurisdiction(row).region
<1> DEFINE q == QueryOf(row)
           m == matchFactor(q, C)
           f == CHOOSE f \in m.found : TRUE
<1>0. ASSUME NEW why, why # "CALCULATED"
      PROVE  Skipped(row, why).status # "CALCULATED"
  BY <1>0 DEF Skipped
<1>1. Refusal(row) # "CALCULATED"
  BY DEF Refusal
<1>2. Refusal(row) = "NONE" /\ m.found # {} /\ Evaluated(row, C) = Calculated(row, q, m)
  BY <1>0, <1>1 DEF Evaluated
<1>3. Evaluated(row, C).factor = f
  BY <1>2 DEF Calculated
<1>4. f \in m.found
  BY <1>2
<1>5. q.activity = row.activity /\ q.region = Jurisdiction(row).region
  BY DEF QueryOf
<1> HIDE DEF q, f
<1>6. f \in C
  BY <1>4, MatchIsCatalogued
<1>7. ASSUME row.activity = Electricity
      PROVE  q.region # NoPlace /\ Region(f) = q.region
  BY <1>4, <1>5, <1>7, ElectricityFactorIsLocal
<1> QED BY <1>3, <1>5, <1>6, <1>7

(* ElectricityStaysLocal is inductive once the place is the resolved one.  *)
LocalInv ==
    /\ TypeOK
    /\ \A r \in Records : stored[r] # None /\ table[r].activity = Electricity =>
          /\ Region(stored[r].factor) # NoPlace
          /\ Region(stored[r].factor) = Jurisdiction(table[r]).region

LEMMA LocalInvInit == Init => LocalInv
<1> SUFFICES ASSUME Init PROVE LocalInv
  OBVIOUS
<1>1. catalogue \subseteq Pool
  BY SummaryAssumption DEF Init
<1> QED BY <1>1, SummaryAssumption DEF Init, LocalInv, TypeOK

LEMMA CalculateKeepsLocal ==
  ASSUME LocalInv, NEW r \in Records, CalculateRecord(r)
  PROVE  LocalInv'
<1> DEFINE e == Evaluated(table[r], catalogue)
<1>1. UNCHANGED <<catalogue, table, organization, summary, edits>>
  BY DEF CalculateRecord
<1>2. stored' = [stored EXCEPT ![r] = Kept(e)]
  BY DEF CalculateRecord
<1>3. \/ Kept(e) = None
      \/ e.status = "CALCULATED" /\ Kept(e) = e
  BY DEF Kept
<1> HIDE DEF e
<1>4. /\ DOMAIN stored' = Records
      /\ \A s \in Records : stored'[s] = IF s = r THEN Kept(e) ELSE stored[s]
  BY <1>2 DEF LocalInv, TypeOK
<1>5. \A s \in Records : Jurisdiction(table[s])' = Jurisdiction(table[s])
  BY <1>1 DEF Jurisdiction
<1>6. e.status = "CALCULATED" =>
        /\ e.factor \in catalogue
        /\ table[r].activity = Electricity =>
              Region(e.factor) # NoPlace /\ Region(e.factor) = Jurisdiction(table[r]).region
  BY JudgedLocally DEF e
<1> QED BY <1>1, <1>3, <1>4, <1>5, <1>6 DEF LocalInv, TypeOK

(* Edits of the catalogue leave the kept results alone.                    *)
LEMMA EditKeepsLocal ==
  ASSUME LocalInv, NEW C \in SUBSET Pool, Catalogued(C)
  PROVE  LocalInv'
<1>1. /\ UNCHANGED <<table, organization, stored>>
      /\ catalogue' = C /\ edits < MaxEdits /\ edits' = edits + 1
  BY DEF Catalogued
<1>2. edits' \in 0..MaxEdits
  BY <1>1, SummaryAssumption DEF LocalInv, TypeOK
<1>3. \A r \in Records : Jurisdiction(table[r])' = Jurisdiction(table[r])
  BY <1>1 DEF Jurisdiction
<1> QED BY <1>1, <1>2, <1>3 DEF LocalInv, TypeOK

LEMMA LocalInvStep == LocalInv /\ [Next]_vars => LocalInv'
<1> SUFFICES ASSUME LocalInv, [Next]_vars PROVE LocalInv'
  OBVIOUS
<1>0. catalogue \subseteq Pool
  BY DEF LocalInv, TypeOK
<1>1. CASE \E r \in Records : CalculateRecord(r)
  BY <1>1, CalculateKeepsLocal
<1>2. CASE \E S \in Scopes : Summarize(S)
  <2>1. UNCHANGED <<catalogue, table, organization, stored, edits>>
    BY <1>2 DEF Summarize
  <2>2. \A r \in Records : Jurisdiction(table[r])' = Jurisdiction(table[r])
    BY <2>1 DEF Jurisdiction
  <2> QED BY <2>1, <2>2 DEF LocalInv, TypeOK
<1>3. CASE \E f \in Own(Pool) : CreateCustom(f) \/ RemoveCustom(f)
  <2>1. PICK f \in Own(Pool) : CreateCustom(f) \/ RemoveCustom(f)
    BY <1>3
  <2>2. f \in Pool
    BY DEF Own
  <2>3. CASE CreateCustom(f)
    BY <1>0, <2>2, <2>3, EditKeepsLocal DEF CreateCustom
  <2>4. CASE RemoveCustom(f)
    BY <1>0, <2>4, EditKeepsLocal DEF RemoveCustom
  <2> QED BY <2>1, <2>3, <2>4
<1>4. CASE \E f, g \in Own(Pool) : UpdateCustom(f, g)
  <2>1. PICK f \in Own(Pool), g \in Own(Pool) : UpdateCustom(f, g)
    BY <1>4
  <2>2. g \in Pool
    BY DEF Own
  <2> QED BY <1>0, <2>1, <2>2, EditKeepsLocal DEF UpdateCustom
<1>5. CASE UNCHANGED vars
  <2>1. UNCHANGED <<catalogue, table, organization, stored, edits>>
    BY <1>5 DEF vars
  <2>2. \A r \in Records : Jurisdiction(table[r])' = Jurisdiction(table[r])
    BY <2>1 DEF Jurisdiction
  <2> QED BY <2>1, <2>2 DEF LocalInv, TypeOK
<1> QED BY <1>1, <1>2, <1>3, <1>4, <1>5 DEF Next

LEMMA LocalInvImplies == LocalInv => ElectricityStaysLocal
<1> SUFFICES ASSUME LocalInv,
                    NEW r \in Records, stored[r] # None, table[r].activity = Electricity,
                    NEW used,
                    used = IF Says(table[r].place) THEN table[r].place ELSE table[r].facility
             PROVE  /\ Region(stored[r].factor) # NoPlace
                    /\ Says(used) => Region(stored[r].factor) = used.region
  BY DEF ElectricityStaysLocal
<1>1. Says(used) => Jurisdiction(table[r]) = InCanada(used)
  BY DEF Jurisdiction
<1>2. table[r].place \in Jurisdictions /\ table[r].facility \in Jurisdictions
  BY SummaryAssumption DEF LocalInv, TypeOK
<1>3. InCanada(used).region = used.region
  BY <1>2 DEF InCanada, Jurisdictions
<1> QED BY <1>1, <1>3 DEF LocalInv

(* However catalogues, calculations and summaries interleave, electricity  *)
(* keeps a factor of the region it was used in: never one of the province  *)
(* a bill's text names, of the organization's seat, or of the country.     *)
THEOREM ElectricityIsLocal == Spec => []ElectricityStaysLocal
<1>1. Init => LocalInv
  BY LocalInvInit
<1>2. LocalInv /\ [Next]_vars => LocalInv'
  BY LocalInvStep
<1>3. LocalInv => ElectricityStaysLocal
  BY LocalInvImplies
<1> QED BY <1>1, <1>2, <1>3, PTL DEF Spec

(* The variables of the summary keep their types: what is kept of a record *)
(* is a calculated result, of a governed factor or a custom one.           *)
THEOREM SelectionTypeCorrect == Spec => []TypeOK
<1>1. Init => LocalInv
  BY LocalInvInit
<1>2. LocalInv /\ [Next]_vars => LocalInv'
  BY LocalInvStep
<1>3. LocalInv => TypeOK
  BY DEF LocalInv
<1> QED BY <1>1, <1>2, <1>3, PTL DEF Spec

-----------------------------------------------------------------------------
(* Two factors are ordered, because no two are updated at the same time.   *)
LEMMA BetterIsOrder ==
  ASSUME NEW S, S \subseteq Pool, \A f \in S : f.kind = "governed"
  PROVE  /\ \A f, g, h \in S : Better(f, g) /\ Better(g, h) => Better(f, h)
         /\ \A f \in S : ~ Better(f, f)
         /\ \A f, g \in S : f # g => Better(f, g) \/ Better(g, f)
<1>1. \A f \in S : StatusRank(f) \in Nat /\ f.confidence \in Nat /\ f.updated \in Nat
  BY PoolAssumption DEF Factor, Governed, Legacy, StatusRank
<1>2. \A f, g \in S : f.updated = g.updated => f = g
  BY PoolAssumption
<1> QED BY <1>1, <1>2 DEF Better

LEMMA LegacyBeforeIsOrder ==
  ASSUME NEW S, S \subseteq Pool
  PROVE  /\ \A f, g, h \in S : LegacyBefore(f, g) /\ LegacyBefore(g, h) => LegacyBefore(f, h)
         /\ \A f \in S : ~ LegacyBefore(f, f)
         /\ \A f, g \in S : f # g => LegacyBefore(f, g) \/ LegacyBefore(g, f)
<1>1. \A f \in S : LegacyRank(f) \in Nat /\ f.updated \in Nat
  <2>1. \A f : LegacyRank(f) \in Nat
    BY DEF LegacyRank
  <2> QED BY <2>1, PoolAssumption DEF Factor, Governed, Legacy
<1>2. \A f, g \in S : f.updated = g.updated => f = g
  BY PoolAssumption
<1> HIDE DEF LegacyRank
<1> QED BY <1>1, <1>2 DEF LegacyBefore

(* The order of a sort, as a set of pairs.                                 *)
LEMMA BestIsThere ==
  ASSUME NEW S, S \subseteq Pool, \A f \in S : f.kind = "governed", S # {}
  PROVE  \E f \in Best(S) : TRUE
<1> DEFINE R == {p \in S \X S : Better(p[1], p[2])}
<1>1. \A f, g \in S : <<f, g>> \in R <=> Better(f, g)
  OBVIOUS
<1>2. IsFiniteSet(S)
  BY PoolAssumption, FS_Subset
<1>3. /\ \A x, y, z \in S : <<x, y>> \in R /\ <<y, z>> \in R => <<x, z>> \in R
      /\ \A x \in S : <<x, x>> \notin R
  BY <1>1, BetterIsOrder
<1>4. PICK f \in S : \A g \in S : <<g, f>> \notin R
  <2> HIDE DEF R
  <2> QED BY <1>2, <1>3, NonePrecedes
<1>5. \A g \in S \ {f} : Better(f, g)
  BY <1>1, <1>4, BetterIsOrder
<1> QED BY <1>5 DEF Best

LEMMA FirstIsThere ==
  ASSUME NEW S, S \subseteq Pool, S # {}
  PROVE  \E f \in First(S) : TRUE
<1> DEFINE R == {p \in S \X S : LegacyBefore(p[1], p[2])}
<1>1. \A f, g \in S : <<f, g>> \in R <=> LegacyBefore(f, g)
  OBVIOUS
<1>2. IsFiniteSet(S)
  BY PoolAssumption, FS_Subset
<1>3. /\ \A x, y, z \in S : <<x, y>> \in R /\ <<y, z>> \in R => <<x, z>> \in R
      /\ \A x \in S : <<x, x>> \notin R
  BY <1>1, LegacyBeforeIsOrder
<1>4. PICK f \in S : \A g \in S : <<g, f>> \notin R
  <2> HIDE DEF R
  <2> QED BY <1>2, <1>3, NonePrecedes
<1>5. \A g \in S \ {f} : LegacyBefore(f, g)
  BY <1>1, <1>4, LegacyBeforeIsOrder
<1> QED BY <1>5 DEF First

LEMMA YearsAreNumbers ==
  ASSUME NEW f \in Pool
  PROVE  YearOf(f) \in Nat
BY PoolAssumption DEF Factor, Governed, Legacy, Years, YearOf

LEMMA LatestIsThere ==
  ASSUME NEW S, S \subseteq Pool, S # {}
  PROVE  \E f \in Latest(S) : TRUE
<1> DEFINE R == {p \in S \X S : YearOf(p[1]) > YearOf(p[2])}
<1>1. \A f, g \in S : <<f, g>> \in R <=> YearOf(f) > YearOf(g)
  OBVIOUS
<1>2. IsFiniteSet(S)
  BY PoolAssumption, FS_Subset
<1>3. \A f \in S : YearOf(f) \in Nat
  BY YearsAreNumbers
<1>4. /\ \A x, y, z \in S : <<x, y>> \in R /\ <<y, z>> \in R => <<x, z>> \in R
      /\ \A x \in S : <<x, x>> \notin R
  <2> HIDE DEF R
  <2>1. \A x, y, z \in S : <<x, y>> \in R /\ <<y, z>> \in R => <<x, z>> \in R
    BY <1>3, <1>1
  <2>2. \A x \in S : <<x, x>> \notin R
    BY <1>3, <1>1
  <2> QED BY <2>1, <2>2
<1>5. PICK f \in S : \A g \in S : <<g, f>> \notin R
  <2> HIDE DEF R
  <2> QED BY <1>2, <1>4, NonePrecedes
<1>6. ASSUME NEW g \in S
      PROVE  YearOf(f) >= YearOf(g)
  <2> HIDE DEF R
  <2>1. <<g, f>> \notin R
    BY <1>5
  <2> QED BY <1>3, <1>1, <2>1
<1> QED BY <1>6 DEF Latest

LEMMA NearestIsThere ==
  ASSUME NEW S, S \subseteq Pool, S # {}, NEW q, q.year \in Nat
  PROVE  \E f \in Nearest(S, q) : TRUE
<1> DEFINE R == {p \in S \X S : Distance(p[1], q) < Distance(p[2], q)}
<1>1. \A f, g \in S : <<f, g>> \in R <=> Distance(f, q) < Distance(g, q)
  OBVIOUS
<1>2. IsFiniteSet(S)
  BY PoolAssumption, FS_Subset
<1>3. \A f \in S : Distance(f, q) \in Nat
  BY YearsAreNumbers DEF Distance
<1>4. /\ \A x, y, z \in S : <<x, y>> \in R /\ <<y, z>> \in R => <<x, z>> \in R
      /\ \A x \in S : <<x, x>> \notin R
  <2> HIDE DEF R
  <2>1. \A x, y, z \in S : <<x, y>> \in R /\ <<y, z>> \in R => <<x, z>> \in R
    BY <1>3, <1>1
  <2>2. \A x \in S : <<x, x>> \notin R
    BY <1>3, <1>1
  <2> QED BY <2>1, <2>2
<1>5. PICK f \in S : \A g \in S : <<g, f>> \notin R
  <2> HIDE DEF R
  <2> QED BY <1>2, <1>4, NonePrecedes
<1>6. ASSUME NEW g \in S
      PROVE  Distance(f, q) <= Distance(g, q)
  <2> HIDE DEF R
  <2>1. <<g, f>> \notin R
    BY <1>5
  <2> QED BY <1>3, <1>1, <2>1
<1> QED BY <1>6 DEF Nearest

-----------------------------------------------------------------------------
(* One factor less.  Whatever is searched, the factor that is taken away   *)
(* was what the search returned, or the search does not notice.            *)

LEMMA BestWithout ==
  ASSUME NEW S, S \subseteq Pool, \A g \in S : g.kind = "governed", NEW f
  PROVE  Best(S) \in {Best(S \ {f}), {f}}
<1>1. CASE f \in Best(S)
  <2>1. ASSUME NEW g \in Best(S), g # f
        PROVE  FALSE
    <3>1. Better(f, g) /\ Better(g, f) /\ f \in S /\ g \in S
      BY <1>1, <2>1 DEF Best
    <3> QED BY <3>1, BetterIsOrder
  <2> QED BY <1>1, <2>1
<1>2. CASE f \notin Best(S)
  <2>1. ASSUME NEW g \in Best(S)
        PROVE  g \in Best(S \ {f})
    BY <1>2, <2>1 DEF Best
  <2>2. ASSUME NEW g \in Best(S \ {f}), g \notin Best(S)
        PROVE  FALSE
    <3>1. g \in S /\ g # f /\ \A h \in S \ {f, g} : Better(g, h)
      BY DEF Best
    <3>2. f \in S /\ ~ Better(g, f)
      BY <2>2, <3>1 DEF Best
    <3>3. Better(f, g)
      BY <3>1, <3>2, BetterIsOrder
    <3>4. \A h \in S \ {f} : Better(f, h)
      BY <3>1, <3>2, <3>3, BetterIsOrder
    <3> QED BY <1>2, <3>2, <3>4 DEF Best
  <2> QED BY <2>1, <2>2
<1> QED BY <1>1, <1>2

LEMMA FirstWithout ==
  ASSUME NEW S, S \subseteq Pool, NEW f
  PROVE  First(S) \in {First(S \ {f}), {f}}
<1>1. CASE f \in First(S)
  <2>1. ASSUME NEW g \in First(S), g # f
        PROVE  FALSE
    <3>1. LegacyBefore(f, g) /\ LegacyBefore(g, f) /\ f \in S /\ g \in S
      BY <1>1, <2>1 DEF First
    <3> QED BY <3>1, LegacyBeforeIsOrder
  <2> QED BY <1>1, <2>1
<1>2. CASE f \notin First(S)
  <2>1. ASSUME NEW g \in First(S)
        PROVE  g \in First(S \ {f})
    BY <1>2, <2>1 DEF First
  <2>2. ASSUME NEW g \in First(S \ {f}), g \notin First(S)
        PROVE  FALSE
    <3>1. g \in S /\ g # f /\ \A h \in S \ {f, g} : LegacyBefore(g, h)
      BY DEF First
    <3>2. f \in S /\ ~ LegacyBefore(g, f)
      BY <2>2, <3>1 DEF First
    <3>3. LegacyBefore(f, g)
      BY <3>1, <3>2, LegacyBeforeIsOrder
    <3>4. \A h \in S \ {f} : LegacyBefore(f, h)
      BY <3>1, <3>2, <3>3, LegacyBeforeIsOrder
    <3> QED BY <1>2, <3>2, <3>4 DEF First
  <2> QED BY <2>1, <2>2
<1> QED BY <1>1, <1>2

LEMMA LatestWithout ==
  ASSUME NEW S, S \subseteq Pool, NEW f
  PROVE  Latest(S) = {f} \/ Latest(S) \ {f} = Latest(S \ {f})
<1>1. \A g \in S : YearOf(g) \in Nat
  BY YearsAreNumbers
<1>2. ASSUME NEW g \in Latest(S) \ {f}
      PROVE  g \in Latest(S \ {f})
  BY DEF Latest
<1>3. ASSUME NEW g \in Latest(S \ {f}), g \notin Latest(S), Latest(S) # {f}
      PROVE  FALSE
  <2>1. g \in S /\ g # f /\ \A h \in S \ {f} : YearOf(g) >= YearOf(h)
    BY DEF Latest
  <2>2. f \in S /\ ~ (YearOf(g) >= YearOf(f))
    BY <1>3, <2>1 DEF Latest
  <2>3. \A h \in S \ {f} : YearOf(f) > YearOf(h)
    BY <1>1, <2>1, <2>2
  <2>4. f \in Latest(S)
    BY <1>1, <2>2, <2>3 DEF Latest
  <2>5. PICK h \in Latest(S) : h # f
    BY <1>3, <2>4
  <2>6. h \in S \ {f} /\ YearOf(h) >= YearOf(f)
    BY <2>2, <2>5 DEF Latest
  <2> QED BY <1>1, <2>2, <2>3, <2>6
<1> QED BY <1>2, <1>3 DEF Latest

LEMMA NearestWithout ==
  ASSUME NEW S, S \subseteq Pool, NEW q, q.year \in Nat, NEW f
  PROVE  Nearest(S, q) = {f} \/ Nearest(S, q) \ {f} = Nearest(S \ {f}, q)
<1>1. \A g \in S : Distance(g, q) \in Nat
  BY YearsAreNumbers DEF Distance
<1>2. ASSUME NEW g \in Nearest(S, q) \ {f}
      PROVE  g \in Nearest(S \ {f}, q)
  BY DEF Nearest
<1>3. ASSUME NEW g \in Nearest(S \ {f}, q), g \notin Nearest(S, q), Nearest(S, q) # {f}
      PROVE  FALSE
  <2>1. g \in S /\ g # f /\ \A h \in S \ {f} : Distance(g, q) <= Distance(h, q)
    BY DEF Nearest
  <2>2. f \in S /\ ~ (Distance(g, q) <= Distance(f, q))
    BY <1>3, <2>1 DEF Nearest
  <2>3. \A h \in S \ {f} : Distance(f, q) < Distance(h, q)
    BY <1>1, <2>1, <2>2
  <2>4. f \in Nearest(S, q)
    BY <1>1, <2>2, <2>3 DEF Nearest
  <2>5. PICK h \in Nearest(S, q) : h # f
    BY <1>3, <2>4
  <2>6. h \in S \ {f} /\ Distance(h, q) <= Distance(f, q)
    BY <2>2, <2>5 DEF Nearest
  <2> QED BY <1>1, <2>2, <2>3, <2>6
<1> QED BY <1>2, <1>3 DEF Nearest

LEMMA OneIsPicked ==
  ASSUME NEW f
  PROVE  Best({f}) = {f} /\ First({f}) = {f}
BY DEF Best, First

LEMMA FirstLatestWithout ==
  ASSUME NEW S, S \subseteq Pool, NEW f
  PROVE  First(Latest(S)) \in {First(Latest(S \ {f})), {f}}
<1>1. CASE Latest(S) = {f}
  BY <1>1, OneIsPicked
<1>2. CASE Latest(S) \ {f} = Latest(S \ {f})
  <2>1. Latest(S) \subseteq Pool
    BY DEF Latest
  <2> QED BY <1>2, <2>1, FirstWithout
<1> QED BY <1>1, <1>2, LatestWithout

LEMMA BestLatestWithout ==
  ASSUME NEW S, S \subseteq Pool, \A g \in S : g.kind = "governed", NEW f
  PROVE  Best(Latest(S)) \in {Best(Latest(S \ {f})), {f}}
<1>1. CASE Latest(S) = {f}
  BY <1>1, OneIsPicked
<1>2. CASE Latest(S) \ {f} = Latest(S \ {f})
  <2>1. Latest(S) \subseteq Pool /\ \A g \in Latest(S) : g.kind = "governed"
    BY DEF Latest
  <2> QED BY <1>2, <2>1, BestWithout
<1> QED BY <1>1, <1>2, LatestWithout

LEMMA BestNearestWithout ==
  ASSUME NEW S, S \subseteq Pool, \A g \in S : g.kind = "governed", NEW q, q.year \in Nat,
         NEW f
  PROVE  Best(Nearest(S, q)) \in {Best(Nearest(S \ {f}, q)), {f}}
<1>1. CASE Nearest(S, q) = {f}
  BY <1>1, OneIsPicked
<1>2. CASE Nearest(S, q) \ {f} = Nearest(S \ {f}, q)
  <2>1. Nearest(S, q) \subseteq Pool /\ \A g \in Nearest(S, q) : g.kind = "governed"
    BY DEF Nearest
  <2> QED BY <1>2, <2>1, BestWithout
<1> QED BY <1>1, <1>2, NearestWithout

-----------------------------------------------------------------------------
(* One factor less for the whole ladder.                                   *)

Without(S, f) == S \ {f}

LEMMA SearchedWithout ==
  ASSUME NEW q, NEW C, NEW f, NEW i \in 1..10
  PROVE  Searched(q, Without(C, f))[i] = Without(Searched(q, C)[i], f)
<1> DEFINE L(D) == LegacyCandidates(q, D)
           G(D) == GovernedCandidates(q, D)
           own(D) == {g \in L(D) : g.own}
           year(D) == {g \in OfYear(G(D), q) : countryMatches(g, q)}
           verified(D) == Verified(Defaults(L(D)), q)
           wide(D) == {g \in Defaults(L(D)) : q.activity \in Fallback /\ isCountryLevel(g)}
           past(D) == {g \in G(D) : g.year # NoYear /\ g.year < q.year}
           both(S) == Local(S, q) \cup CountryWide(S, q)
<1>1. \A D : Searched(q, D) =
        << Local(Verified(own(D), q), q), Local(year(D), q), CountryWide(OfYear(G(D), q), q),
           both(past(D)), both(G(D)),
           Local(verified(D), q), CountryWide(verified(D), q), AnyDefault(L(D), q),
           wide(D), Demo(L(D), q) >>
  BY DEF Searched
<1>2. L(Without(C, f)) = Without(L(C), f) /\ G(Without(C, f)) = Without(G(C), f)
  BY DEF LegacyCandidates, GovernedCandidates, Without
<1>3. \A S : /\ Local(Without(S, f), q) = Without(Local(S, q), f)
             /\ CountryWide(Without(S, f), q) = Without(CountryWide(S, q), f)
             /\ Verified(Without(S, f), q) = Without(Verified(S, q), f)
             /\ OfYear(Without(S, f), q) = Without(OfYear(S, q), f)
             /\ Defaults(Without(S, f)) = Without(Defaults(S), f)
  BY DEF Local, CountryWide, Verified, OfYear, Defaults, Without
<1>4. \A S : /\ AnyDefault(Without(S, f), q) = Without(AnyDefault(S, q), f)
             /\ Demo(Without(S, f), q) = Without(Demo(S, q), f)
  BY DEF AnyDefault, Demo, Local, Defaults, Without
<1> HIDE DEF L, G
<1>6. /\ own(Without(C, f)) = Without(own(C), f)
      /\ past(Without(C, f)) = Without(past(C), f)
  BY <1>2 DEF Without
<1>7. /\ OfYear(G(Without(C, f)), q) = Without(OfYear(G(C), q), f)
      /\ Defaults(L(Without(C, f))) = Without(Defaults(L(C)), f)
  BY <1>2, <1>3
<1>8. /\ year(Without(C, f)) = Without(year(C), f)
      /\ wide(Without(C, f)) = Without(wide(C), f)
  BY <1>7 DEF Without
<1>9. verified(Without(C, f)) = Without(verified(C), f)
  BY <1>3, <1>7
<1> HIDE DEF own, year, verified, wide, past
<1>10. /\ Local(Verified(own(Without(C, f)), q), q) = Without(Local(Verified(own(C), q), q), f)
       /\ Local(year(Without(C, f)), q) = Without(Local(year(C), q), f)
       /\ CountryWide(OfYear(G(Without(C, f)), q), q)
            = Without(CountryWide(OfYear(G(C), q), q), f)
  BY <1>3, <1>6, <1>7, <1>8
<1>11. /\ both(past(Without(C, f))) = Without(both(past(C)), f)
       /\ both(G(Without(C, f))) = Without(both(G(C)), f)
  <2>1. \A S : both(Without(S, f)) = Without(both(S), f)
    <3> TAKE S
    <3>1. /\ Local(Without(S, f), q) = Without(Local(S, q), f)
          /\ CountryWide(Without(S, f), q) = Without(CountryWide(S, q), f)
      BY <1>3
    <3>2. Without(Local(S, q), f) \cup Without(CountryWide(S, q), f)
            = Without(Local(S, q) \cup CountryWide(S, q), f)
      BY DEF Without
    <3> QED BY <3>1, <3>2
  <2> HIDE DEF both
  <2> QED BY <1>2, <1>6, <2>1
<1> HIDE DEF both
<1>12. /\ Local(verified(Without(C, f)), q) = Without(Local(verified(C), q), f)
       /\ CountryWide(verified(Without(C, f)), q) = Without(CountryWide(verified(C), q), f)
       /\ AnyDefault(L(Without(C, f)), q) = Without(AnyDefault(L(C), q), f)
       /\ Demo(L(Without(C, f)), q) = Without(Demo(L(C), q), f)
  BY <1>2, <1>3, <1>4, <1>9
<1>13. CASE i \in {1, 2, 3}
  BY <1>1, <1>10, <1>13
<1>14. CASE i \in {4, 5}
  BY <1>1, <1>11, <1>14
<1>15. CASE i \in {6, 7, 8, 9, 10}
  BY <1>1, <1>8, <1>12, <1>15
<1> QED BY <1>13, <1>14, <1>15

LEMMA RungWithout ==
  ASSUME NEW q, q.year \in Nat, NEW C, C \subseteq Pool, NEW f, NEW i \in 1..10
  PROVE  /\ Ladder(q, C)[i].found \in {Ladder(q, Without(C, f))[i].found, {f}}
         /\ Ladder(q, C)[i].by = Ladder(q, Without(C, f))[i].by
<1> DEFINE S == Searched(q, C)[i]
<1>1. S \subseteq Pool /\ (i \in 2..5 => \A g \in S : g.kind = "governed")
  BY SearchedIsCatalogued
<1>2. Searched(q, Without(C, f))[i] = Without(S, f)
  BY SearchedWithout
<1>3. /\ Ladder(q, C)[i].found = Taken(i, S, q)
      /\ Ladder(q, Without(C, f))[i].found = Taken(i, Without(S, f), q)
  BY <1>2, RungIsTaken
<1> HIDE DEF S
<1>4. Taken(i, S, q) \in {Taken(i, Without(S, f), q), {f}}
  <2>1. CASE i \in {2, 3}
    <3>1. /\ Taken(i, S, q) = Best(S)
          /\ Taken(i, Without(S, f), q) = Best(S \ {f})
      BY <2>1 DEF Taken, Without
    <3>2. \A g \in S : g.kind = "governed"
      BY <1>1, <2>1
    <3> QED BY <1>1, <3>1, <3>2, BestWithout
  <2>2. CASE i = 4
    BY <1>1, <2>2, BestLatestWithout DEF Taken, Without
  <2>3. CASE i = 5
    BY <1>1, <2>3, BestNearestWithout DEF Taken, Without
  <2>4. CASE i \notin 2..5
    BY <1>1, <2>4, FirstLatestWithout DEF Taken, Without
  <2> QED BY <2>1, <2>2, <2>3, <2>4
<1>5. Ladder(q, C)[i].by = Ladder(q, Without(C, f))[i].by
  BY DEF Ladder
<1> QED BY <1>3, <1>4, <1>5

(* One factor more wins, or changes nothing.                               *)
LEMMA MatchWithout ==
  ASSUME NEW q, q.year \in Nat, NEW C, C \subseteq Pool, NEW f
  PROVE  matchFactor(q, C).found \in {matchFactor(q, Without(C, f)).found, {f}}
<1> DEFINE D == Without(C, f)
           found(E, i) == Ladder(q, E)[i].found
<1>1. \A i \in 1..10 : found(C, i) \in {found(D, i), {f}}
  BY RungWithout
<1> HIDE DEF D
<1>2. CASE \A i \in 1..10 : found(C, i) = {}
  <2>1. \A i \in 1..10 : found(D, i) = {}
    BY <1>1, <1>2
  <2>2. matchFactor(q, C) = NoMatch /\ matchFactor(q, D) = NoMatch
    BY <1>2, <2>1, FirstRung
  <2> QED BY <2>2 DEF D
<1>3. CASE \E i \in 1..10 : found(C, i) # {}
  <2>1. PICK i \in 1..10 : /\ matchFactor(q, C) = Ladder(q, C)[i]
                           /\ found(C, i) # {}
                           /\ \A j \in 1..10 : j < i => found(C, j) = {}
    BY <1>3, FirstRung
  <2>2. CASE found(C, i) = {f}
    BY <2>1, <2>2
  <2>3. CASE found(C, i) = found(D, i)
    <3>1. \A j \in 1..10 : j < i => found(D, j) = {}
      BY <1>1, <2>1
    <3>2. found(D, i) # {}
      BY <2>1, <2>3
    <3>3. PICK k \in 1..10 : /\ matchFactor(q, D) = Ladder(q, D)[k]
                             /\ found(D, k) # {}
                             /\ \A j \in 1..10 : j < k => found(D, j) = {}
      BY <3>2, FirstRung
    <3>4. k = i
      BY <3>1, <3>2, <3>3
    <3> QED BY <2>1, <2>3, <3>3, <3>4 DEF D
  <2> QED BY <1>1, <2>2, <2>3
<1> QED BY <1>2, <1>3

-----------------------------------------------------------------------------
(* A search that has something to sort finds something.                    *)
LEMMA SomethingIsTaken ==
  ASSUME NEW q, q.year \in Nat, NEW C, C \subseteq Pool, NEW i \in 1..10,
         Searched(q, C)[i] # {}
  PROVE  Ladder(q, C)[i].found # {}
<1> DEFINE S == Searched(q, C)[i]
<1>1. S \subseteq Pool /\ (i \in 2..5 => \A g \in S : g.kind = "governed")
  BY SearchedIsCatalogued
<1>2. Ladder(q, C)[i].found = Taken(i, S, q)
  BY RungIsTaken
<1>3. S # {}
  OBVIOUS
<1> HIDE DEF S
<1>4. \E f \in Latest(S) : TRUE
  BY <1>1, <1>3, LatestIsThere
<1>5. \E f \in Nearest(S, q) : TRUE
  BY <1>1, <1>3, NearestIsThere
<1>6. /\ Latest(S) \subseteq Pool /\ Nearest(S, q) \subseteq Pool
      /\ Latest(S) \subseteq S /\ Nearest(S, q) \subseteq S
  BY <1>1 DEF Latest, Nearest
<1>7. CASE i \in {2, 3}
  <2>1. \A g \in S : g.kind = "governed"
    BY <1>1, <1>7
  <2>2. Taken(i, S, q) = Best(S)
    BY <1>7 DEF Taken
  <2> QED BY <1>1, <1>2, <1>3, <2>1, <2>2, BestIsThere
<1>8. CASE i = 4
  <2>1. \A g \in Latest(S) : g.kind = "governed"
    BY <1>1, <1>6, <1>8
  <2>2. Taken(i, S, q) = Best(Latest(S))
    BY <1>8 DEF Taken
  <2> QED BY <1>2, <1>4, <1>6, <2>1, <2>2, BestIsThere
<1>9. CASE i = 5
  <2>1. \A g \in Nearest(S, q) : g.kind = "governed"
    BY <1>1, <1>6, <1>9
  <2>2. Taken(i, S, q) = Best(Nearest(S, q))
    BY <1>9 DEF Taken
  <2> QED BY <1>2, <1>5, <1>6, <2>1, <2>2, BestIsThere
<1>10. CASE i \notin 2..5
  <2>1. Taken(i, S, q) = First(Latest(S))
    BY <1>10 DEF Taken
  <2> QED BY <1>2, <1>4, <1>6, <2>1, FirstIsThere
<1> QED BY <1>7, <1>8, <1>9, <1>10

(* What the catalogue's ladder offers by a governed rung, the ladder of    *)
(* the calculation searches at the same rung.                              *)
LEMMA OfferedIsSearched ==
  ASSUME NEW q, NEW C, C \subseteq Pool, q.year \in Nat,
         getApplicableFactor(q, C).by \in {"EXACT_REGION_YEAR", "COUNTRY_YEAR", "PRIOR_YEAR"}
  PROVE  \E i \in 2..4 : Searched(q, C)[i] # {}
<1> DEFINE G == CatalogGoverned(q, C)
           N == GovernedCandidates(q, C)
           past == {f \in G : f.year # NoYear /\ f.year < q.year}
           wide(S) == {f \in S : q.activity \in CatalogFallback /\ isCountryLevel(f)}
           ladder == CatalogLadder(q, C)
           pastN == {f \in N : f.year # NoYear /\ f.year < q.year}
<1>1. /\ DOMAIN ladder = 1..5
      /\ ladder[1].by = "CUSTOM" /\ ladder[5].by = "DEFAULT"
      /\ ladder[2].found = CatalogBest(Local(OfYear(G, q), q))
      /\ ladder[3].found = CatalogBest(wide(OfYear(G, q)))
      /\ ladder[4].found = CatalogBest(Latest(Local(past, q) \cup wide(past)))
  BY DEF CatalogLadder
<1>2. getApplicableFactor(q, C) = FirstFound(ladder)
  BY DEF getApplicableFactor, NoMatch
<1>3. PICK i \in 1..5 : FirstFound(ladder) = ladder[i] /\ ladder[i].found # {}
  <2> HIDE DEF ladder
  <2>1. FirstFound(ladder) # NoMatch
    BY <1>2 DEF NoMatch
  <2> QED BY <1>1, <2>1, FirstFoundIs
<1>4. i \in 2..4
  <2> HIDE DEF ladder
  <2>1. ladder[i].by \in {"EXACT_REGION_YEAR", "COUNTRY_YEAR", "PRIOR_YEAR"}
    BY <1>2, <1>3
  <2>2. i # 1 /\ i # 5
    BY <1>1, <2>1
  <2> QED BY <2>2
<1>5. /\ Searched(q, C)[2] = Local({f \in OfYear(N, q) : countryMatches(f, q)}, q)
      /\ Searched(q, C)[3] = CountryWide(OfYear(N, q), q)
      /\ Searched(q, C)[4] = Local(pastN, q) \cup CountryWide(pastN, q)
  BY DEF Searched
<1>6. \A f \in G : f \in N /\ countryMatches(f, q)
  BY DEF CatalogGoverned, GovernedCandidates, unitsCompatible, Reviewed
<1>7. CatalogFallback \subseteq Fallback
  BY SelectionAssumption
<1> HIDE DEF G, N, ladder
<1>8. CASE i = 2
  <2>1. PICK f \in Local(OfYear(G, q), q) : TRUE
    BY <1>1, <1>3, <1>8 DEF CatalogBest
  <2>2. f \in Searched(q, C)[2]
    BY <1>5, <1>6, <2>1 DEF Local, OfYear
  <2> QED BY <2>2
<1>9. CASE i = 3
  <2>1. PICK f \in wide(OfYear(G, q)) : TRUE
    BY <1>1, <1>3, <1>9 DEF CatalogBest
  <2>2. f \in Searched(q, C)[3]
    BY <1>5, <1>6, <1>7, <2>1 DEF CountryWide, OfYear
  <2> QED BY <2>2
<1>10. CASE i = 4
  <2>1. PICK f \in Local(past, q) \cup wide(past) : TRUE
    BY <1>1, <1>3, <1>10 DEF CatalogBest, Latest
  <2>2. f \in Searched(q, C)[4]
    BY <1>5, <1>6, <1>7, <2>1 DEF CountryWide, Local
  <2> QED BY <2>2
<1> QED BY <1>4, <1>8, <1>9, <1>10

LEMMA OfferedIsMatched ==
  ASSUME NEW q, NEW C, C \subseteq Pool, q.year \in Nat,
         getApplicableFactor(q, C).by \in {"EXACT_REGION_YEAR", "COUNTRY_YEAR", "PRIOR_YEAR"}
  PROVE  \E f \in matchFactor(q, C).found : f.kind = "governed" \/ f.own
<1>1. PICK i \in 2..4 : Searched(q, C)[i] # {}
  BY OfferedIsSearched
<1>2. Ladder(q, C)[i].found # {}
  BY <1>1, SomethingIsTaken
<1>3. PICK k \in 1..10 : /\ matchFactor(q, C) = Ladder(q, C)[k]
                         /\ Ladder(q, C)[k].found # {}
                         /\ \A j \in 1..10 : j < k => Ladder(q, C)[j].found = {}
  BY <1>1, <1>2, FirstRung
<1>4. k \in 1..4
  BY <1>1, <1>2, <1>3
<1>5. \A S : Best(S) \subseteq S /\ Latest(S) \subseteq S /\ First(S) \subseteq S
  BY DEF Best, Latest, First
<1>6. Ladder(q, C)[k].found \subseteq Searched(q, C)[k]
  <2>1. Ladder(q, C)[k].found = Taken(k, Searched(q, C)[k], q)
    BY <1>4, RungIsTaken
  <2>2. Taken(k, Searched(q, C)[k], q) \subseteq Searched(q, C)[k]
    BY <1>4, <1>5 DEF Taken
  <2> QED BY <2>1, <2>2
<1>7. CASE k = 1
  <2>1. \A f \in Searched(q, C)[1] : f.own
    BY DEF Searched, Local, Verified
  <2> QED BY <1>3, <1>6, <1>7, <2>1
<1>8. CASE k \in 2..4
  <2>1. \A f \in Searched(q, C)[k] : f.kind = "governed"
    BY <1>8, SearchedIsCatalogued
  <2> QED BY <1>3, <1>6, <2>1
<1> QED BY <1>4, <1>7, <1>8

-----------------------------------------------------------------------------
LEMMA QueriesAreDated ==
  ASSUME LocalInv, NEW r \in Records
  PROVE  QueryOf(table[r]).year \in Nat /\ catalogue \subseteq Pool
<1>1. table[r] \in Rows
  BY SummaryAssumption DEF LocalInv, TypeOK
<1>2. table[r].year \in Nat
  BY <1>1, SummaryAssumption
<1> QED BY <1>2 DEF QueryOf, LocalInv, TypeOK

(* However the catalogue is edited, one factor more changes what a record  *)
(* is calculated with to that very factor or not at all: the ten rungs of  *)
(* matchFactor and their sorts never let it make another one win.          *)
THEOREM OneMoreChangesNothingElse == Spec => []ChoiceIgnoresTheRest
<1>1. LocalInv => ChoiceIgnoresTheRest
  <2> SUFFICES ASSUME LocalInv, NEW r \in Records, NEW f \in catalogue
               PROVE  Chosen(r, catalogue) \in {Chosen(r, catalogue \ {f}), {f}}
    BY DEF ChoiceIgnoresTheRest
  <2>1. matchFactor(QueryOf(table[r]), catalogue).found
          \in {matchFactor(QueryOf(table[r]), Without(catalogue, f)).found, {f}}
    BY QueriesAreDated, MatchWithout
  <2> QED BY <2>1 DEF Chosen, Without
<1> QED BY <1>1, LocalInvInit, LocalInvStep, PTL DEF Spec

(* Where getApplicableFactor offers a governed version for what a record   *)
(* asks, matchFactor finds one as well, or a factor of the organization's  *)
(* own: the two ladders never differ by falling through to a default.      *)
THEOREM OfferedVersionIsCalculated == Spec => []OfferedIsCalculated
<1>1. LocalInv => OfferedIsCalculated
  BY QueriesAreDated, OfferedIsMatched DEF OfferedIsCalculated
<1> QED BY <1>1, LocalInvInit, LocalInvStep, PTL DEF Spec
=============================================================================
