-------------------------- MODULE ImportLoopProofs --------------------------
(***************************************************************************)
(* The loops of confirmImport compute what ImportIdentity says, for every  *)
(* request of any length, every document and every rounding of contents.   *)
(***************************************************************************)
EXTENDS ImportLoop, TLAPS

(* The Map q when the first k activities of s have been set: a place for   *)
(* each of their keys, in the order in which the keys appear, and in it    *)
(* the last activity of the key.                                           *)
OnePlace(q) == \A m, n \in 1..Len(q) : RecordKey(q[m]) = RecordKey(q[n]) => m = n

LastOfKey(s, k, a) ==
    \E j \in 1..k : a = s[j] /\ \A l \in (j + 1)..k : RecordKey(s[l]) # RecordKey(s[j])

HasKey(q, key) == \E m \in 1..Len(q) : RecordKey(q[m]) = key

Earlier(s, k, first, second) ==
    \E j \in 1..k : RecordKey(s[j]) = first /\ \A l \in 1..j : RecordKey(s[l]) # second

MapHolds(s, q, k) ==
    /\ OnePlace(q)
    /\ \A m \in 1..Len(q) : LastOfKey(s, k, q[m])
    /\ \A j \in 1..k : HasKey(q, RecordKey(s[j]))
    /\ \A m, n \in 1..Len(q) : m < n => Earlier(s, k, RecordKey(q[m]), RecordKey(q[n]))

LEMMA EarlierGrows ==
    ASSUME NEW s, NEW k \in Nat, NEW first, NEW second, Earlier(s, k, first, second)
    PROVE  Earlier(s, k + 1, first, second)
BY DEF Earlier

LEMMA LastStays ==
    ASSUME NEW s, NEW k \in Nat, NEW a, LastOfKey(s, k, a), RecordKey(a) # RecordKey(s[k + 1])
    PROVE  LastOfKey(s, k + 1, a)
<1>1. PICK j \in 1..k : a = s[j] /\ \A l \in (j + 1)..k : RecordKey(s[l]) # RecordKey(s[j])
    BY DEF LastOfKey
<1>2. \A l \in (j + 1)..(k + 1) : l \in (j + 1)..k \/ l = k + 1
    OBVIOUS
<1>3. \A l \in (j + 1)..(k + 1) : RecordKey(s[l]) # RecordKey(s[j])
    BY <1>1, <1>2
<1> QED
    BY <1>1, <1>3 DEF LastOfKey

LEMMA NewestIsLast ==
    ASSUME NEW s, NEW k \in Nat
    PROVE  LastOfKey(s, k + 1, s[k + 1])
<1>1. \A l \in (k + 1 + 1)..(k + 1) : FALSE
    OBVIOUS
<1>2. k + 1 \in 1..(k + 1)
    OBVIOUS
<1> QED
    BY <1>1, <1>2 DEF LastOfKey

LEMMA AppendNth ==
    ASSUME NEW S, NEW q \in Seq(S), NEW a \in S
    PROVE  /\ Append(q, a) \in Seq(S) /\ Len(q) \in Nat /\ Len(Append(q, a)) = Len(q) + 1
           /\ Append(q, a)[Len(q) + 1] = a
           /\ \A m \in 1..Len(q) : Append(q, a)[m] = q[m]
           /\ \A m \in 1..(Len(q) + 1) : m \in 1..Len(q) \/ m = Len(q) + 1
           /\ \A m \in 1..Len(q) : m \in 1..(Len(q) + 1)
           /\ Len(q) + 1 \in 1..(Len(q) + 1)
OBVIOUS

(* A key that is not there gets the next place.                            *)
LEMMA NewKey ==
    ASSUME NEW s \in Seq(Activity), NEW q \in Seq(Activity), NEW k \in Nat, k + 1 \in 1..Len(s),
           MapHolds(s, q, k), ~ HasKey(q, RecordKey(s[k + 1]))
    PROVE  MapHolds(s, Append(q, s[k + 1]), k + 1)
<1> DEFINE a == s[k + 1]
           r == Append(q, a)
           L == Len(q)
<1>1. a \in Activity
    OBVIOUS
<1>2. /\ L \in Nat /\ Len(r) = L + 1 /\ r[L + 1] = a
      /\ \A m \in 1..L : r[m] = q[m]
      /\ \A m \in 1..(L + 1) : m \in 1..L \/ m = L + 1
      /\ \A m \in 1..L : m \in 1..(L + 1)
      /\ L + 1 \in 1..(L + 1)
    BY <1>1, AppendNth
<1>3. \A m \in 1..L : RecordKey(q[m]) # RecordKey(a)
    BY DEF HasKey
<1>4. \A j \in 1..k : RecordKey(s[j]) # RecordKey(a)
    BY DEF MapHolds, HasKey
<1>5. MapHolds(s, q, k)
    OBVIOUS
<1>6. a = s[k + 1]
    OBVIOUS
<1> HIDE DEF a, r, L
<1>7. OnePlace(r)
    BY <1>2, <1>3, <1>5 DEF OnePlace, MapHolds, L
<1>8. \A m \in 1..Len(r) : LastOfKey(s, k + 1, r[m])
    BY <1>2, <1>3, <1>5, <1>6, LastStays, NewestIsLast DEF MapHolds, L
<1>9. \A j \in 1..(k + 1) : HasKey(r, RecordKey(s[j]))
    <2>1. \A j \in 1..(k + 1) : j \in 1..k \/ j = k + 1
        OBVIOUS
    <2> QED
        BY <1>2, <1>5, <1>6, <2>1 DEF MapHolds, HasKey, L
<1>10. ASSUME NEW m \in 1..Len(r), NEW n \in 1..Len(r), m < n
       PROVE  Earlier(s, k + 1, RecordKey(r[m]), RecordKey(r[n]))
    <2>1. m \in 1..L /\ r[m] = q[m]
        BY <1>2, <1>10
    <2>2. CASE n \in 1..L
        BY <1>2, <1>5, <1>10, <2>1, <2>2, EarlierGrows DEF MapHolds, L
    <2>3. CASE n = L + 1
        <3>1. LastOfKey(s, k, q[m])
            BY <1>5, <2>1 DEF MapHolds, L
        <3>2. PICK j \in 1..k : q[m] = s[j]
            BY <3>1 DEF LastOfKey
        <3>3. j \in 1..(k + 1) /\ \A l \in 1..j : l \in 1..k
            OBVIOUS
        <3>4. RecordKey(s[j]) = RecordKey(r[m]) /\ \A l \in 1..j : RecordKey(s[l]) # RecordKey(r[n])
            BY <1>2, <1>4, <2>1, <2>3, <3>2, <3>3
        <3> QED
            BY <3>3, <3>4 DEF Earlier
    <2> QED
        BY <1>2, <2>2, <2>3
<1>11. MapHolds(s, r, k + 1)
    BY <1>7, <1>8, <1>9, <1>10 DEF MapHolds
<1> QED
    BY <1>11 DEF a, r

(* A key that is there keeps its place, with the new activity in it.       *)
LEMMA OldKey ==
    ASSUME NEW s \in Seq(Activity), NEW q \in Seq(Activity), NEW r \in Seq(Activity),
           NEW k \in Nat, k + 1 \in 1..Len(s),
           MapHolds(s, q, k), HasKey(q, RecordKey(s[k + 1])), Len(r) = Len(q),
           \A m \in 1..Len(q) :
              r[m] = IF RecordKey(q[m]) = RecordKey(s[k + 1]) THEN s[k + 1] ELSE q[m]
    PROVE  MapHolds(s, r, k + 1)
<1>1. \A m \in 1..Len(q) : RecordKey(r[m]) = RecordKey(q[m])
    OBVIOUS
<1>2. OnePlace(r)
    BY <1>1 DEF OnePlace, MapHolds
<1>3. \A m \in 1..Len(r) : LastOfKey(s, k + 1, r[m])
    BY LastStays, NewestIsLast DEF MapHolds
<1>4. \A j \in 1..(k + 1) : HasKey(r, RecordKey(s[j]))
    <2>1. \A j \in 1..(k + 1) : j \in 1..k \/ j = k + 1
        OBVIOUS
    <2> QED
        BY <1>1, <2>1 DEF MapHolds, HasKey
<1>5. \A m, n \in 1..Len(r) : m < n => Earlier(s, k + 1, RecordKey(r[m]), RecordKey(r[n]))
    BY <1>1, EarlierGrows DEF MapHolds
<1> QED
    BY <1>2, <1>3, <1>4, <1>5 DEF MapHolds

(* What the full Map says about Merged and its order.                      *)
LEMMA MapIsMerged ==
    ASSUME NEW s \in Seq(Activity), NEW q \in Seq(Activity), MapHolds(s, q, Len(s))
    PROVE  /\ \A m \in 1..Len(q) : q[m] \in Merged(s)
           /\ \A a \in Merged(s) : a \in Activity /\ \E m \in 1..Len(q) : a = q[m]
<1>0. DOMAIN s = 1..Len(s) /\ Len(s) \in Nat
    OBVIOUS
<1>1. ASSUME NEW m \in 1..Len(q) PROVE q[m] \in Merged(s)
    <2>1. PICK j \in 1..Len(s) :
             q[m] = s[j] /\ \A l \in (j + 1)..Len(s) : RecordKey(s[l]) # RecordKey(s[j])
        BY DEF MapHolds, LastOfKey
    <2>2. \A l \in DOMAIN s : l > j => l \in (j + 1)..Len(s)
        BY <1>0
    <2> QED
        BY <1>0, <2>1, <2>2 DEF Merged
<1>2. ASSUME NEW a \in Merged(s) PROVE a \in Activity /\ \E m \in 1..Len(q) : a = q[m]
    <2>1. PICK j \in 1..Len(s) :
             a = s[j] /\ \A l \in DOMAIN s : l > j => RecordKey(s[l]) # RecordKey(s[j])
        BY <1>0 DEF Merged
    <2>2. PICK m \in 1..Len(q) : RecordKey(q[m]) = RecordKey(s[j])
        BY DEF MapHolds, HasKey
    <2>3. PICK t \in 1..Len(s) :
             q[m] = s[t] /\ \A l \in (t + 1)..Len(s) : RecordKey(s[l]) # RecordKey(s[t])
        BY DEF MapHolds, LastOfKey
    <2>4. t = j
        <3>1. ~ (t > j)
            BY <1>0, <2>1, <2>2, <2>3
        <3>2. ~ (t < j)
            <4>1. t < j => j \in (t + 1)..Len(s)
                BY <1>0
            <4> QED
                BY <2>2, <2>3, <4>1
        <3> QED
            BY <3>1, <3>2
    <2> QED
        BY <2>1, <2>3, <2>4
<1> QED
    BY <1>1, <1>2

LEMMA MapIsInOrder ==
    ASSUME NEW s \in Seq(Activity), NEW q \in Seq(Activity), MapHolds(s, q, Len(s)),
           NEW m \in 1..Len(q), NEW n \in 1..Len(q)
    PROVE  AppearsBefore(s, q[m], q[n]) <=> m < n
<1>0. DOMAIN s = 1..Len(s) /\ Len(s) \in Nat
    OBVIOUS
<1>1. ASSUME NEW x \in 1..Len(q), NEW y \in 1..Len(q), x < y
      PROVE  AppearsBefore(s, q[x], q[y])
    BY <1>0, <1>1 DEF MapHolds, Earlier, AppearsBefore
<1>2. ASSUME NEW a, NEW b, AppearsBefore(s, a, b), AppearsBefore(s, b, a)
      PROVE  FALSE
    <2>1. PICK x \in DOMAIN s : RecordKey(s[x]) = RecordKey(a)
                                  /\ \A j \in 1..x : RecordKey(s[j]) # RecordKey(b)
        BY <1>2 DEF AppearsBefore
    <2>2. PICK y \in DOMAIN s : RecordKey(s[y]) = RecordKey(b)
                                  /\ \A j \in 1..y : RecordKey(s[j]) # RecordKey(a)
        BY <1>2 DEF AppearsBefore
    <2>3. x \in Nat /\ y \in Nat /\ x >= 1 /\ y >= 1
        BY <1>0
    <2>4. x \in 1..y \/ y \in 1..x
        BY <2>3
    <2> QED
        BY <2>1, <2>2, <2>4
<1>3. ~ AppearsBefore(s, q[m], q[m])
    <2>1. \A x \in DOMAIN s : x \in 1..x
        BY <1>0
    <2> QED
        BY <2>1 DEF AppearsBefore
<1> QED
    BY <1>1, <1>2, <1>3

-----------------------------------------------------------------------------
(* The walk over the Map: c has been created, and keys are known, when the *)
(* first k places of q have been visited, for a document with keys E.      *)
Holds(c, a) == \E x \in 1..Len(c) : c[x] = a
KeysOf(c) == {RecordKey(c[x]) : x \in 1..Len(c)}

WalkHolds(s, E, q, c, keys, k) ==
    /\ \A x \in 1..Len(c) : \E n \in 1..k : c[x] = q[n]
    /\ \A n \in 1..k : Holds(c, q[n]) <=> q[n] \in ToCreate(s, E)
    /\ OnePlace(c)
    /\ keys = E \cup KeysOf(c)

LEMMA RowlessKey ==
    ASSUME NEW a \in Activity, NEW b \in Activity
    PROVE  /\ RecordKey(b) = FallbackKey(a) <=> b.row = NoRow /\ b.content = a.content
           /\ a.row = NoRow => RecordKey(a) = FallbackKey(a)
BY DEF Activity, RecordKey, FallbackKey, WithoutRow

(* What the loop knows when it comes to a place decides as ToCreate does.  *)
LEMMA WalkDecides ==
    ASSUME NEW s \in Seq(Activity), NEW q \in Seq(Activity), NEW c \in Seq(Activity),
           NEW E, NEW keys, NEW k \in Nat, k + 1 \in 1..Len(q),
           MapHolds(s, q, Len(s)), WalkHolds(s, E, q, c, keys, k)
    PROVE  Covered(q[k + 1], keys) <=> q[k + 1] \notin ToCreate(s, E)
<1> DEFINE a == q[k + 1]
<1>0. a \in Activity /\ a \in Merged(s) /\ \A n \in 1..k : n \in 1..Len(q) /\ n < k + 1
    BY MapIsMerged
<1>1. /\ \A x \in 1..Len(c) : \E n \in 1..k : c[x] = q[n]
      /\ \A n \in 1..k : Holds(c, q[n]) <=> q[n] \in ToCreate(s, E)
      /\ keys = E \cup KeysOf(c)
    BY DEF WalkHolds
<1>2. \A n \in 1..k : RecordKey(q[n]) # RecordKey(a)
    BY <1>0 DEF MapHolds, OnePlace
<1>3. ASSUME Covered(a, keys), a \in ToCreate(s, E) PROVE FALSE
    <2>1. ~ Covered(a, E)
        BY <1>3 DEF ToCreate
    <2>2. RecordKey(a) \in KeysOf(c) \/ FallbackKey(a) \in KeysOf(c)
        BY <1>1, <1>3, <2>1 DEF Covered
    <2>3. PICK x \in 1..Len(c) : RecordKey(c[x]) = RecordKey(a) \/ RecordKey(c[x]) = FallbackKey(a)
        BY <2>2 DEF KeysOf
    <2>4. PICK n \in 1..k : c[x] = q[n]
        BY <1>1
    <2>5. q[n] \in Activity /\ q[n] \in Merged(s) /\ RecordKey(q[n]) = FallbackKey(a)
        BY <1>0, <1>2, <2>3, <2>4, MapIsMerged
    <2>6. q[n].row = NoRow /\ q[n].content = a.content /\ a.row # NoRow
        BY <1>0, <1>2, <2>5, RowlessKey
    <2>7. AppearsBefore(s, q[n], a)
        BY <1>0, MapIsInOrder
    <2> HIDE DEF a
    <2> QED
        BY <1>3, <2>5, <2>6, <2>7 DEF ToCreate
<1>4. ASSUME ~ Covered(a, keys), a \notin ToCreate(s, E) PROVE FALSE
    <2>1. ~ Covered(a, E)
        BY <1>1, <1>4 DEF Covered
    <2>2. PICK b \in Merged(s) : /\ b.row = NoRow /\ a.row # NoRow /\ b.content = a.content
                                 /\ AppearsBefore(s, b, a)
        BY <1>0, <1>4, <2>1 DEF ToCreate
    <2>3. PICK n \in 1..Len(q) : b = q[n]
        BY MapIsMerged
    <2>4. n \in 1..k
        <3>1. n < k + 1
            BY <2>2, <2>3, MapIsInOrder
        <3> QED
            BY <3>1
    <2>5. b \in Activity /\ RecordKey(b) = FallbackKey(a) /\ RecordKey(b) = FallbackKey(b)
        BY <1>0, <2>2, <2>3, RowlessKey
    <2>6. b \in ToCreate(s, E)
        BY <2>1, <2>2, <2>5 DEF ToCreate, Covered
    <2>7. RecordKey(b) \in KeysOf(c)
        BY <1>1, <2>3, <2>4, <2>6 DEF Holds, KeysOf
    <2> HIDE DEF a
    <2> QED
        BY <1>1, <1>4, <2>5, <2>7 DEF Covered
<1> QED
    BY <1>3, <1>4

LEMMA WalkSkips ==
    ASSUME NEW s \in Seq(Activity), NEW q \in Seq(Activity), NEW c \in Seq(Activity),
           NEW E, NEW keys, NEW k \in Nat, k + 1 \in 1..Len(q),
           MapHolds(s, q, Len(s)), WalkHolds(s, E, q, c, keys, k), Covered(q[k + 1], keys)
    PROVE  WalkHolds(s, E, q, c, keys, k + 1)
<1>1. q[k + 1] \notin ToCreate(s, E)
    BY WalkDecides
<1>2. ~ Holds(c, q[k + 1])
    <2>1. \A n \in 1..k : n \in 1..Len(q) /\ n # k + 1
        OBVIOUS
    <2>2. \A n \in 1..k : RecordKey(q[n]) # RecordKey(q[k + 1])
        BY <2>1 DEF MapHolds, OnePlace
    <2> QED
        BY <2>2 DEF WalkHolds, Holds
<1>3. \A n \in 1..(k + 1) : n \in 1..k \/ n = k + 1
    OBVIOUS
<1>4. \A n \in 1..k : n \in 1..(k + 1)
    OBVIOUS
<1> QED
    BY <1>1, <1>2, <1>3, <1>4 DEF WalkHolds

LEMMA WalkCreates ==
    ASSUME NEW s \in Seq(Activity), NEW q \in Seq(Activity), NEW c \in Seq(Activity),
           NEW E, NEW keys, NEW k \in Nat, k + 1 \in 1..Len(q),
           MapHolds(s, q, Len(s)), WalkHolds(s, E, q, c, keys, k), ~ Covered(q[k + 1], keys)
    PROVE  WalkHolds(s, E, q, Append(c, q[k + 1]), keys \cup {RecordKey(q[k + 1])}, k + 1)
<1> DEFINE a == q[k + 1]
           d == Append(c, a)
<1>1. a \in ToCreate(s, E) /\ a \in Activity
    BY WalkDecides
<1>2. /\ Len(c) \in Nat /\ Len(d) = Len(c) + 1 /\ d[Len(c) + 1] = a
      /\ \A x \in 1..Len(c) : d[x] = c[x]
      /\ \A x \in 1..(Len(c) + 1) : x \in 1..Len(c) \/ x = Len(c) + 1
      /\ \A x \in 1..Len(c) : x \in 1..(Len(c) + 1)
      /\ Len(c) + 1 \in 1..(Len(c) + 1)
    BY <1>1, AppendNth
<1>3. /\ \A n \in 1..(k + 1) : n \in 1..k \/ n = k + 1
      /\ \A n \in 1..k : n \in 1..(k + 1) /\ n \in 1..Len(q) /\ n # k + 1
      /\ k + 1 \in 1..(k + 1)
    OBVIOUS
<1>4. \A n \in 1..k : RecordKey(q[n]) # RecordKey(a)
    BY <1>3 DEF MapHolds, OnePlace
<1>5. a = q[k + 1]
    OBVIOUS
<1>6. /\ \A x \in 1..Len(c) : \E n \in 1..k : c[x] = q[n]
      /\ \A n \in 1..k : Holds(c, q[n]) <=> q[n] \in ToCreate(s, E)
      /\ OnePlace(c)
      /\ keys = E \cup KeysOf(c)
    BY DEF WalkHolds
<1> HIDE DEF a, d
<1>7. \A x \in 1..Len(d) : \E n \in 1..(k + 1) : d[x] = q[n]
    BY <1>2, <1>3, <1>5, <1>6
<1>8. ASSUME NEW n \in 1..(k + 1)
      PROVE  Holds(d, q[n]) <=> q[n] \in ToCreate(s, E)
    <2>1. CASE n = k + 1
        BY <1>1, <1>2, <1>5, <2>1 DEF Holds
    <2>2. CASE n \in 1..k
        <3>1. q[n] # a
            BY <1>4, <2>2
        <3>2. Holds(d, q[n]) <=> Holds(c, q[n])
            BY <1>2, <3>1 DEF Holds
        <3> QED
            BY <1>6, <2>2, <3>2
    <2> QED
        BY <1>3, <2>1, <2>2
<1>9. \A x \in 1..Len(c) : RecordKey(c[x]) # RecordKey(a)
    BY <1>4, <1>6
<1>10. OnePlace(d)
    BY <1>2, <1>6, <1>9 DEF OnePlace
<1>11. keys \cup {RecordKey(a)} = E \cup KeysOf(d)
    <2>1. KeysOf(d) = KeysOf(c) \cup {RecordKey(a)}
        BY <1>2 DEF KeysOf
    <2> QED
        BY <1>6, <2>1
<1>12. WalkHolds(s, E, q, d, keys \cup {RecordKey(a)}, k + 1)
    BY <1>7, <1>8, <1>10, <1>11 DEF WalkHolds
<1> QED
    BY <1>12 DEF a, d

LEMMA WalkIsToCreate ==
    ASSUME NEW s \in Seq(Activity), NEW q \in Seq(Activity), NEW c \in Seq(Activity),
           NEW E, NEW keys, MapHolds(s, q, Len(s)), WalkHolds(s, E, q, c, keys, Len(q))
    PROVE  /\ {c[x] : x \in DOMAIN c} = ToCreate(s, E)
           /\ keys = KeysAfter(s, E)
<1>0. DOMAIN c = 1..Len(c)
    OBVIOUS
<1>1. \A x \in 1..Len(c) : c[x] \in ToCreate(s, E)
    BY DEF WalkHolds, Holds
<1>2. \A a \in ToCreate(s, E) : \E x \in 1..Len(c) : c[x] = a
    <2>1. ToCreate(s, E) \subseteq Merged(s)
        BY DEF ToCreate
    <2> QED
        BY <2>1, MapIsMerged DEF WalkHolds, Holds
<1>3. {c[x] : x \in DOMAIN c} = ToCreate(s, E)
    BY <1>0, <1>1, <1>2
<1>4. KeysOf(c) = {RecordKey(a) : a \in ToCreate(s, E)}
    BY <1>1, <1>2 DEF KeysOf
<1> QED
    BY <1>3, <1>4 DEF WalkHolds, KeysAfter

-----------------------------------------------------------------------------
(* The loops.                                                              *)
LoopType ==
    /\ activities \in Seq(Activity) /\ merged \in Seq(Activity) /\ created \in Seq(Activity)
    /\ i \in Nat /\ i >= 1
    /\ pc \in {"merge", "import", "done"}

MapIsFull == MapHolds(activities, merged, Len(activities))
Walked(k) == WalkHolds(activities, existing, merged, created, importedKeys, k)

LoopInv ==
    /\ LoopType
    /\ pc = "merge" =>
          /\ i <= Len(activities) + 1 /\ MapHolds(activities, merged, i - 1)
          /\ created = << >> /\ importedKeys = existing
    /\ pc = "import" => i <= Len(merged) + 1 /\ MapIsFull /\ Walked(i - 1)
    /\ pc = "done" =>
          MapIsFull /\ Walked(Len(merged)) /\ docStatus = StatusAfter(extracted, importedKeys)

LEMMA LoopInit == Init => LoopInv
<1> SUFFICES ASSUME Init PROVE LoopInv
    OBVIOUS
<1>1. PICK n \in 0..MaxLen : activities \in [1..n -> Activity]
    BY DEF Init
<1>2. activities \in Seq(Activity) /\ Len(activities) \in Nat
    BY <1>1, LoopAssumption
<1>3. MapHolds(activities, << >>, 0)
    BY DEF MapHolds, OnePlace
<1> QED
    BY <1>2, <1>3 DEF Init, LoopInv, LoopType

LEMMA MergeStep == LoopInv /\ Merge => LoopInv'
<1> SUFFICES ASSUME LoopInv, Merge PROVE LoopInv'
    OBVIOUS
<1> DEFINE k == i - 1
           a == activities[i]
<1>1. /\ activities \in Seq(Activity) /\ merged \in Seq(Activity)
      /\ k \in Nat /\ i = k + 1 /\ k + 1 \in 1..Len(activities)
      /\ MapHolds(activities, merged, k)
      /\ a = activities[k + 1] /\ a \in Activity
    BY DEF LoopInv, LoopType, Merge
<1>2. /\ UNCHANGED <<activities, existing, extracted, importedKeys, created, docStatus, pc>>
      /\ i' = i + 1 /\ pc = "merge"
    BY DEF Merge
<1> HIDE DEF k, a
<1>3. merged' \in Seq(Activity) /\ MapHolds(activities, merged', k + 1)
    <2>1. DOMAIN merged = 1..Len(merged) /\ Len(merged) \in Nat
        BY <1>1
    <2>2. CASE SlotOf(a) = {}
        <3>1. merged' = Append(merged, activities[k + 1])
            BY <1>1, <2>2 DEF Merge, a
        <3>2. ~ HasKey(merged, RecordKey(activities[k + 1]))
            BY <1>1, <2>1, <2>2 DEF SlotOf, HasKey
        <3> QED
            BY <1>1, <3>1, <3>2, NewKey, AppendNth
    <2>3. CASE SlotOf(a) # {}
        <3>1. merged' = [m \in 1..Len(merged) |-> IF m \in SlotOf(a) THEN a ELSE merged[m]]
            BY <2>1, <2>3 DEF Merge, a
        <3>2. merged' \in Seq(Activity) /\ Len(merged') = Len(merged)
            BY <1>1, <2>1, <3>1
        <3>3. \A m \in 1..Len(merged) :
                 merged'[m] = IF RecordKey(merged[m]) = RecordKey(activities[k + 1])
                              THEN activities[k + 1] ELSE merged[m]
            BY <1>1, <2>1, <3>1 DEF SlotOf
        <3>4. HasKey(merged, RecordKey(activities[k + 1]))
            BY <1>1, <2>1, <2>3 DEF SlotOf, HasKey
        <3> QED
            BY <1>1, <3>2, <3>3, <3>4, OldKey
    <2> QED
        BY <2>2, <2>3
<1>4. MapHolds(activities', merged', i' - 1) /\ i' <= Len(activities') + 1 /\ i' \in Nat /\ i' >= 1
    <2>1. i' - 1 = k + 1
        BY <1>1, <1>2
    <2> QED
        BY <1>1, <1>2, <1>3, <2>1
<1> QED
    BY <1>2, <1>3, <1>4 DEF LoopInv, LoopType

LEMMA ImportStep == LoopInv /\ (SkipImported \/ CreateRecord) => LoopInv'
<1> SUFFICES ASSUME LoopInv, SkipImported \/ CreateRecord PROVE LoopInv'
    OBVIOUS
<1> DEFINE k == i - 1
<1>1. /\ activities \in Seq(Activity) /\ merged \in Seq(Activity) /\ created \in Seq(Activity)
      /\ k \in Nat /\ i = k + 1 /\ k + 1 \in 1..Len(merged) /\ merged[k + 1] \in Activity
      /\ MapHolds(activities, merged, Len(activities))
      /\ WalkHolds(activities, existing, merged, created, importedKeys, k)
    BY DEF LoopInv, LoopType, SkipImported, CreateRecord, MapIsFull, Walked
<1>2. /\ UNCHANGED <<activities, existing, extracted, merged, docStatus, pc>>
      /\ i' = i + 1 /\ pc = "import"
    BY DEF SkipImported, CreateRecord
<1> HIDE DEF k
<1>3. created' \in Seq(Activity) /\ WalkHolds(activities, existing, merged, created', importedKeys', k + 1)
    <2>1. CASE SkipImported
        <3>1. Covered(merged[k + 1], importedKeys) /\ created' = created /\ importedKeys' = importedKeys
            BY <1>1, <2>1 DEF SkipImported
        <3> QED
            BY <1>1, <3>1, WalkSkips
    <2>2. CASE CreateRecord
        <3>1. /\ ~ Covered(merged[k + 1], importedKeys)
              /\ created' = Append(created, merged[k + 1])
              /\ importedKeys' = importedKeys \cup {RecordKey(merged[k + 1])}
            BY <1>1, <2>2 DEF CreateRecord
        <3> QED
            BY <1>1, <3>1, WalkCreates, AppendNth
    <2> QED
        BY <2>1, <2>2
<1>4. /\ WalkHolds(activities', existing', merged', created', importedKeys', i' - 1)
      /\ i' <= Len(merged') + 1 /\ i' \in Nat /\ i' >= 1
    <2>1. i' - 1 = k + 1
        BY <1>1, <1>2
    <2> QED
        BY <1>1, <1>2, <1>3, <2>1
<1> QED
    BY <1>1, <1>2, <1>3, <1>4 DEF LoopInv, LoopType, MapIsFull, Walked

LEMMA LoopStep == LoopInv /\ [Next]_vars => LoopInv'
<1> SUFFICES ASSUME LoopInv, [Next]_vars PROVE LoopInv'
    OBVIOUS
<1>1. CASE MergeDone
    <2>1. /\ pc = "merge" /\ i = Len(activities) + 1 /\ i - 1 = Len(activities)
          /\ created = << >> /\ importedKeys = existing
          /\ MapHolds(activities, merged, Len(activities))
        BY <1>1 DEF MergeDone, LoopInv, LoopType
    <2>2. WalkHolds(activities, existing, merged, << >>, existing, 0)
        BY DEF WalkHolds, OnePlace, KeysOf, Holds
    <2>3. /\ pc' = "import" /\ i' = 1 /\ i' - 1 = 0
          /\ UNCHANGED <<activities, existing, extracted, merged, importedKeys, created, docStatus>>
        BY <1>1 DEF MergeDone
    <2>4. Len(merged) \in Nat
        BY DEF LoopInv, LoopType
    <2> QED
        BY <2>1, <2>2, <2>3, <2>4 DEF LoopInv, LoopType, MapIsFull, Walked
<1>2. CASE WriteStatus
    <2>1. pc = "import" /\ i - 1 = Len(merged) /\ MapIsFull /\ Walked(Len(merged))
        BY <1>2 DEF WriteStatus, LoopInv, LoopType
    <2>2. /\ pc' = "done" /\ docStatus' = StatusAfter(extracted, importedKeys)
          /\ UNCHANGED <<activities, existing, extracted, merged, i, importedKeys, created>>
        BY <1>2 DEF WriteStatus
    <2> QED
        BY <2>1, <2>2 DEF LoopInv, LoopType, MapIsFull, Walked, StatusAfter
<1>3. CASE UNCHANGED vars
    BY <1>3 DEF vars, LoopInv, LoopType, MapIsFull, Walked
<1> QED
    BY <1>1, <1>2, <1>3, MergeStep, ImportStep DEF Next

(* For a request of any length, and any records and extraction of its      *)
(* document: mergeImportActivities keeps the last activity of each key,    *)
(* the loop of confirmImport creates ToCreate, each once, and ends with    *)
(* KeysAfter and the status chosen by them -- the atomic step of           *)
(* DocumentImport.                                                         *)
THEOREM LoopsComputeToCreate == Spec => []LoopComputesToCreate
<1>1. LoopInv => LoopComputesToCreate
    <2> SUFFICES ASSUME LoopInv, pc = "done" PROVE LoopComputesToCreate
        BY DEF LoopComputesToCreate
    <2>1. /\ activities \in Seq(Activity) /\ merged \in Seq(Activity) /\ created \in Seq(Activity)
          /\ MapHolds(activities, merged, Len(activities))
          /\ WalkHolds(activities, existing, merged, created, importedKeys, Len(merged))
          /\ docStatus = StatusAfter(extracted, importedKeys)
        BY DEF LoopInv, LoopType, MapIsFull, Walked
    <2>2. DOMAIN merged = 1..Len(merged) /\ DOMAIN created = 1..Len(created)
        BY <2>1
    <2>3. {merged[n] : n \in DOMAIN merged} = Merged(activities)
        BY <2>1, <2>2, MapIsMerged
    <2>4. /\ {created[x] : x \in DOMAIN created} = ToCreate(activities, existing)
          /\ importedKeys = KeysAfter(activities, existing)
        BY <2>1, WalkIsToCreate
    <2>5. \A m, n \in DOMAIN created :
             m # n => RecordKey(created[m]) # RecordKey(created[n])
        BY <2>1, <2>2 DEF WalkHolds, OnePlace
    <2> QED
        BY <2>1, <2>3, <2>4, <2>5 DEF LoopComputesToCreate, CreatedSet
<1> QED
    BY <1>1, LoopInit, LoopStep, PTL DEF Spec

-----------------------------------------------------------------------------
(* Every survivor of a request is among the keys known afterwards.         *)
LEMMA SurvivorsAreCovered ==
    ASSUME NEW s \in Seq(Activity), NEW E, NEW a \in Merged(s)
    PROVE  Covered(a, KeysAfter(s, E))
<1>0. \A b \in Merged(s) : b \in Activity
    BY DEF Merged
<1>1. CASE Covered(a, E)
    BY <1>1 DEF Covered, KeysAfter
<1>2. CASE a \in ToCreate(s, E)
    BY <1>2 DEF Covered, KeysAfter
<1>3. CASE ~ Covered(a, E) /\ a \notin ToCreate(s, E)
    <2>1. PICK b \in Merged(s) : b.row = NoRow /\ a.row # NoRow /\ b.content = a.content
        BY <1>3 DEF ToCreate
    <2>2. RecordKey(b) = FallbackKey(a) /\ RecordKey(b) = FallbackKey(b)
        BY <1>0, <2>1, RowlessKey
    <2>3. b \in ToCreate(s, E)
        BY <1>3, <2>1, <2>2 DEF ToCreate, Covered
    <2> QED
        BY <2>2, <2>3 DEF Covered, KeysAfter
<1> QED
    BY <1>1, <1>2, <1>3

(* Nothing that was confirmed is lost, whatever the document already has:  *)
(* what confirmImport skips has a record under its own key, or a rowless   *)
(* record of the same content stands for it.                               *)
THEOREM ConfirmedIsRecorded == Spec => []NothingConfirmedIsLost
<1>1. LoopType /\ LoopComputesToCreate => NothingConfirmedIsLost
    BY SurvivorsAreCovered DEF LoopType, LoopComputesToCreate, NothingConfirmedIsLost, KeysAfter
<1>2. LoopInv => LoopType
    BY DEF LoopInv
<1> QED
    BY <1>1, <1>2, LoopsComputeToCreate, LoopInit, LoopStep, PTL DEF Spec

(* Storage gives back the contents it was given.                           *)
StoredExactly == \A c \in Contents : Stored[c] = c

(* A confirmation that is sent again, when the database holds what the     *)
(* first one created as it was given, creates nothing.                     *)
THEOREM RepeatedConfirmCreatesNothing ==
    ASSUME StoredExactly
    PROVE  Spec => []ConfirmIsIdempotent
<1>1. ASSUME LoopType, LoopComputesToCreate PROVE ConfirmIsIdempotent
    <2> SUFFICES ASSUME pc = "done"
                 PROVE  ToCreate(activities, existing \cup {StoredKey(a) : a \in CreatedSet}) = {}
        BY DEF ConfirmIsIdempotent
    <2>1. CreatedSet = ToCreate(activities, existing) /\ activities \in Seq(Activity)
        BY <1>1 DEF LoopComputesToCreate, LoopType
    <2>2. \A a \in CreatedSet : a \in Activity
        BY <2>1 DEF ToCreate, Merged
    <2>3. \A a \in Activity : StoredKey(a) = RecordKey(a)
        <3>1. \A a \in Activity : a.row # NoRow \/ a.content \in Contents
            BY DEF Activity
        <3> QED
            BY <3>1 DEF StoredExactly, StoredKey, RecordKey, Activity
    <2>4. existing \cup {StoredKey(a) : a \in CreatedSet} = KeysAfter(activities, existing)
        BY <2>1, <2>2, <2>3 DEF KeysAfter
    <2>5. \A a \in Merged(activities) : Covered(a, KeysAfter(activities, existing))
        BY <2>1, SurvivorsAreCovered
    <2> QED
        BY <2>4, <2>5 DEF ToCreate
<1>2. LoopInv => LoopType
    BY DEF LoopInv
<1> QED
    BY <1>1, <1>2, LoopsComputeToCreate, LoopInit, LoopStep, PTL DEF Spec
=============================================================================
