--------------------------- MODULE StagingProofs ---------------------------
(* Theorems about SpreadsheetStaging, for every workbook and every overlap *)
(* of saves and confirmations.                                             *)
EXTENDS SpreadsheetStaging, TLAPS, WellFoundedInduction

-----------------------------------------------------------------------------
(* TypeOK is inductive.                                                    *)

LEMMA InputDomain ==
    ASSUME NEW in \in Inputs
    PROVE  DOMAIN in \subseteq Slots
BY DEF Inputs

LEMMA ActType ==
    ASSUME NEW s \in Slots, NEW c \in Contents
    PROVE  Act(s, c) \in Activity
BY DEF Act, Activity, Slots

LEMMA RowsOfType ==
    ASSUME TypeOK, NEW d
    PROVE  /\ RowsOf(d) \in [Slots -> StagedRow \cup {Unstaged}]
           /\ \A s \in Slots : RowsOf(d)[s] # Unstaged => staged[s] # Unstaged
BY DEF TypeOK, RowsOf

(* What is imported are confirmed rows; of a document with staged rows,    *)
(* rows that are locked.                                                   *)
LEMMA ImportedSlotsAreInput ==
    ASSUME NEW p \in Requests, held[p] = Matched(p)
    PROVE  /\ ImportedSlots(p) \subseteq DOMAIN input[p]
           /\ \A s \in ImportedSlots(p) : view[p][s] # Unstaged => s \in held[p]
BY DEF ImportedSlots, Matched

LEMMA ImportedType ==
    ASSUME TypeOK, NEW p \in Requests, pc[p] = "scanned"
    PROVE  Imported(p) \subseteq Record
<1>1. /\ target[p] \in Docs
      /\ input[p] \in [DOMAIN input[p] -> Contents]
      /\ held[p] = Matched(p)
      /\ input[p] \in Inputs
    BY DEF TypeOK, ConfirmPcs
<1>2. \A s \in ImportedSlots(p) : s \in Slots /\ input[p][s] \in Contents
    BY <1>1, ImportedSlotsAreInput, InputDomain
<1>3. \A s \in ImportedSlots(p) : Act(s, input[p][s]) \in Activity
    BY <1>2, ActType
<1>4. ASSUME NEW r \in Imported(p) PROVE r \in Record
    <2>1. PICK s \in ImportedSlots(p) :
             r = [doc |-> target[p], by |-> p, slot |-> s, fromStaging |-> view[p][s] # Unstaged,
                  of |-> Act(s, input[p][s])]
        BY Zenon, <1>4 DEF Imported
    <2>2. (view[p][s] # Unstaged) \in BOOLEAN
        OBVIOUS
    <2> QED
        BY <1>1, <1>2, <1>3, <2>1, <2>2 DEF Record
<1> QED
    BY <1>4

LEMMA TypeInit == Init => TypeOK
<1> SUFFICES ASSUME Init PROVE TypeOK
    OBVIOUS
<1>1. [s \in {} |-> Unstaged] \in Inputs
    <2>1. [s \in {} |-> Unstaged] \in [{} -> Row \cup Contents]
        OBVIOUS
    <2> QED
        BY <2>1 DEF Inputs
<1>2. Listed \in Orders
    BY StagingAssumption
<1> QED
    BY <1>1, <1>2 DEF Init, TypeOK, SavePcs, ConfirmPcs

LEMMA TypeStep == TypeOK /\ [Next]_vars => TypeOK'
<1> SUFFICES ASSUME TypeOK, [Next]_vars PROVE TypeOK'
    OBVIOUS
<1> USE StagingAssumption DEF GoTo, End, tables
<1>1. ASSUME NEW p \in Requests, NEW in \in Saves, SaveFind(p, in) PROVE TypeOK'
    <2>1. in.rows \in Inputs /\ in.rows \in [DOMAIN in.rows -> Row] /\ in.order \in Orders
        BY DEF Inputs
    <2>2. /\ pc[p] = "idle" /\ pc' = [pc EXCEPT ![p] = "sourcing"]
          /\ input' = [input EXCEPT ![p] = in.rows]
          /\ order' = [order EXCEPT ![p] = in.order]
          /\ \E d \in IF Sources = {} THEN {NoDoc} ELSE Oldest(Sources) :
                target' = [target EXCEPT ![p] = d]
          /\ UNCHANGED <<tables, rows, view, held, owns, scan>>
        BY <1>1, Zenon DEF SaveFind
    <2> QED
        BY <2>1, <2>2 DEF Oldest, Sources, TypeOK, SavePcs, ConfirmPcs, Matched
<1>2. ASSUME NEW p \in Requests, SaveSource(p) PROVE TypeOK'
    <2>1. /\ pc[p] = "sourcing" /\ pc' = [pc EXCEPT ![p] = "staging"]
          /\ owns' = [owns EXCEPT ![p] = TRUE]
          /\ UNCHANGED <<tables, input, order, rows, view, held, scan>>
        BY <1>2, Zenon DEF SaveSource
    <2>2. \E d \in Docs : target' = [target EXCEPT ![p] = d]
        <3>1. CASE target[p] # NoDoc /\ UNCHANGED target
            BY <3>1 DEF TypeOK
        <3>2. CASE \E d \in Docs \ Sources : target' = [target EXCEPT ![p] = d]
            BY <3>2
        <3> QED
            BY <1>2, <3>1, <3>2 DEF SaveSource
    <2>3. /\ target' \in [Requests -> Docs \cup {NoDoc}] /\ target'[p] \in Docs
          /\ \A q \in Requests : q # p => target'[q] = target[q]
        BY <2>2 DEF TypeOK
    <2> QED
        BY <2>1, <2>2, <2>3 DEF TypeOK, SavePcs, ConfirmPcs, Matched
<1>3. ASSUME NEW p \in Requests, NEW s \in Slots, SaveRow(p, s) PROVE TypeOK'
    BY <1>3 DEF SaveRow, TypeOK, SavePcs, ConfirmPcs, Matched
<1>4. ASSUME NEW p \in Requests, NEW s \in Slots, Revalidate(p, s) PROVE TypeOK'
    BY <1>4 DEF Revalidate, TypeOK, SavePcs, ConfirmPcs, Matched
<1>5. ASSUME NEW p \in Requests, SaveCommit(p) PROVE TypeOK'
    <2>1. target[p] \in Docs /\ input[p] \in [DOMAIN input[p] -> Row]
        BY <1>5 DEF SaveCommit, TypeOK, SavePcs
    <2>2. /\ staged' \in [Slots -> StagedRow \cup {Unstaged}]
          /\ \A s \in Slots : staged[s] # Unstaged => staged'[s] # Unstaged
        BY <1>5, <2>1 DEF SaveCommit, TypeOK, Row, StagedRow
    <2>3. extraction' \in [Docs -> SUBSET Activity]
        <3>1. DOMAIN input[p] \subseteq Slots
            BY InputDomain DEF TypeOK
        <3>2. \A s \in DOMAIN input[p] : Act(s, input[p][s].content) \in Activity
            BY <2>1, <3>1, ActType DEF Row
        <3> QED
            BY <1>5, <3>2 DEF SaveCommit, TypeOK
    <2>4. status' \in [Docs -> {"none", "PROCESSED", "REVIEW_REQUIRED", "IMPORTED"}]
        BY <1>5 DEF SaveCommit, TypeOK
    <2> QED
        BY <1>5, <2>2, <2>3, <2>4 DEF SaveCommit, TypeOK, SavePcs, ConfirmPcs, Matched
<1>6. ASSUME NEW p \in Requests, NEW d \in Docs, NEW in \in Confirms, ConfirmRead(p, d, in)
      PROVE  TypeOK'
    <2>1. in.rows \in Inputs /\ in.rows \in [DOMAIN in.rows -> Contents] /\ in.order \in Orders
        BY DEF Inputs
    <2> QED
        BY <1>6, <2>1 DEF ConfirmRead, TypeOK, SavePcs, ConfirmPcs, Matched
<1>7. ASSUME NEW p \in Requests, ConfirmReview(p) PROVE TypeOK'
    <2> DEFINE R == RowsOf(target[p])
               ready == {s \in Slots : Eligible(R[s])}
    <2>1. R \in [Slots -> StagedRow \cup {Unstaged}]
        BY RowsOfType
    <2>2. \A s \in Slots : R[s] # Unstaged => staged[s] # Unstaged
        BY RowsOfType
    <2>3. [s \in ready |-> R[s].content] \in [ready -> Contents]
        BY <2>1 DEF Eligible, StagedRow
    <2>4. \A S \in SUBSET Slots : [S -> Contents] \subseteq Inputs
        BY DEF Inputs
    <2>5. [s \in ready |-> R[s].content] \in Inputs
        BY <2>3, <2>4
    <2>6. /\ input' \in [Requests -> Inputs]
          /\ input'[p] \in [DOMAIN input'[p] -> Contents]
          /\ \A q \in Requests : q # p => input'[q] = input[q]
        BY <1>7, <2>3, <2>5 DEF ConfirmReview, TypeOK, ConfirmPcs
    <2>7. /\ view' \in [Requests -> [Slots -> StagedRow \cup {Unstaged}]]
          /\ view'[p] = R
          /\ \A q \in Requests : q # p => view'[q] = view[q]
        BY <1>7, <2>1 DEF ConfirmReview, TypeOK
    <2>8. order' \in [Requests -> Orders]
        BY <1>7 DEF ConfirmReview, TypeOK
    <2> HIDE DEF R, ready
    <2> QED
        BY <1>7, <2>2, <2>6, <2>7, <2>8 DEF ConfirmReview, TypeOK, SavePcs, ConfirmPcs, Matched
<1>8. ASSUME NEW p \in Requests, ConfirmScan(p) PROVE TypeOK'
    BY <1>8 DEF ConfirmScan, TypeOK, SavePcs, ConfirmPcs, Matched, RecordsOf
<1>9. ASSUME NEW p \in Requests, ConfirmCommit(p) PROVE TypeOK'
    <2>1. pc[p] = "scanned" /\ Imported(p) \subseteq Record
        BY <1>9, ImportedType DEF ConfirmCommit
    <2>2. /\ input[p] \in [DOMAIN input[p] -> Contents]
          /\ held[p] = Matched(p)
        BY <2>1 DEF TypeOK, ConfirmPcs
    <2>3. \A s \in held[p] : staged[s] \in StagedRow /\ input[p][s] \in Contents
        BY <2>2 DEF TypeOK, Matched
    <2>4. \A s \in held[p] : Revalidated(p, staged[s], s) \in StagedRow
        BY <2>3, StagingAssumption DEF Revalidated, StagedRow
    <2>5. /\ staged' \in [Slots -> StagedRow \cup {Unstaged}]
          /\ \A s \in Slots : staged[s] # Unstaged => staged'[s] # Unstaged
        BY <1>9, <2>4 DEF ConfirmCommit, TypeOK
    <2>6. status' \in [Docs -> {"none", "PROCESSED", "REVIEW_REQUIRED", "IMPORTED"}]
        BY <1>9 DEF ConfirmCommit, TypeOK
    <2>7. records' \subseteq Record
        BY <1>9, <2>1 DEF ConfirmCommit, TypeOK
    <2> QED
        BY <1>9, <2>5, <2>6, <2>7 DEF ConfirmCommit, TypeOK, SavePcs, ConfirmPcs, Matched
<1>10. ASSUME NEW p \in Requests, Abort(p) PROVE TypeOK'
    BY <1>10 DEF Abort, TypeOK, SavePcs, ConfirmPcs, Matched
<1>11. CASE UNCHANGED vars
    BY <1>11 DEF vars, TypeOK, SavePcs, ConfirmPcs, Matched
<1> QED
    BY <1>1, <1>2, <1>3, <1>4, <1>5, <1>6, <1>7, <1>8, <1>9, <1>10, <1>11 DEF Next

(* Every variable keeps its type, and what a request holds fits the step   *)
(* it is at: types of tables, locks, views and inputs of SpreadsheetStaging.*)
THEOREM StagingTypeCorrect == Spec => []TypeOK
BY TypeInit, TypeStep, PTL DEF Spec

-----------------------------------------------------------------------------
(* Why a staged row is imported once.                                      *)

(* Row locks exclude one another.                                          *)
LocksExclude ==
    \A p, q \in Requests : p # q => held[p] \cap held[q] = {}

StagedRecords(d, s) == {r \in records : r.doc = d /\ r.slot = s /\ r.fromStaging}

(* A record has the number of its row, so a record that has been read      *)
(* covers its row.                                                         *)
RecordsNameRows == \A r \in records : r.of.row = r.slot[2]

(* A confirmation that has read the records of its document has read every *)
(* record of the rows it has locked.                                       *)
ScanKnowsHeld ==
    \A p \in Requests : pc[p] = "scanned" =>
        \A s \in held[p] : StagedRecords(target[p], s) \subseteq scan[p]

LockInv ==
    TypeOK /\ LocksExclude /\ RecordsNameRows /\ ScanKnowsHeld /\ StagedRowImportedOnce

(* How a step changes what the invariant speaks of: it commits a           *)
(* confirmation, reads records, or leaves the records alone and takes at   *)
(* most one free lock of a transaction that has not read them yet.         *)
LEMMA StepKinds ==
    ASSUME TypeOK, [Next]_vars
    PROVE  \/ \E p \in Requests : ConfirmCommit(p)
           \/ \E p \in Requests : ConfirmScan(p)
           \/ /\ records' = records
              /\ scan' = scan
              /\ \A q \in Requests : pc'[q] = "scanned" =>
                    pc[q] = "scanned" /\ held'[q] = held[q] /\ target'[q] = target[q]
              /\ \/ \A q \in Requests : held'[q] \subseteq held[q]
                 \/ \E p \in Requests, s \in Slots :
                       RowFree(p, s) /\ held' = [held EXCEPT ![p] = @ \cup {s}]
<1> USE DEF TypeOK, GoTo, End, tables
<1>1. ASSUME NEW p \in Requests, NEW s \in Slots, SaveRow(p, s) \/ Revalidate(p, s)
      PROVE  /\ records' = records /\ scan' = scan
             /\ \A q \in Requests : pc'[q] = "scanned" =>
                   pc[q] = "scanned" /\ held'[q] = held[q] /\ target'[q] = target[q]
             /\ RowFree(p, s) /\ held' = [held EXCEPT ![p] = @ \cup {s}]
    BY <1>1 DEF SaveRow, Revalidate
<1>2. ASSUME NEW p \in Requests, NEW in, SaveFind(p, in)
      PROVE  /\ records' = records /\ scan' = scan /\ held' = held
             /\ \A q \in Requests : pc'[q] = "scanned" =>
                   pc[q] = "scanned" /\ target'[q] = target[q]
    BY <1>2 DEF SaveFind
<1>3. ASSUME NEW p \in Requests, NEW d, NEW in, ConfirmRead(p, d, in)
      PROVE  /\ records' = records /\ scan' = scan /\ held' = held
             /\ \A q \in Requests : pc'[q] = "scanned" =>
                   pc[q] = "scanned" /\ target'[q] = target[q]
    BY <1>3 DEF ConfirmRead
<1>4. ASSUME NEW p \in Requests, SaveSource(p) \/ ConfirmReview(p)
      PROVE  /\ records' = records /\ scan' = scan /\ held' = held
             /\ \A q \in Requests : pc'[q] = "scanned" =>
                   pc[q] = "scanned" /\ target'[q] = target[q]
    BY <1>4 DEF SaveSource, ConfirmReview
<1>5. ASSUME NEW p \in Requests, SaveCommit(p) \/ Abort(p)
      PROVE  /\ records' = records /\ scan' = scan
             /\ \A q \in Requests : held'[q] \subseteq held[q]
             /\ \A q \in Requests : pc'[q] = "scanned" =>
                   pc[q] = "scanned" /\ held'[q] = held[q] /\ target'[q] = target[q]
    BY <1>5 DEF SaveCommit, Abort
<1>6. CASE UNCHANGED vars
    BY <1>6 DEF vars
<1> HIDE DEF TypeOK, GoTo, End, tables
<1> QED
    BY <1>1, <1>2, <1>3, <1>4, <1>5, <1>6 DEF Next

LEMMA LocksStep == TypeOK /\ LocksExclude /\ [Next]_vars => LocksExclude'
<1> SUFFICES ASSUME TypeOK, LocksExclude, [Next]_vars PROVE LocksExclude'
    OBVIOUS
<1>1. CASE \A q \in Requests : held'[q] \subseteq held[q]
    BY <1>1 DEF LocksExclude
<1>2. ASSUME NEW p \in Requests, NEW s \in Slots,
             RowFree(p, s), held' = [held EXCEPT ![p] = @ \cup {s}]
      PROVE  LocksExclude'
    BY <1>2 DEF LocksExclude, RowFree, TypeOK
<1>3. ASSUME NEW p \in Requests, ConfirmCommit(p) \/ ConfirmScan(p)
      PROVE  \A q \in Requests : held'[q] \subseteq held[q]
    BY <1>3 DEF ConfirmCommit, ConfirmScan, End, GoTo, TypeOK
<1> QED
    BY <1>1, <1>2, <1>3, StepKinds

(* A commit adds a staged record for a row only if the transaction holds   *)
(* the row and has read no record of it.                                   *)
LEMMA CommitAddsFresh ==
    ASSUME TypeOK, NEW p \in Requests, pc[p] = "scanned",
           NEW r \in Imported(p)
    PROVE  /\ r.doc = target[p]
           /\ r.of.row = r.slot[2] /\ r.slot \in Slots
           /\ r = [doc |-> target[p], by |-> p, slot |-> r.slot,
                   fromStaging |-> view[p][r.slot] # Unstaged,
                   of |-> Act(r.slot, input[p][r.slot])]
           /\ r.fromStaging => r.slot \in held[p]
           /\ \A o \in scan[p] : StoredKey(o.of) # RecordKey(r.of)
<1>1. held[p] = Matched(p)
    BY DEF TypeOK
<1>2. PICK s \in ImportedSlots(p) :
         r = [doc |-> target[p], by |-> p, slot |-> s, fromStaging |-> view[p][s] # Unstaged,
              of |-> Act(s, input[p][s])]
    BY Zenon DEF Imported
<1>3. s \in Slots /\ (view[p][s] # Unstaged => s \in held[p])
    BY <1>1, ImportedSlotsAreInput, InputDomain DEF TypeOK
<1>4. ~ Covered(Act(s, input[p][s]), {StoredKey(o.of) : o \in scan[p]})
    BY <1>2 DEF ImportedSlots
<1> QED
    BY <1>2, <1>3, <1>4 DEF Covered, Act

LEMMA NamesStep == TypeOK /\ RecordsNameRows /\ [Next]_vars => RecordsNameRows'
<1> SUFFICES ASSUME TypeOK, RecordsNameRows, [Next]_vars PROVE RecordsNameRows'
    OBVIOUS
<1>1. ASSUME NEW p \in Requests, ConfirmCommit(p) PROVE RecordsNameRows'
    BY <1>1, CommitAddsFresh DEF ConfirmCommit, RecordsNameRows
<1>2. ASSUME NEW p \in Requests, ConfirmScan(p) PROVE records' = records
    BY <1>2 DEF ConfirmScan, tables
<1> QED
    BY <1>1, <1>2, StepKinds DEF RecordsNameRows

LEMMA ScanStep == LockInv /\ [Next]_vars => ScanKnowsHeld'
<1> SUFFICES ASSUME LockInv, [Next]_vars PROVE ScanKnowsHeld'
    OBVIOUS
<1> USE DEF LockInv
<1>1. ASSUME NEW p \in Requests, ConfirmCommit(p) PROVE ScanKnowsHeld'
    <2> SUFFICES ASSUME NEW q \in Requests, pc'[q] = "scanned", NEW s \in held'[q],
                        NEW r \in StagedRecords(target[q], s)'
                 PROVE  r \in scan'[q]
        BY DEF ScanKnowsHeld
    <2>1. q # p /\ pc[q] = "scanned" /\ held'[q] = held[q] /\ target'[q] = target[q]
             /\ scan'[q] = scan[q]
        BY <1>1 DEF ConfirmCommit, End, GoTo, TypeOK
    <2>2. CASE r \in records
        BY <2>1, <2>2 DEF ScanKnowsHeld, StagedRecords
    <2>3. CASE r \notin records
        <3>1. r \in Imported(p) /\ pc[p] = "scanned"
            BY <1>1, <2>3 DEF ConfirmCommit, StagedRecords
        <3>2. s \in held[p]
            BY <3>1, CommitAddsFresh DEF StagedRecords
        <3> QED
            BY <2>1, <3>2 DEF LocksExclude
    <2> QED
        BY <2>2, <2>3
<1>2. ASSUME NEW p \in Requests, ConfirmScan(p) PROVE ScanKnowsHeld'
    BY <1>2 DEF ConfirmScan, ScanKnowsHeld, StagedRecords, RecordsOf, GoTo, tables, TypeOK
<1>3. CASE /\ records' = records
           /\ scan' = scan
           /\ \A q \in Requests : pc'[q] = "scanned" =>
                 pc[q] = "scanned" /\ held'[q] = held[q] /\ target'[q] = target[q]
    BY <1>3 DEF ScanKnowsHeld, StagedRecords
<1> QED
    BY <1>1, <1>2, <1>3, StepKinds

LEMMA OnceStep == LockInv /\ [Next]_vars => StagedRowImportedOnce'
<1> SUFFICES ASSUME LockInv, [Next]_vars PROVE StagedRowImportedOnce'
    OBVIOUS
<1> USE DEF LockInv
<1>1. ASSUME NEW p \in Requests, ConfirmCommit(p) PROVE StagedRowImportedOnce'
    <2>1. pc[p] = "scanned" /\ records' = records \cup Imported(p)
        BY <1>1 DEF ConfirmCommit
    <2>2. ASSUME NEW r \in Imported(p), NEW o \in records, r.fromStaging, o.fromStaging,
                 r.doc = o.doc, r.slot = o.slot
          PROVE  FALSE
        <3>1. r.slot \in held[p] /\ r.doc = target[p] /\ r.of.row = r.slot[2]
                 /\ r.slot \in Slots /\ \A e \in scan[p] : StoredKey(e.of) # RecordKey(r.of)
            BY <2>1, <2>2, CommitAddsFresh
        <3>2. o \in scan[p]
            BY <2>1, <2>2, <3>1 DEF ScanKnowsHeld, StagedRecords
        <3>3. o.of.row = r.of.row /\ r.of.row \in SourceRows
            BY <2>2, <3>1 DEF RecordsNameRows, Slots
        <3>4. StoredKey(o.of) = RecordKey(r.of)
            BY <3>3, NoRowAssumption DEF StoredKey, RecordKey
        <3> QED
            BY <3>1, <3>2, <3>4
    <2>3. ASSUME NEW r \in Imported(p), NEW o \in Imported(p), r.slot = o.slot
          PROVE  r = o
        BY <2>1, <2>3, CommitAddsFresh
    <2> QED
        BY <2>1, <2>2, <2>3 DEF StagedRowImportedOnce
<1>2. ASSUME NEW p \in Requests, ConfirmScan(p) PROVE records' = records
    BY <1>2 DEF ConfirmScan, tables
<1> QED
    BY <1>1, <1>2, StepKinds DEF StagedRowImportedOnce

(* However saves and confirmations overlap, roll back or die, a staged row *)
(* is imported into its document once (the staged branch of confirmImport).*)
THEOREM StagedOnce == Spec => []StagedRowImportedOnce
<1>1. Init => LockInv
    BY TypeInit DEF Init, LockInv, LocksExclude, RecordsNameRows, ScanKnowsHeld,
                    StagedRowImportedOnce
<1>2. LockInv /\ [Next]_vars => LockInv'
    BY TypeStep, LocksStep, NamesStep, ScanStep, OnceStep DEF LockInv
<1>3. LockInv => StagedRowImportedOnce
    BY DEF LockInv
<1> QED
    BY <1>1, <1>2, <1>3, PTL DEF Spec

-----------------------------------------------------------------------------
(* Why a circle of requests that wait takes two orders.                    *)

LEMMA LeastNumber ==
    ASSUME NEW T, T \subseteq Nat, T # {}
    PROVE  \E n \in T : \A m \in T : ~ (m < n)
<1> DEFINE R == {ss \in Nat \X Nat : ss[1] < ss[2]}
<1>1. IsWellFoundedOn(R, Nat)
    BY Zenon, NatLessThanWellFounded DEF OpToRel
<1>2. \A m, n \in Nat : m < n => <<m, n>> \in R
    OBVIOUS
<1> HIDE DEF R
<1>3. PICK n \in T : \A m \in T : ~ (<<m, n>> \in R)
    BY <1>1, WFMin
<1> QED
    BY <1>2, <1>3

(* A document is locked by a save only, until it commits; a transaction    *)
(* has locked the first of its rows, and has none before its first update. *)
OwnersSave == \A p \in Requests : owns[p] => pc[p] = "staging"

Updating(p) == pc[p] \in {"staging", "revalidating"}

RowByRow ==
    \A p \in Requests : Updating(p) =>
        /\ held[p] \subseteq Wanted(p)
        /\ \A s \in held[p], t \in Wanted(p) : order[p][t] < order[p][s] => t \in held[p]

OrderInv == TypeOK /\ OwnersSave /\ RowByRow

LEMMA OwnersStep == TypeOK /\ OwnersSave /\ [Next]_vars => OwnersSave'
<1> SUFFICES ASSUME TypeOK, OwnersSave, [Next]_vars PROVE OwnersSave'
    OBVIOUS
<1> USE DEF TypeOK, OwnersSave, GoTo, End
<1>1. ASSUME NEW p \in Requests, NEW in, SaveFind(p, in) PROVE OwnersSave'
    BY <1>1 DEF SaveFind
<1>2. ASSUME NEW p \in Requests, SaveSource(p) PROVE OwnersSave'
    <2>1. pc' = [pc EXCEPT ![p] = "staging"] /\ owns' = [owns EXCEPT ![p] = TRUE]
        BY <1>2, Zenon DEF SaveSource
    <2> QED
        BY <2>1
<1>3. ASSUME NEW p \in Requests, NEW s, SaveRow(p, s) \/ Revalidate(p, s) PROVE OwnersSave'
    BY <1>3 DEF SaveRow, Revalidate
<1>4. ASSUME NEW p \in Requests, NEW d, NEW in, ConfirmRead(p, d, in) PROVE OwnersSave'
    BY <1>4 DEF ConfirmRead
<1>5. ASSUME NEW p \in Requests,
             \/ SaveCommit(p) \/ ConfirmReview(p)
             \/ ConfirmScan(p) \/ ConfirmCommit(p) \/ Abort(p)
      PROVE  OwnersSave'
    BY <1>5 DEF SaveCommit, ConfirmReview, ConfirmScan, ConfirmCommit, Abort
<1>6. CASE UNCHANGED vars
    BY <1>6 DEF vars
<1> HIDE DEF TypeOK, OwnersSave, GoTo, End
<1> QED
    BY <1>1, <1>2, <1>3, <1>4, <1>5, <1>6 DEF Next

LEMMA WantedSlots ==
    ASSUME TypeOK, NEW p \in Requests
    PROVE  Wanted(p) \subseteq Slots
BY InputDomain DEF TypeOK, Wanted, Matched

LEMMA Places ==
    ASSUME TypeOK, NEW p \in Requests, NEW s \in Slots, NEW t \in Slots
    PROVE  order[p][s] \in Nat /\ order[p][t] \in Nat /\ (order[p][s] = order[p][t] => s = t)
<1>1. order[p] \in Orders /\ Length \in Nat
    BY StagingAssumption DEF TypeOK
<1> QED
    BY <1>1 DEF Orders

LEMMA RowByRowStep == OrderInv /\ [Next]_vars => RowByRow'
<1> SUFFICES ASSUME TypeOK, RowByRow, [Next]_vars,
                    NEW q \in Requests, Updating(q)'
             PROVE  (/\ held[q] \subseteq Wanted(q)
                     /\ \A s \in held[q], t \in Wanted(q) :
                           order[q][t] < order[q][s] => t \in held[q])'
    BY DEF RowByRow, OrderInv
<1> DEFINE Kept(p) == /\ pc'[p] = pc[p] /\ held'[p] = held[p] /\ view'[p] = view[p]
                      /\ input'[p] = input[p] /\ order'[p] = order[p]
<1> USE DEF TypeOK, GoTo, End
<1>0. ASSUME Kept(q)
      PROVE  (/\ held[q] \subseteq Wanted(q)
              /\ \A s \in held[q], t \in Wanted(q) :
                    order[q][t] < order[q][s] => t \in held[q])'
    BY <1>0 DEF RowByRow, Wanted, Matched, Updating
<1>1. ASSUME NEW p \in Requests, NEW in, SaveFind(p, in) PROVE Kept(q)
    BY <1>1 DEF SaveFind, Updating
<1>2. ASSUME NEW p \in Requests, NEW d, NEW in, ConfirmRead(p, d, in) PROVE Kept(q)
    BY <1>2 DEF ConfirmRead, Updating
<1>3. ASSUME NEW p \in Requests,
             SaveCommit(p) \/ ConfirmScan(p) \/ ConfirmCommit(p) \/ Abort(p)
      PROVE  Kept(q)
    BY <1>3 DEF SaveCommit, ConfirmScan, ConfirmCommit, Abort, Updating
<1>4. ASSUME NEW p \in Requests, SaveSource(p) \/ ConfirmReview(p), q # p PROVE Kept(q)
    BY <1>4 DEF SaveSource, ConfirmReview
<1>5. ASSUME SaveSource(q) \/ ConfirmReview(q) PROVE held'[q] = {}
    BY <1>5 DEF SaveSource, ConfirmReview
<1>6. ASSUME NEW p \in Requests, NEW s \in Slots, SaveRow(p, s) \/ Revalidate(p, s), q # p
      PROVE  Kept(q)
    BY <1>6 DEF SaveRow, Revalidate
<1>7. ASSUME NEW s \in Slots, SaveRow(q, s) \/ Revalidate(q, s)
      PROVE  (/\ held[q] \subseteq Wanted(q)
              /\ \A r \in held[q], t \in Wanted(q) :
                    order[q][t] < order[q][r] => t \in held[q])'
    <2>1. /\ Updating(q) /\ s \in Wanted(q)
          /\ \A t \in Wanted(q) \ held[q] : order[q][s] <= order[q][t]
          /\ held'[q] = held[q] \cup {s} /\ Wanted(q)' = Wanted(q) /\ order' = order
        <3>1. CASE SaveRow(q, s)
            BY <3>1 DEF SaveRow, NextRows, Wanted, Matched, Updating
        <3>2. CASE Revalidate(q, s)
            BY <3>2 DEF Revalidate, NextRows, Wanted, Matched, Updating
        <3> QED
            BY <1>7, <3>1, <3>2
    <2>2. ASSUME NEW t \in Wanted(q), order[q][t] < order[q][s] PROVE t \in held[q]
        BY <2>1, <2>2, WantedSlots, Places
    <2> HIDE DEF TypeOK
    <2> QED
        BY <2>1, <2>2 DEF RowByRow
<1>8. CASE UNCHANGED vars
    BY <1>8, <1>0 DEF vars
<1> HIDE DEF TypeOK, GoTo, End, Kept
<1> QED
    BY <1>0, <1>1, <1>2, <1>3, <1>4, <1>5, <1>6, <1>7, <1>8 DEF Next

(* The row p awaits precedes the row awaited by whoever holds it, in any   *)
(* order that theirs are part of.                                          *)
LEMMA AwaitsEarlier ==
    ASSUME OrderInv, NEW p \in Requests, NEW q \in Requests,
           NEW s \in held[q], NEW t \in Slots, Awaits(p, s), Awaits(q, t)
    PROVE  s \in Wanted(q) /\ t \in Wanted(q) /\ order[q][s] < order[q][t]
<1>1. Updating(q) /\ t \in Wanted(q) /\ t \notin held[q]
    BY DEF Awaits, NextRows, Updating
<1>2. s \in Wanted(q) /\ ~ (order[q][t] < order[q][s])
    BY <1>1 DEF OrderInv, RowByRow
<1>3. s \in Slots /\ s # t /\ TypeOK
    BY <1>1, <1>2, WantedSlots DEF OrderInv
<1> QED
    BY <1>1, <1>2, <1>3, Places

(* Among requests that all wait for one another, and of which no           *)
(* confirmation waits for its document, each one that updates rows awaits  *)
(* a row that another such one holds.                                      *)
LEMMA WaitsForRow ==
    ASSUME OrderInv, NEW C \in SUBSET Requests, NEW p \in C,
           \A x \in C : pc[x] # "scanned" /\ \E y \in C : WaitsFor(x, y)
    PROVE  /\ pc[p] = "sourcing" => \E q \in C : Updating(q)
           /\ Updating(p) => \E q \in C : \E s \in held[q] : Awaits(p, s) /\ Updating(q)
<1>1. PICK q \in C : WaitsFor(p, q)
    OBVIOUS
<1>2. owns[q] => Updating(q)
    BY DEF OrderInv, OwnersSave, Updating
<1>3. held[q] # {} => Updating(q)
    BY DEF OrderInv, TypeOK, Updating
<1> QED
    BY <1>1, <1>2, <1>3 DEF WaitsFor, Awaits, Updating

LEMMA NoCircleInOneOrder ==
    ASSUME OrderInv, NEW C \in SUBSET Requests, C # {},
           \A p \in C : pc[p] # "scanned" /\ \E q \in C : WaitsFor(p, q)
    PROVE  ~ OneOrder(C)
<1> SUFFICES ASSUME NEW o \in Orders,
                    \A p \in C : \A s, t \in Wanted(p) : order[p][s] < order[p][t] => o[s] < o[t]
             PROVE  FALSE
    BY DEF OneOrder
<1> DEFINE awaited == {s \in Slots : \E p \in C : Awaits(p, s)}
           left == {Length - o[s] : s \in awaited}
<1>1. \A s \in Slots : o[s] \in Nat /\ o[s] <= Length /\ Length \in Nat
    BY StagingAssumption DEF Orders
<1>2. ASSUME NEW p \in C, NEW s, Awaits(p, s) PROVE s \in awaited
    <2>1. s \in Wanted(p) /\ TypeOK
        BY <1>2 DEF Awaits, NextRows, OrderInv
    <2> QED
        BY <1>2, <2>1, WantedSlots
<1>3. awaited # {}
    <2>1. PICK p \in C : TRUE
        OBVIOUS
    <2>2. pc[p] = "sourcing" \/ Updating(p)
        <3>1. PICK q \in C : WaitsFor(p, q)
            OBVIOUS
        <3> QED
            BY <3>1 DEF WaitsFor, Awaits, Updating
    <2>3. PICK q \in C : Updating(q)
        BY <2>2, WaitsForRow
    <2>4. PICK r \in C : \E s \in held[r] : Awaits(q, s)
        BY <2>3, WaitsForRow
    <2> QED
        BY <1>2, <2>4
<1>4. left \subseteq Nat /\ left # {}
    BY <1>1, <1>3
<1>5. PICK n \in left : \A m \in left : ~ (m < n)
    BY <1>4, LeastNumber
<1>6. PICK s \in awaited : n = Length - o[s]
    BY <1>5
<1>7. PICK p \in C : Awaits(p, s)
    BY <1>6
<1>8. Updating(p)
    BY <1>7 DEF Awaits, Updating
<1>9. PICK q \in C : \E u \in held[q] : Awaits(p, u) /\ Updating(q)
    BY <1>8, WaitsForRow
<1>10. PICK u \in held[q] : Awaits(p, u) /\ Updating(q)
    BY <1>9
<1>11. u = s
    <2>1. /\ u \in Wanted(p) /\ s \in Wanted(p)
          /\ order[p][s] <= order[p][u] /\ order[p][u] <= order[p][s]
        BY <1>7, <1>10 DEF Awaits, NextRows
    <2> QED
        BY <2>1, WantedSlots, Places DEF OrderInv
<1>12. PICK r \in C : \E t \in held[r] : Awaits(q, t)
    BY <1>10, WaitsForRow
<1>13. PICK t \in held[r] : Awaits(q, t)
    BY <1>12
<1>14. t \in awaited /\ s \in Slots /\ t \in Slots
    BY <1>2, <1>6, <1>13
<1>15. s \in Wanted(q) /\ t \in Wanted(q) /\ order[q][s] < order[q][t]
    BY <1>7, <1>10, <1>11, <1>13, <1>14, AwaitsEarlier
<1>16. o[s] < o[t]
    BY <1>15
<1>17. Length - o[t] \in left /\ Length - o[t] < n
    BY <1>1, <1>6, <1>14, <1>16
<1> QED
    BY <1>5, <1>17

(* Saves and confirmations of one workbook, however many, wait in a circle *)
(* only if a confirmation waits for the document a save has begun with, or *)
(* if no single order of the rows agrees with the orders in which they     *)
(* were sent: saveReviewRows and confirmImport update row by row.          *)
THEOREM CirclesTakeTwoOrders == Spec => []DeadlockTakesTwoOrders
<1>1. Init => OrderInv
    BY TypeInit DEF Init, OrderInv, OwnersSave, RowByRow, Updating
<1>2. OrderInv /\ [Next]_vars => OrderInv'
    BY TypeStep, OwnersStep, RowByRowStep DEF OrderInv
<1>3. OrderInv => DeadlockTakesTwoOrders
    BY NoCircleInOneOrder DEF DeadlockTakesTwoOrders
<1> QED
    BY <1>1, <1>2, <1>3, PTL DEF Spec

-----------------------------------------------------------------------------
(* What one request at a time may rely on.                                 *)

Alone == ~ overlapped => \A p, q \in Requests : InFlight(p) /\ InFlight(q) => p = q

(* A save goes for the document there is, or for the first one.            *)
SaveAims ==
    ~ overlapped =>
        \A p \in Requests : pc[p] \in SavePcs => target[p] \in Sources \/ Sources = {}

ConfirmsSource == \A p \in Requests : pc[p] \in ConfirmPcs => target[p] \in Sources

(* A confirmation decides on the rows there are.                           *)
ViewIsCurrent ==
    ~ overlapped =>
        \A p \in Requests :
            pc[p] \in {"revalidating", "scanned"} => view[p] = RowsOf(target[p])

AloneInv ==
    /\ TypeOK /\ Alone /\ SaveAims /\ ConfirmsSource /\ ViewIsCurrent
    /\ BatchIsSettled

Starts(p) ==
    \/ \E in \in Saves : SaveFind(p, in)
    \/ \E d \in Docs, in \in Confirms : ConfirmRead(p, d, in)

(* The steps that leave the tables alone.                                  *)
Reads(p) ==
    \/ SaveSource(p) \/ ConfirmReview(p) \/ ConfirmScan(p) \/ Abort(p)
    \/ \E s \in Slots : SaveRow(p, s) \/ Revalidate(p, s)

LEMMA StepIsOne ==
    ASSUME [Next]_vars
    PROVE  \/ UNCHANGED vars
           \/ \E p \in Requests : Starts(p) \/ Reads(p) \/ SaveCommit(p) \/ ConfirmCommit(p)
BY DEF Next, Starts, Reads

LEMMA StartFrame ==
    ASSUME TypeOK, NEW p \in Requests, Starts(p)
    PROVE  /\ pc[p] = "idle" /\ UNCHANGED <<tables, view>>
           /\ overlapped' = (overlapped \/ \E q \in Requests : InFlight(q))
           /\ pc'[p] \in {"sourcing", "confirming"}
           /\ \A q \in Requests : q # p => pc'[q] = pc[q] /\ target'[q] = target[q]
           /\ pc'[p] = "sourcing" =>
                 target'[p] \in Sources \/ (Sources = {} /\ target'[p] = NoDoc)
           /\ pc'[p] = "confirming" => target'[p] \in Sources
<1>1. ASSUME NEW in \in Saves, SaveFind(p, in)
      PROVE  /\ pc[p] = "idle" /\ UNCHANGED <<tables, view>>
             /\ overlapped' = (overlapped \/ \E q \in Requests : InFlight(q))
             /\ pc'[p] = "sourcing"
             /\ \A q \in Requests : q # p => pc'[q] = pc[q] /\ target'[q] = target[q]
             /\ target'[p] \in Sources \/ (Sources = {} /\ target'[p] = NoDoc)
    BY <1>1 DEF SaveFind, TypeOK, GoTo, Oldest
<1>2. ASSUME NEW d \in Docs, NEW in \in Confirms, ConfirmRead(p, d, in)
      PROVE  /\ pc[p] = "idle" /\ UNCHANGED <<tables, view>>
             /\ overlapped' = (overlapped \/ \E q \in Requests : InFlight(q))
             /\ pc'[p] = "confirming" /\ target'[p] \in Sources
             /\ \A q \in Requests : q # p => pc'[q] = pc[q] /\ target'[q] = target[q]
    BY <1>2 DEF ConfirmRead, TypeOK, GoTo
<1> QED
    BY <1>1, <1>2 DEF Starts

(* A request in flight goes on, or ends; only SaveSource gives it another  *)
(* document, if it has none.                                               *)
LEMMA ReadFrame ==
    ASSUME TypeOK, NEW p \in Requests, Reads(p)
    PROVE  /\ InFlight(p) /\ UNCHANGED <<tables, overlapped>>
           /\ \A q \in Requests : q # p =>
                 pc'[q] = pc[q] /\ target'[q] = target[q] /\ view'[q] = view[q]
           /\ pc'[p] \in SavePcs =>
                 pc[p] \in SavePcs /\ (target'[p] = target[p] \/ target[p] = NoDoc)
           /\ pc'[p] \in ConfirmPcs => pc[p] \in ConfirmPcs /\ target'[p] = target[p]
           /\ pc'[p] \in {"revalidating", "scanned"} =>
                 \/ pc[p] \in {"revalidating", "scanned"} /\ view'[p] = view[p]
                 \/ view'[p] = RowsOf(target[p])
<1> USE DEF TypeOK, GoTo, End, InFlight, SavePcs, ConfirmPcs
<1>1. ASSUME SaveSource(p)
      PROVE  /\ pc[p] = "sourcing" /\ pc'[p] = "staging" /\ UNCHANGED <<tables, overlapped, view>>
             /\ target'[p] = target[p] \/ target[p] = NoDoc
             /\ \A q \in Requests : q # p => pc'[q] = pc[q] /\ target'[q] = target[q]
    BY <1>1 DEF SaveSource
<1>2. ASSUME ConfirmReview(p)
      PROVE  /\ pc[p] = "confirming" /\ pc'[p] = "revalidating"
             /\ UNCHANGED <<tables, overlapped, target>>
             /\ view'[p] = RowsOf(target[p])
             /\ \A q \in Requests : q # p => pc'[q] = pc[q] /\ view'[q] = view[q]
    BY <1>2 DEF ConfirmReview
<1>3. ASSUME ConfirmScan(p)
      PROVE  /\ pc[p] = "revalidating" /\ pc'[p] = "scanned"
             /\ UNCHANGED <<tables, overlapped, target, view>>
             /\ \A q \in Requests : q # p => pc'[q] = pc[q]
    BY <1>3 DEF ConfirmScan
<1>4. ASSUME Abort(p)
      PROVE  /\ InFlight(p) /\ pc'[p] = "done" /\ UNCHANGED <<tables, overlapped, target, view>>
             /\ \A q \in Requests : q # p => pc'[q] = pc[q]
    BY <1>4 DEF Abort
<1>5. ASSUME NEW s \in Slots, SaveRow(p, s) \/ Revalidate(p, s)
      PROVE  InFlight(p) /\ UNCHANGED <<pc, tables, overlapped, target, view>>
    BY <1>5 DEF SaveRow, Revalidate
<1> HIDE DEF TypeOK, GoTo, End, InFlight
<1> QED
    BY <1>1, <1>2, <1>3, <1>4, <1>5 DEF Reads, InFlight

LEMMA SaveCommitFrame ==
    ASSUME TypeOK, NEW p \in Requests, SaveCommit(p)
    PROVE  /\ pc[p] = "staging" /\ pc'[p] = "done" /\ UNCHANGED <<overlapped, target, view>>
           /\ target[p] \in Docs
           /\ status'[target[p]] \in {"REVIEW_REQUIRED", "PROCESSED"}
           /\ \A d \in Docs : d # target[p] => status'[d] = status[d]
           /\ \A q \in Requests : q # p => pc'[q] = pc[q]
           /\ \A s \in Slots : staged'[s] = staged[s] \/ staged'[s].doc = target[p]
<1>1. target[p] \in Docs
    BY DEF SaveCommit, TypeOK
<1> QED
    BY <1>1 DEF SaveCommit, TypeOK, End, GoTo

LEMMA ConfirmCommitFrame ==
    ASSUME TypeOK, NEW p \in Requests, ConfirmCommit(p)
    PROVE  /\ pc[p] = "scanned" /\ pc'[p] = "done" /\ UNCHANGED <<overlapped, target, view>>
           /\ target[p] \in Docs
           /\ status'[target[p]] = IF Remaining(p) THEN "REVIEW_REQUIRED" ELSE "IMPORTED"
           /\ \A d \in Docs : d # target[p] => status'[d] = status[d]
           /\ \A q \in Requests : q # p => pc'[q] = pc[q]
           /\ staged' = [s \in Slots |->
                 IF s \in held[p] THEN Revalidated(p, staged[s], s) ELSE staged[s]]
<1>1. target[p] \in Docs
    BY DEF ConfirmCommit, TypeOK, ConfirmPcs
<1> QED
    BY <1>1 DEF ConfirmCommit, TypeOK, End, GoTo

LEMMA SourcesGrow ==
    ASSUME TypeOK, ConfirmsSource, [Next]_vars
    PROVE  /\ Sources \subseteq Sources'
           /\ \A d \in Sources' : d \in Sources \/ \E p \in Requests : SaveCommit(p) /\ d = target[p]
<1>1. ASSUME NEW p \in Requests, SaveCommit(p)
      PROVE  Sources \subseteq Sources' /\ \A d \in Sources' : d \in Sources \/ d = target[p]
    BY <1>1, SaveCommitFrame DEF Sources
<1>2. ASSUME NEW p \in Requests, ConfirmCommit(p)
      PROVE  Sources' = Sources
    <2>1. target[p] \in Sources
        BY <1>2, ConfirmCommitFrame DEF ConfirmsSource, ConfirmPcs
    <2> QED
        BY <1>2, <2>1, ConfirmCommitFrame DEF Sources
<1>3. ASSUME NEW p \in Requests, Starts(p) \/ Reads(p)
      PROVE  Sources' = Sources
    BY <1>3, StartFrame, ReadFrame DEF Sources, tables
<1>4. CASE UNCHANGED vars
    BY <1>4 DEF vars, tables, Sources
<1> QED
    BY <1>1, <1>2, <1>3, <1>4, StepIsOne

LEMMA AloneStep == TypeOK /\ Alone /\ [Next]_vars => Alone'
<1> SUFFICES ASSUME TypeOK, Alone, [Next]_vars, ~ overlapped' PROVE Alone'
    BY DEF Alone
<1>1. ASSUME NEW p \in Requests, Starts(p) PROVE Alone'
    BY <1>1, StartFrame DEF Alone, InFlight
<1>2. ASSUME NEW p \in Requests, Reads(p) PROVE Alone'
    BY <1>2, ReadFrame DEF Alone, InFlight
<1>3. ASSUME NEW p \in Requests, SaveCommit(p) PROVE Alone'
    BY <1>3, SaveCommitFrame DEF Alone, InFlight, SavePcs, ConfirmPcs
<1>4. ASSUME NEW p \in Requests, ConfirmCommit(p) PROVE Alone'
    BY <1>4, ConfirmCommitFrame DEF Alone, InFlight, SavePcs, ConfirmPcs
<1>5. CASE UNCHANGED vars
    BY <1>5 DEF vars, Alone, InFlight
<1> QED
    BY <1>1, <1>2, <1>3, <1>4, <1>5, StepIsOne

LEMMA ConfirmsSourceStep == TypeOK /\ ConfirmsSource /\ [Next]_vars => ConfirmsSource'
<1> SUFFICES ASSUME TypeOK, ConfirmsSource, [Next]_vars PROVE ConfirmsSource'
    OBVIOUS
<1>0. Sources \subseteq Sources'
    BY SourcesGrow
<1>1. ASSUME NEW p \in Requests, Starts(p) PROVE ConfirmsSource'
    BY <1>0, <1>1, StartFrame DEF ConfirmsSource, ConfirmPcs
<1>2. ASSUME NEW p \in Requests, Reads(p) PROVE ConfirmsSource'
    BY <1>0, <1>2, ReadFrame DEF ConfirmsSource
<1>3. ASSUME NEW p \in Requests, SaveCommit(p) PROVE ConfirmsSource'
    BY <1>0, <1>3, SaveCommitFrame DEF ConfirmsSource, ConfirmPcs
<1>4. ASSUME NEW p \in Requests, ConfirmCommit(p) PROVE ConfirmsSource'
    BY <1>0, <1>4, ConfirmCommitFrame DEF ConfirmsSource, ConfirmPcs
<1>5. CASE UNCHANGED vars
    BY <1>0, <1>5 DEF vars, ConfirmsSource
<1> QED
    BY <1>1, <1>2, <1>3, <1>4, <1>5, StepIsOne

LEMMA SaveAimsStep == AloneInv /\ [Next]_vars => SaveAims'
<1> SUFFICES ASSUME TypeOK, Alone, SaveAims, ConfirmsSource, [Next]_vars, ~ overlapped'
             PROVE  SaveAims'
    BY DEF AloneInv, SaveAims
<1>1. ASSUME NEW p \in Requests, Starts(p) PROVE SaveAims'
    <2>1. Sources' = Sources /\ ~ overlapped
        BY <1>1, StartFrame DEF Sources, tables
    <2> QED
        BY <1>1, <2>1, StartFrame DEF SaveAims, SavePcs
<1>2. ASSUME NEW p \in Requests, Reads(p) PROVE SaveAims'
    <2>1. Sources' = Sources /\ ~ overlapped /\ NoDoc \notin Sources
        BY <1>2, ReadFrame, StagingAssumption DEF Sources, tables
    <2> QED
        BY <1>2, <2>1, ReadFrame DEF SaveAims
<1>3. ASSUME NEW p \in Requests, SaveCommit(p) PROVE SaveAims'
    <2>1. \A q \in Requests : pc'[q] \notin SavePcs
        BY <1>3, SaveCommitFrame DEF Alone, InFlight, SavePcs
    <2> QED
        BY <2>1 DEF SaveAims
<1>4. ASSUME NEW p \in Requests, ConfirmCommit(p) PROVE SaveAims'
    <2>1. \A q \in Requests : pc'[q] \notin SavePcs
        BY <1>4, ConfirmCommitFrame DEF Alone, InFlight, SavePcs, ConfirmPcs
    <2> QED
        BY <2>1 DEF SaveAims
<1>5. CASE UNCHANGED vars
    BY <1>5 DEF vars, SaveAims, tables, Sources
<1> QED
    BY <1>1, <1>2, <1>3, <1>4, <1>5, StepIsOne

LEMMA ViewStep == AloneInv /\ [Next]_vars => ViewIsCurrent'
<1> SUFFICES ASSUME TypeOK, Alone, ViewIsCurrent, [Next]_vars, ~ overlapped'
             PROVE  ViewIsCurrent'
    BY DEF AloneInv, ViewIsCurrent
<1>0. ASSUME staged' = staged, NEW q \in Requests, target'[q] = target[q]
      PROVE  RowsOf(target[q])' = RowsOf(target[q])
    BY <1>0 DEF RowsOf
<1>1. ASSUME NEW p \in Requests, Starts(p) PROVE ViewIsCurrent'
    <2>1. \A q \in Requests : pc'[q] \in {"revalidating", "scanned"} =>
             pc[q] = pc'[q] /\ target'[q] = target[q]
        BY <1>1, StartFrame
    <2>2. staged' = staged /\ view' = view /\ ~ overlapped
        BY <1>1, StartFrame DEF tables
    <2> QED
        BY <1>0, <2>1, <2>2 DEF ViewIsCurrent
<1>2. ASSUME NEW p \in Requests, Reads(p) PROVE ViewIsCurrent'
    <2>1. staged' = staged /\ ~ overlapped
        BY <1>2, ReadFrame DEF tables
    <2>2. ASSUME NEW q \in Requests, pc'[q] \in {"revalidating", "scanned"}
          PROVE  target'[q] = target[q] /\ view'[q] = RowsOf(target[q])
        BY <1>2, <2>1, <2>2, ReadFrame DEF ViewIsCurrent, ConfirmPcs
    <2> QED
        BY <1>0, <2>1, <2>2 DEF ViewIsCurrent
<1>3. ASSUME NEW p \in Requests, SaveCommit(p) PROVE ViewIsCurrent'
    <2>1. \A q \in Requests : pc'[q] \notin {"revalidating", "scanned"}
        BY <1>3, SaveCommitFrame DEF Alone, InFlight, SavePcs, ConfirmPcs
    <2> QED
        BY <2>1 DEF ViewIsCurrent
<1>4. ASSUME NEW p \in Requests, ConfirmCommit(p) PROVE ViewIsCurrent'
    <2>1. \A q \in Requests : pc'[q] \notin {"revalidating", "scanned"}
        BY <1>4, ConfirmCommitFrame DEF Alone, InFlight, ConfirmPcs
    <2> QED
        BY <2>1 DEF ViewIsCurrent
<1>5. CASE UNCHANGED vars
    BY <1>5 DEF vars, ViewIsCurrent, tables, RowsOf
<1> QED
    BY <1>1, <1>2, <1>3, <1>4, <1>5, StepIsOne

LEMMA OneSourceStep == AloneInv /\ [Next]_vars => OneSourceDocument'
<1> SUFFICES ASSUME TypeOK, Alone, SaveAims, ConfirmsSource, OneSourceDocument, [Next]_vars,
                    ~ overlapped', NEW d \in Sources', NEW e \in Sources'
             PROVE  d = e
    BY DEF AloneInv, BatchIsSettled, OneSourceDocument
<1>1. CASE d \in Sources /\ e \in Sources
    <2>1. ~ overlapped
        BY StepIsOne, StartFrame, ReadFrame, SaveCommitFrame, ConfirmCommitFrame DEF vars
    <2> QED
        BY <1>1, <2>1 DEF OneSourceDocument
<1>2. CASE ~ (d \in Sources /\ e \in Sources)
    <2>1. PICK p \in Requests : SaveCommit(p)
        BY <1>2, SourcesGrow
    <2>2. pc[p] = "staging" /\ ~ overlapped
        BY <2>1, SaveCommitFrame
    <2>3. target[p] \in Sources \/ Sources = {}
        BY <2>2 DEF SaveAims, SavePcs
    <2>4. \A x \in Sources' : x \in Sources \/ x = target[p]
        BY <2>1, SaveCommitFrame DEF Sources
    <2> QED
        BY <2>2, <2>3, <2>4 DEF OneSourceDocument
<1> QED
    BY <1>1, <1>2

(* A confirmation that leaves nothing to review, by the rows it has read,  *)
(* leaves nothing to review if they are the rows there are.                *)
LEMMA ConfirmedRows ==
    ASSUME TypeOK, NEW p \in Requests, ConfirmCommit(p), view[p] = RowsOf(target[p])
    PROVE  /\ RowsOf(target[p])' = Reviewed(p)
           /\ \A d \in Docs : d # target[p] => RowsOf(d)' = RowsOf(d)
<1> DEFINE doc == target[p]
<1>1. /\ held[p] = Matched(p) /\ held[p] \subseteq Slots /\ doc \in Docs
      /\ target' = target
      /\ staged' = [s \in Slots |->
            IF s \in held[p] THEN Revalidated(p, staged[s], s) ELSE staged[s]]
    BY ConfirmCommitFrame DEF TypeOK
<1>2. \A s \in held[p] : view[p][s] # Unstaged
    BY <1>1 DEF Matched
<1>3. \A s \in held[p] : staged[s] # Unstaged /\ staged[s].doc = doc /\ view[p][s] = staged[s]
    BY <1>1, <1>2 DEF RowsOf
<1>4. \A s \in held[p] : staged[s] \in StagedRow /\ input[p][s] \in Contents
    <2>1. input[p] \in [DOMAIN input[p] -> Contents]
        BY ConfirmCommitFrame DEF TypeOK, ConfirmPcs
    <2> QED
        BY <1>1, <1>3, <2>1 DEF TypeOK, Matched
<1>5. \A s \in held[p] : /\ Revalidated(p, staged[s], s) \in StagedRow
                         /\ Revalidated(p, staged[s], s).doc = doc
                         /\ Revalidated(p, staged[s], s) # Unstaged
    BY <1>3, <1>4, StagingAssumption DEF Revalidated, StagedRow
<1> HIDE DEF doc
<1>6. [s \in Slots |-> IF staged'[s] # Unstaged /\ staged'[s].doc = doc
                       THEN staged'[s] ELSE Unstaged] = Reviewed(p)
    <2> SUFFICES ASSUME NEW s \in Slots
                 PROVE  (IF staged'[s] # Unstaged /\ staged'[s].doc = doc
                         THEN staged'[s] ELSE Unstaged) = Reviewed(p)[s]
        BY DEF Reviewed
    <2>1. CASE s \in held[p]
        BY <1>1, <1>3, <1>5, <2>1 DEF Reviewed
    <2>2. CASE s \notin held[p]
        <3>1. staged'[s] = staged[s] /\ Reviewed(p)[s] = view[p][s]
            BY <1>1, <2>2 DEF Reviewed
        <3>2. view[p][s] = IF staged[s] # Unstaged /\ staged[s].doc = doc
                           THEN staged[s] ELSE Unstaged
            BY DEF RowsOf, doc
        <3> QED
            BY <3>1, <3>2
    <2> QED
        BY <2>1, <2>2
<1>7. ASSUME NEW d \in Docs, d # doc PROVE RowsOf(d)' = RowsOf(d)
    BY <1>1, <1>3, <1>5, <1>7 DEF RowsOf
<1> QED
    BY <1>1, <1>6, <1>7 DEF RowsOf, doc

LEMMA NoReviewStep == AloneInv /\ [Next]_vars => ImportedNeedsNoReview'
<1> SUFFICES ASSUME TypeOK, Alone, ViewIsCurrent, ImportedNeedsNoReview, [Next]_vars,
                    ~ overlapped', NEW d \in Docs, status'[d] = "IMPORTED"
             PROVE  NeedsReview(RowsOf(d)') = {}
    BY DEF AloneInv, BatchIsSettled, ImportedNeedsNoReview, Sources, NeedsReview
<1>0. ~ overlapped
    BY StepIsOne, StartFrame, ReadFrame, SaveCommitFrame, ConfirmCommitFrame DEF vars
<1>1. ASSUME status[d] = "IMPORTED", RowsOf(d)' = RowsOf(d)
      PROVE  NeedsReview(RowsOf(d)') = {}
    BY <1>0, <1>1 DEF ImportedNeedsNoReview, Sources
<1>2. ASSUME UNCHANGED vars \/ \E p \in Requests : Starts(p) \/ Reads(p)
      PROVE  NeedsReview(RowsOf(d)') = {}
    <2>1. UNCHANGED <<status, staged>>
        BY <1>2, StartFrame, ReadFrame DEF tables, vars
    <2>2. RowsOf(d)' = RowsOf(d) /\ status[d] = "IMPORTED"
        BY <2>1 DEF RowsOf
    <2> QED
        BY <1>1, <2>2
<1>3. ASSUME NEW p \in Requests, SaveCommit(p) PROVE NeedsReview(RowsOf(d)') = {}
    <2>1. d # target[p] /\ status[d] = "IMPORTED"
        BY <1>3, SaveCommitFrame
    <2>2. NeedsReview(RowsOf(d)) = {}
        BY <1>0, <2>1 DEF ImportedNeedsNoReview, Sources
    <2>3. \A s \in Slots : RowsOf(d)'[s] = RowsOf(d)[s] \/ RowsOf(d)'[s] = Unstaged
        BY <1>3, <2>1, SaveCommitFrame DEF RowsOf
    <2> QED
        BY <2>2, <2>3 DEF NeedsReview
<1>4. ASSUME NEW p \in Requests, ConfirmCommit(p) PROVE NeedsReview(RowsOf(d)') = {}
    <2>1. view[p] = RowsOf(target[p])
        BY <1>0, <1>4, ConfirmCommitFrame DEF ViewIsCurrent
    <2>2. CASE d # target[p]
        BY <1>1, <1>4, <2>1, <2>2, ConfirmedRows, ConfirmCommitFrame
    <2>3. CASE d = target[p]
        <3>1. ~ Remaining(p)
            BY <1>4, <2>3, ConfirmCommitFrame
        <3>2. target' = target /\ held[p] = Matched(p)
            BY <1>4, ConfirmCommitFrame DEF TypeOK
        <3>3. RowsOf(d)' = Reviewed(p)
            BY <1>4, <2>1, <2>3, <3>2, ConfirmedRows DEF RowsOf
        <3>4. CASE \E s \in Slots : view[p][s] # Unstaged
            BY <3>1, <3>3, <3>4 DEF Remaining
        <3>5. CASE \A s \in Slots : view[p][s] = Unstaged
            <4>1. \A s \in Slots : s \notin held[p]
                BY <3>2, <3>5 DEF Matched
            <4>2. \A s \in Slots : Reviewed(p)[s] = Unstaged
                BY <3>5, <4>1 DEF Reviewed
            <4> QED
                BY <3>3, <4>2 DEF NeedsReview
        <3> QED
            BY <3>4, <3>5
    <2> QED
        BY <2>2, <2>3
<1> QED
    BY <1>2, <1>3, <1>4, StepIsOne

(* One request at a time, a batch keeps one source document however often  *)
(* it is saved and whatever fails, and a document that confirmImport has   *)
(* marked IMPORTED has no staged row left to review.                       *)
THEOREM OneBatchIsSettled == Spec => []BatchIsSettled
<1>1. Init => AloneInv
    BY TypeInit DEF Init, AloneInv, Alone, SaveAims, ConfirmsSource, ViewIsCurrent, BatchIsSettled,
                    OneSourceDocument, ImportedNeedsNoReview, Sources, InFlight, SavePcs, ConfirmPcs
<1>2. AloneInv /\ [Next]_vars => AloneInv'
    BY TypeStep, AloneStep, SaveAimsStep, ConfirmsSourceStep, ViewStep, OneSourceStep, NoReviewStep
       DEF AloneInv, BatchIsSettled
<1>3. AloneInv => BatchIsSettled
    BY DEF AloneInv
<1> QED
    BY <1>1, <1>2, <1>3, PTL DEF Spec

-----------------------------------------------------------------------------
(* Why a workbook of one sheet is imported in full.                        *)

OneSheet == \A a, b \in Sheets : a = b

(* The records a confirmation has read are still there, and they are those *)
(* of the document it confirms.                                            *)
ScanIsOfDocument ==
    \A p \in Requests : pc[p] = "scanned" =>
        \A r \in scan[p] : r \in records /\ r.doc = target[p]

ReadInv == TypeOK /\ RecordsNameRows /\ ScanIsOfDocument

LEMMA ReadStep == TypeOK /\ ScanIsOfDocument /\ [Next]_vars => ScanIsOfDocument'
<1> SUFFICES ASSUME TypeOK, ScanIsOfDocument, [Next]_vars PROVE ScanIsOfDocument'
    OBVIOUS
<1>1. ASSUME NEW p \in Requests, ConfirmCommit(p) PROVE ScanIsOfDocument'
    <2>1. records \subseteq records' /\ scan' = scan /\ target' = target
        BY <1>1 DEF ConfirmCommit
    <2>2. \A q \in Requests : pc'[q] = "scanned" => pc[q] = "scanned"
        BY <1>1 DEF ConfirmCommit, End, GoTo, TypeOK
    <2> QED
        BY <2>1, <2>2 DEF ScanIsOfDocument
<1>2. ASSUME NEW p \in Requests, ConfirmScan(p) PROVE ScanIsOfDocument'
    <2>1. records' = records /\ target' = target
        BY <1>2 DEF ConfirmScan, tables
    <2>2. scan'[p] = RecordsOf(target[p])
        BY <1>2 DEF ConfirmScan, TypeOK
    <2>3. \A q \in Requests : q # p => pc'[q] = pc[q] /\ scan'[q] = scan[q]
        BY <1>2 DEF ConfirmScan, GoTo, TypeOK
    <2> QED
        BY <2>1, <2>2, <2>3 DEF ScanIsOfDocument, RecordsOf
<1>3. CASE /\ records' = records
           /\ scan' = scan
           /\ \A q \in Requests : pc'[q] = "scanned" =>
                 pc[q] = "scanned" /\ held'[q] = held[q] /\ target'[q] = target[q]
    BY <1>3 DEF ScanIsOfDocument
<1> QED
    BY <1>1, <1>2, <1>3, StepKinds

(* In one sheet a row number is a row.                                     *)
LEMMA NumberIsRow ==
    ASSUME OneSheet, NEW s \in Slots, NEW t \in Slots, s[2] = t[2]
    PROVE  s = t
<1>1. /\ s = <<s[1], s[2]>> /\ t = <<t[1], t[2]>>
      /\ s[1] \in Sheets /\ t[1] \in Sheets
    BY DEF Slots
<1> QED
    BY <1>1 DEF OneSheet

(* What covers a numbered row is a record of that number: a record that    *)
(* names its row has no content key.                                       *)
LEMMA CoveredByNumber ==
    ASSUME RecordsNameRows, NEW R, R \subseteq records, records \subseteq Record,
           NEW s \in Slots, NEW c, Covered(Act(s, c), {StoredKey(r.of) : r \in R})
    PROVE  \E r \in R : r.slot[2] = s[2]
<1>1. s[2] \in SourceRows /\ s[2] # NoRow
    BY NoRowAssumption DEF Slots
<1>2. \A r \in R : StoredKey(r.of) = <<"row", r.slot[2]>>
    <2> TAKE r \in R
    <2>1. r.of.row = r.slot[2] /\ r.slot[2] \in SourceRows
        BY DEF RecordsNameRows, Record, Slots
    <2> QED
        BY <2>1, NoRowAssumption DEF StoredKey
<1>3. /\ RecordKey(Act(s, c)) = <<"row", s[2]>>
      /\ FallbackKey(Act(s, c)) = <<"content", c>>
    BY <1>1 DEF RecordKey, FallbackKey, WithoutRow, Act
<1>4. PICK r \in R : \/ <<"row", r.slot[2]>> = <<"row", s[2]>>
                     \/ <<"row", r.slot[2]>> = <<"content", c>>
    BY <1>2, <1>3 DEF Covered
<1> QED
    BY <1>4

LEMMA EligibleRowHasRecord ==
    ASSUME OneSheet, ReadInv, NEW p \in Requests, ConfirmCommit(p),
           NEW s \in held[p], Eligible(Reviewed(p)[s])
    PROVE  \E r \in records' : r.doc = target[p] /\ r.slot = s
<1> USE DEF ReadInv
<1> DEFINE keys == {StoredKey(r.of) : r \in scan[p]}
<1>1. /\ pc[p] = "scanned"
      /\ records' = records \cup Imported(p)
      /\ s \in Slots
      /\ held[p] \subseteq Slots
      /\ records \subseteq Record
    BY DEF ConfirmCommit, TypeOK
<1>2. CASE Covered(Act(s, input[p][s]), keys)
    <2>1. scan[p] \subseteq records
        BY <1>1 DEF ScanIsOfDocument
    <2>2. PICK r \in scan[p] : r.slot[2] = s[2]
        BY <1>1, <1>2, <2>1, CoveredByNumber
    <2>3. r \in records /\ r.doc = target[p] /\ r.slot \in Slots
        BY <1>1, <2>1, <2>2 DEF ScanIsOfDocument, Record
    <2>4. r.slot = s
        BY <1>1, <2>2, <2>3, NumberIsRow
    <2> QED
        BY <1>1, <2>3, <2>4
<1>3. CASE ~ Covered(Act(s, input[p][s]), keys)
    <2>1. \A t \in held[p] : t[2] = s[2] => ~ Before(t, s)
        <3> SUFFICES ASSUME NEW t \in held[p], t[2] = s[2] PROVE ~ Before(t, s)
            OBVIOUS
        <3>1. t = s
            BY <1>1, NumberIsRow
        <3>2. Listed[s] \in Nat
            BY <1>1, StagingAssumption DEF Orders
        <3> QED
            BY <3>1, <3>2 DEF Before
    <2>2. s \in ImportedSlots(p)
        BY <1>3, <2>1 DEF ImportedSlots
    <2>3. [doc |-> target[p], by |-> p, slot |-> s, fromStaging |-> view[p][s] # Unstaged,
           of |-> Act(s, input[p][s])] \in Imported(p)
        BY <2>2 DEF Imported
    <2> QED
        BY <1>1, <2>3
<1> QED
    BY <1>2, <1>3

(* In a workbook of one sheet, whatever runs at the same time, each row a  *)
(* confirmation has revalidated and found eligible has a record of its own *)
(* when it commits.  The hypothesis is needed: the record key of           *)
(* confirmImport knows the row's number and not its sheet, and with two    *)
(* sheets TLC finds the row that is passed over.                           *)
THEOREM OneSheetIsImportedInFull == OneSheet => (Spec => EligibleRowsAreImported)
<1> SUFFICES ASSUME OneSheet PROVE Spec => EligibleRowsAreImported
    OBVIOUS
<1> DEFINE Committed ==
        \A p \in Requests :
            ConfirmCommit(p) =>
                \A s \in held[p] :
                    Eligible(Reviewed(p)[s]) =>
                        \E r \in records' : r.doc = target[p] /\ r.slot = s
<1>1. Init => ReadInv
    BY TypeInit DEF Init, ReadInv, RecordsNameRows, ScanIsOfDocument
<1>2. ReadInv /\ [Next]_vars => ReadInv'
    BY TypeStep, NamesStep, ReadStep DEF ReadInv
<1>3. ReadInv /\ [Next]_vars => [Committed]_vars
    BY EligibleRowHasRecord
<1>4. EligibleRowsAreImported <=> [][Committed]_vars
    BY DEF EligibleRowsAreImported
<1> HIDE DEF Committed
<1> QED
    BY <1>1, <1>2, <1>3, <1>4, PTL DEF Spec
=============================================================================
