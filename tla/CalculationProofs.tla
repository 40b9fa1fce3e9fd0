-------------------------- MODULE CalculationProofs --------------------------
(* Theorems about ActivityCalculation, for every set of records, library   *)
(* and overlap of edits, calculations and deletions.                       *)
EXTENDS ActivityCalculation, TLAPS

(* A result that is about to be created has an input.                      *)
TypeInv ==
    /\ TypeOK
    /\ \A p \in Requests : pc[p] = "replacing" => read[p].input # NoInput

(* Evaluate gives a result of the input, or nothing.                       *)
LEMMA EvaluateType ==
    ASSUME NEW i \in Inputs, library \in Libraries
    PROVE  /\ Evaluate(i) \in Snapshots
           /\ Evaluate(i) # Nothing => Evaluate(i).input = i
BY CalculationAssumption DEF Evaluate, Snapshots, Result

(* A calculation leaves a record calculated, or without a factor.          *)
LEMMA StatusType ==
    \A result : StatusOf(result) \in Status \ {"none", "PENDING_RECALCULATION", "deleted"}
BY DEF StatusOf, Status

(* Metric results stay metric results when their record goes.              *)
LEMMA UnlinkedType ==
    ASSUME NEW X, X \subseteq Metric, NEW R
    PROVE  Unlinked(X, R) \subseteq Metric
<1> SUFFICES ASSUME NEW y \in Unlinked(X, R) PROVE y \in Metric
    OBVIOUS
<1>1. PICK x \in X : y = IF x.of \in R THEN [x EXCEPT !.of = NoRecord] ELSE x
    BY Zenon DEF Unlinked
<1>2. x \in Metric
    OBVIOUS
<1> QED
    BY <1>1, <1>2 DEF Metric

(* What is read of a record is a version with its result.                  *)
LEMMA RowType ==
    ASSUME TypeOK, NEW r \in Records
    PROVE  Row(r) \in [input : Inputs \cup {NoInput}, version : Nat, snapshot : Snapshots]
BY DEF TypeOK, Row

(* recalculate keeps the types and counts the version of its record up.    *)
LEMMA RecalculatedType ==
    ASSUME TypeOK, NEW r \in Records, NEW result \in Snapshots,
           NEW row \in [input : Inputs \cup {NoInput}, version : Nat, snapshot : Snapshots],
           Recalculated(r, row, result)
    PROVE  /\ status' \in [Records -> Status]
           /\ version' \in [Records -> Nat]
           /\ snapshot' \in [Records -> Snapshots]
           /\ history' \in [Records -> Seq(HistoryEntry)]
           /\ version'[r] > 0
           /\ \A s \in Records \ {r} : version'[s] = version[s]
<1>1. [version |-> row.version + 1, old |-> row.snapshot, new |-> result] \in HistoryEntry
    BY DEF HistoryEntry
<1>2. history[r] \in Seq(HistoryEntry)
    BY DEF TypeOK
<1>3. Append(history[r], [version |-> row.version + 1, old |-> row.snapshot, new |-> result])
          \in Seq(HistoryEntry)
    BY <1>1, <1>2
<1> QED
    BY <1>3, StatusType DEF TypeOK, Recalculated

(* A request that ends keeps the types.                                    *)
LEMMA EndType ==
    ASSUME TypeInv, NEW p \in Requests, End(p)
    PROVE  /\ pc' \in [Requests -> {"idle", "done", "moving", "calculating", "evaluated",
                                    "writing", "replacing", "clearing"}]
           /\ todo' \in [Requests -> SUBSET [of : Records, metric : Metrics, input : Inputs]]
           /\ target' \in [Requests -> SUBSET Records]
           /\ read' \in [Requests -> [input : Inputs \cup {NoInput}, version : Nat,
                                      snapshot : Snapshots]]
           /\ fresh' \in [Requests -> Snapshots]
           /\ doomed' \in [Requests -> SUBSET Metric]
           /\ \A q \in Requests : pc'[q] = "replacing" => read'[q].input # NoInput
<1>1. Nothing \in Snapshots
    BY DEF Snapshots
<1> QED
    BY <1>1 DEF TypeInv, TypeOK, End, Unread

(* Initially there is no record, result or request.                        *)
LEMMA TypeInit == Init => TypeInv
<1>1. Nothing \in Snapshots
    BY DEF Snapshots
<1>2. << >> \in Seq(HistoryEntry)
    OBVIOUS
<1> QED
    BY <1>1, <1>2 DEF Init, TypeInv, TypeOK, Unread, Status, Exists

(* Every operation keeps the types.                                        *)
LEMMA TypeStep == TypeInv /\ [Next]_vars => TypeInv'
<1> SUFFICES ASSUME TypeInv, [Next]_vars PROVE TypeInv'
    OBVIOUS
<1> USE CalculationAssumption
<1> USE DEF rowVars, requestVars
<1>1. ASSUME NEW l \in Libraries, EditLibrary(l) PROVE TypeInv'
    BY <1>1 DEF EditLibrary, TypeInv, TypeOK, Exists
<1>2. ASSUME NEW r \in Records, NEW i \in Inputs, Create(r, i) PROVE TypeInv'
    <2>1. Evaluate(i) \in Snapshots
        BY EvaluateType DEF TypeInv, TypeOK
    <2> QED
        BY <1>2, <2>1, StatusType DEF Create, TypeInv, TypeOK, Exists
<1>3. ASSUME NEW p \in Requests, NEW r \in Records, NEW i \in Inputs, Update(p, r, i)
      PROVE  TypeInv'
    <2>1. Evaluate(i) \in Snapshots
        BY EvaluateType DEF TypeInv, TypeOK
    <2>2. Row(r) \in [input : Inputs \cup {NoInput}, version : Nat, snapshot : Snapshots]
        BY RowType DEF TypeInv
    <2>3. /\ status' \in [Records -> Status]
          /\ version' \in [Records -> Nat]
          /\ snapshot' \in [Records -> Snapshots]
          /\ history' \in [Records -> Seq(HistoryEntry)]
          /\ version'[r] > 0
          /\ \A s \in Records \ {r} : version'[s] = version[s]
        BY <1>3, <2>1, <2>2, RecalculatedType DEF Update, TypeInv
    <2>4. End(p)
        BY <1>3 DEF Update
    <2>5. /\ library' = library /\ results' = results /\ displaced' \subseteq Records
          /\ input' = [input EXCEPT ![r] = i]
        BY <1>3 DEF Update, TypeInv, TypeOK
    <2>6. \A s \in Records : input'[s] # NoInput => version'[s] > 0
        BY <2>3, <2>5 DEF TypeInv, TypeOK, Exists
    <2>7. input' \in [Records -> Inputs \cup {NoInput}]
        BY <2>5 DEF TypeInv, TypeOK
    <2>8. /\ library' \in Libraries /\ results' \subseteq Metric /\ displaced' \subseteq Records
        BY <2>5 DEF TypeInv, TypeOK
    <2> QED
        BY <2>3, <2>4, <2>6, <2>7, <2>8, EndType, Zenon DEF TypeInv, TypeOK, Exists
<1>4. ASSUME NEW p \in Requests, NEW R \in SUBSET Records, ProvinceFind(p, R) PROVE TypeInv'
    BY <1>4 DEF ProvinceFind, TypeInv, TypeOK, Exists
<1>5. ASSUME NEW p \in Requests, ProvinceCommit(p) PROVE TypeInv'
    <2>1. /\ input' \in [Records -> Inputs \cup {NoInput}]
          /\ \A r \in Records : input'[r] # NoInput => input[r] # NoInput
        BY <1>5 DEF ProvinceCommit, Moving, Exists, TypeInv, TypeOK
    <2>2. status' \in [Records -> Status]
        BY <1>5 DEF ProvinceCommit, Status, TypeInv, TypeOK
    <2>3. displaced' \subseteq Records
        BY <1>5 DEF ProvinceCommit, Moving, TypeInv, TypeOK
    <2>4. End(p) /\ UNCHANGED <<library, version, snapshot, history, results>>
        BY <1>5 DEF ProvinceCommit
    <2> QED
        BY <2>1, <2>2, <2>3, <2>4, EndType DEF TypeInv, TypeOK, Exists
<1>6. ASSUME NEW p \in Requests, NEW R \in SUBSET Records, NEW M \in SUBSET Metrics,
             CalculateStart(p, R, M)
      PROVE  TypeInv'
    <2>1. {[of |-> r, metric |-> m, input |-> input[r]] : r \in {r \in R : Exists(r)}, m \in M}
              \subseteq [of : Records, metric : Metrics, input : Inputs]
        BY DEF TypeInv, TypeOK, Exists
    <2> QED
        BY <1>6, <2>1 DEF CalculateStart, TypeInv, TypeOK, Exists
<1>7. ASSUME NEW p \in Requests, NEW t \in todo[p], CarbonRead(p, t) PROVE TypeInv'
    <2>1. t.of \in Records /\ input[t.of] \in Inputs
        BY <1>7 DEF CarbonRead, Exists, TypeInv, TypeOK
    <2>2. Evaluate(input[t.of]) \in Snapshots
        BY <2>1, EvaluateType DEF TypeInv, TypeOK
    <2>3. Row(t.of) \in [input : Inputs \cup {NoInput}, version : Nat, snapshot : Snapshots]
        BY <2>1, RowType DEF TypeInv
    <2>4. /\ fresh' \in [Requests -> Snapshots]
          /\ read' \in [Requests -> [input : Inputs \cup {NoInput}, version : Nat,
                                     snapshot : Snapshots]]
        BY <1>7, <2>2, <2>3, Zenon DEF CarbonRead, TypeInv, TypeOK
    <2>5. \A q \in Requests : pc'[q] = "replacing" => pc[q] = "replacing" /\ read'[q] = read[q]
        BY <1>7 DEF CarbonRead, TypeInv, TypeOK
    <2>6. /\ todo' \in [Requests -> SUBSET [of : Records, metric : Metrics, input : Inputs]]
          /\ target' \in [Requests -> SUBSET Records]
          /\ pc' \in [Requests -> {"idle", "done", "moving", "calculating", "evaluated",
                                   "writing", "replacing", "clearing"}]
        BY <1>7, <2>1 DEF CarbonRead, TypeInv, TypeOK
    <2>7. UNCHANGED <<library, rowVars, results, doomed, displaced>>
        BY <1>7 DEF CarbonRead
    <2> QED
        BY <2>4, <2>5, <2>6, <2>7 DEF TypeInv, TypeOK, Exists
<1>8. ASSUME NEW p \in Requests, NEW t \in todo[p], MetricSkip(p, t) PROVE TypeInv'
    BY <1>8 DEF MetricSkip, TypeInv, TypeOK, Exists
<1>9. ASSUME NEW p \in Requests, NEW t \in todo[p], MetricDelete(p, t) PROVE TypeInv'
    <2>1. t.of \in Records /\ t.input \in Inputs
        BY DEF TypeInv, TypeOK
    <2>2. ResultsOf(t.of, t.metric) \subseteq Metric
        BY DEF ResultsOf, TypeInv, TypeOK
    <2>3. /\ read' \in [Requests -> [input : Inputs \cup {NoInput}, version : Nat,
                                     snapshot : Snapshots]]
          /\ \A q \in Requests : pc'[q] = "replacing" => read'[q].input # NoInput
        <3>1. read' = [read EXCEPT ![p] = [read[p] EXCEPT !.input = t.input]]
            BY <1>9 DEF MetricDelete
        <3>2. [read[p] EXCEPT !.input = t.input]
                  \in [input : Inputs \cup {NoInput}, version : Nat, snapshot : Snapshots]
            <4>1. read[p] \in [input : Inputs \cup {NoInput}, version : Nat, snapshot : Snapshots]
                BY DEF TypeInv, TypeOK
            <4> QED
                BY <2>1, <4>1
        <3>3. [read[p] EXCEPT !.input = t.input].input = t.input
            BY DEF TypeInv, TypeOK
        <3>4. \A q \in Requests \ {p} : pc'[q] = pc[q]
            BY <1>9 DEF MetricDelete, TypeInv, TypeOK
        <3> QED
            BY <2>1, <3>1, <3>2, <3>3, <3>4 DEF TypeInv, TypeOK
    <2>4. results' \subseteq Metric /\ doomed' \in [Requests -> SUBSET Metric]
        BY <1>9, <2>2 DEF MetricDelete, TypeInv, TypeOK
    <2>5. /\ todo' \in [Requests -> SUBSET [of : Records, metric : Metrics, input : Inputs]]
          /\ target' \in [Requests -> SUBSET Records]
          /\ pc' \in [Requests -> {"idle", "done", "moving", "calculating", "evaluated",
                                   "writing", "replacing", "clearing"}]
        BY <1>9, <2>1 DEF MetricDelete, TypeInv, TypeOK
    <2>6. UNCHANGED <<library, rowVars, fresh, displaced>>
        BY <1>9 DEF MetricDelete
    <2> QED
        BY <2>3, <2>4, <2>5, <2>6 DEF TypeInv, TypeOK, Exists
<1>10. ASSUME NEW p \in Requests, NEW r \in Records, CarbonWrite(p, r) PROVE TypeInv'
    <2>1. Outdated(p, r) \subseteq Metric
        BY DEF Outdated, ResultsOf, TypeInv, TypeOK
    <2> QED
        BY <1>10, <2>1 DEF CarbonWrite, TypeInv, TypeOK, Exists
<1>11. ASSUME NEW p \in Requests, NEW r \in Records, CarbonCommit(p, r) PROVE TypeInv'
    <2>1. /\ fresh[p] \in Snapshots
          /\ read[p] \in [input : Inputs \cup {NoInput}, version : Nat, snapshot : Snapshots]
        BY DEF TypeInv, TypeOK
    <2>2. /\ status' \in [Records -> Status]
          /\ version' \in [Records -> Nat]
          /\ snapshot' \in [Records -> Snapshots]
          /\ history' \in [Records -> Seq(HistoryEntry)]
          /\ version'[r] > 0
          /\ \A s \in Records \ {r} : version'[s] = version[s]
        BY <1>11, <2>1, RecalculatedType DEF CarbonCommit, TypeInv
    <2>3. results' \subseteq Metric
        <3>1. fresh[p] # Nothing =>
                  [of |-> r, metric |-> "CARBON_EMISSION", by |-> p, input |-> fresh[p].input]
                      \in Metric
            BY <2>1 DEF Snapshots, Result, Metric, Metrics
        <3> QED
            BY <1>11, <3>1 DEF CarbonCommit, TypeInv, TypeOK
    <2>4. displaced' \subseteq Records
        BY <1>11 DEF CarbonCommit, TypeInv, TypeOK
    <2>5. Unread \in [input : Inputs \cup {NoInput}, version : Nat, snapshot : Snapshots]
          /\ Nothing \in Snapshots
        BY DEF Unread, Snapshots
    <2>6. /\ pc' = [pc EXCEPT ![p] = "calculating"]
          /\ target' = [target EXCEPT ![p] = {}]
          /\ read' = [read EXCEPT ![p] = Unread]
          /\ fresh' = [fresh EXCEPT ![p] = Nothing]
          /\ UNCHANGED <<library, input, todo, doomed>>
        BY <1>11 DEF CarbonCommit
    <2>7. \A s \in Records : input'[s] # NoInput => version'[s] > 0
        BY <2>2, <2>6 DEF TypeInv, TypeOK, Exists
    <2>8. /\ pc' \in [Requests -> {"idle", "done", "moving", "calculating", "evaluated",
                                   "writing", "replacing", "clearing"}]
          /\ target' \in [Requests -> SUBSET Records]
          /\ fresh' \in [Requests -> Snapshots]
        BY <2>5, <2>6 DEF TypeInv, TypeOK
    <2>9. /\ read' \in [Requests -> [input : Inputs \cup {NoInput}, version : Nat,
                                     snapshot : Snapshots]]
          /\ \A q \in Requests : pc'[q] = "replacing" => read'[q].input # NoInput
        BY <2>5, <2>6 DEF TypeInv, TypeOK
    <2>10. UNCHANGED library
        BY <1>11 DEF CarbonCommit
    <2> QED
        BY <2>2, <2>3, <2>4, <2>6, <2>7, <2>8, <2>9, <2>10 DEF TypeInv, TypeOK, Exists
<1>12. ASSUME NEW p \in Requests, NEW r \in Records, MetricCreate(p, r) PROVE TypeInv'
    <2>1. [of |-> r, metric |-> "ENERGY_CONSUMPTION", by |-> p, input |-> read[p].input] \in Metric
        BY <1>12 DEF MetricCreate, TypeInv, TypeOK, Metric, Metrics
    <2>2. Unread \in [input : Inputs \cup {NoInput}, version : Nat, snapshot : Snapshots]
        BY DEF Unread, Snapshots
    <2> QED
        BY <1>12, <2>1, <2>2 DEF MetricCreate, TypeInv, TypeOK, Exists
<1>13. ASSUME NEW p \in Requests, CalculateEnd(p) PROVE TypeInv'
    BY <1>13, EndType DEF CalculateEnd, TypeInv, TypeOK, Exists
<1>14. ASSUME NEW r \in Records, Remove(r) PROVE TypeInv'
    <2>1. results' \subseteq Metric
        BY <1>14, UnlinkedType DEF Remove, TypeInv, TypeOK
    <2> QED
        BY <1>14, <2>1 DEF Remove, Deleted, Status, TypeInv, TypeOK, Exists
<1>15. ASSUME NEW p \in Requests, NEW S \in Scopes, ClearScan(p, S) PROVE TypeInv'
    BY <1>15 DEF ClearScan, TypeInv, TypeOK, Exists
<1>16. ASSUME NEW p \in Requests, ClearCommit(p) PROVE TypeInv'
    <2>1. results' \subseteq Metric
        BY <1>16, UnlinkedType DEF ClearCommit, TypeInv, TypeOK
    <2> QED
        BY <1>16, <2>1, EndType DEF ClearCommit, Deleted, Status, TypeInv, TypeOK, Exists
<1>17. ASSUME NEW p \in Requests, Abort(p) PROVE TypeInv'
    BY <1>17, EndType DEF Abort, TypeInv, TypeOK, Exists
<1>18. CASE UNCHANGED vars
    BY <1>18 DEF vars, TypeInv, TypeOK, Exists
<1>19. ASSUME NEW R \in SUBSET Records, BulkUpdateFacility(R) PROVE TypeInv'
    <2>1. /\ input' \in [Records -> Inputs \cup {NoInput}]
          /\ \A r \in Records : input'[r] # NoInput => input[r] # NoInput
        BY <1>19 DEF BulkUpdateFacility, Exists, TypeInv, TypeOK
    <2>2. /\ displaced' \subseteq Records
          /\ UNCHANGED <<library, status, version, snapshot, history, results, requestVars>>
        BY <1>19 DEF BulkUpdateFacility, TypeInv, TypeOK
    <2> QED
        BY <2>1, <2>2 DEF TypeInv, TypeOK, Exists
<1> QED
    BY <1>1, <1>2, <1>3, <1>4, <1>5, <1>6, <1>7, <1>8, <1>9, <1>10, <1>11, <1>12, <1>13,
       <1>14, <1>15, <1>16, <1>17, <1>18, <1>19 DEF Next, Calculating

(* Every variable keeps its type; a record that exists has been            *)
(* calculated at least once.                                               *)
THEOREM CalculationTypeCorrect == Spec => []TypeOK
<1>1. Spec => []TypeInv
    BY TypeInit, TypeStep, PTL DEF Spec
<1>2. TypeInv => TypeOK
    BY DEF TypeInv
<1> QED
    BY <1>1, <1>2, PTL
-----------------------------------------------------------------------------
(* A record that has not been created is without version and input.        *)
UncreatedInv == \A r \in Records : status[r] = "none" => version[r] = 0 /\ ~ Exists(r)

(* A transaction that has updated a record is alone with it, and it is as  *)
(* it was read.                                                            *)
WriterInv ==
    /\ \A p \in Requests : pc[p] = "writing" =>
          \A r \in target[p] : Exists(r) /\ version[r] = read[p].version
    /\ \A p, q \in Requests, r \in Records :
          (pc[p] = "writing" /\ pc[q] = "writing" /\ r \in target[p] /\ r \in target[q]) => p = q

(* The result of the version that was read is the one that was read.       *)
ReaderInv ==
    \A p \in Requests : pc[p] \in {"evaluated", "writing"} => \A r \in target[p] :
        /\ read[p].version > 0 /\ read[p].version <= version[r]
        /\ read[p].version = version[r] => read[p].snapshot = snapshot[r]

(* A request that has evaluated a record has used the input it has read,   *)
(* which is still the input of the record unless its province has changed. *)
FreshInv ==
    \A p \in Requests : pc[p] \in {"evaluated", "writing"} =>
        /\ fresh[p] # Nothing => fresh[p].input = read[p].input
        /\ \A r \in target[p] \ displaced :
              (read[p].version = version[r] /\ Exists(r)) => read[p].input = input[r]

(* A transaction that writes a carbon result deletes those that are there. *)
CarbonInv ==
    /\ OneCarbonResult
    /\ \A p \in Requests : (pc[p] = "writing" /\ fresh[p] # Nothing) =>
          \A r \in target[p] : ResultsOf(r, "CARBON_EMISSION") \subseteq doomed[p]

(* A metric result that is there, or that somebody has deleted.            *)
Known(x) == x \in results \/ \E q \in Requests : x \in doomed[q]

(* Who has not begun to calculate has created nothing.                     *)
NoneYet ==
    /\ \A p \in Requests : pc[p] = "idle" => doomed[p] = {}
    /\ \A p \in Requests : pc[p] \in {"idle", "moving", "clearing"} =>
          \A x \in Metric : Known(x) => x.by # p

(* A request has a result to create for a record once, ...                 *)
OnceTodo ==
    \A p \in Requests :
        /\ \A t, u \in todo[p] : (t.of = u.of /\ t.metric = u.metric) => t = u
        /\ \A t \in todo[p] :
              (pc[p] = "replacing" /\ t.metric = "ENERGY_CONSUMPTION") => t.of \notin target[p]

(* ... and creates it once.                                                *)
OnceCreated ==
    \A x \in Metric : (Known(x) /\ x.metric = "ENERGY_CONSUMPTION") =>
        /\ \A t \in todo[x.by] : t.metric = "ENERGY_CONSUMPTION" => t.of # x.of
        /\ pc[x.by] = "replacing" => x.of \notin target[x.by]

(* What a calculation has deleted is gone.                                 *)
DeletedIsGone ==
    \A p \in Requests :
        /\ pc[p] \in {"calculating", "evaluated", "writing", "replacing"} =>
              \A x \in doomed[p] \cap results : x.metric # "ENERGY_CONSUMPTION"
        /\ \A x \in doomed[p] : x.of # NoRecord

MetricInv == NoneYet /\ OnceTodo /\ OnceCreated /\ DeletedIsGone /\ DoubleMetricsOnlyFromOverlap

-----------------------------------------------------------------------------
(* No operation gives a version to a record before its creation.           *)
LEMMA UncreatedStep ==
    ASSUME TypeInv, TypeInv', UncreatedInv, [Next]_vars
    PROVE  UncreatedInv'
<1> USE CalculationAssumption DEF rowVars, requestVars
<1>1. ASSUME NEW l \in Libraries, EditLibrary(l) PROVE UncreatedInv'
    BY <1>1 DEF EditLibrary, TypeInv, TypeOK, UncreatedInv, Exists, StatusOf
<1>2. ASSUME NEW r \in Records, NEW i \in Inputs, Create(r, i) PROVE UncreatedInv'
    BY <1>2 DEF Create, TypeInv, TypeOK, UncreatedInv, Exists, StatusOf
<1>3. ASSUME NEW p \in Requests, NEW r \in Records, NEW i \in Inputs, Update(p, r, i)
      PROVE  UncreatedInv'
    BY <1>3 DEF Update, Recalculated, Row, End, TypeInv, TypeOK, UncreatedInv, Exists, StatusOf
<1>4. ASSUME NEW p \in Requests, NEW R \in SUBSET Records, ProvinceFind(p, R) PROVE UncreatedInv'
    BY <1>4 DEF ProvinceFind, TypeInv, TypeOK, UncreatedInv, Exists, StatusOf
<1>5. ASSUME NEW p \in Requests, ProvinceCommit(p) PROVE UncreatedInv'
    BY <1>5 DEF ProvinceCommit, Moving, End, TypeInv, TypeOK, UncreatedInv, Exists, StatusOf
<1>6. ASSUME NEW p \in Requests, NEW R \in SUBSET Records, NEW M \in SUBSET Metrics,
             CalculateStart(p, R, M) PROVE UncreatedInv'
    BY <1>6 DEF CalculateStart, TypeInv, TypeOK, UncreatedInv, Exists, StatusOf
<1>7. ASSUME NEW p \in Requests, NEW t \in todo[p], CarbonRead(p, t) PROVE UncreatedInv'
    BY <1>7 DEF CarbonRead, Row, TypeInv, TypeOK, UncreatedInv, Exists, StatusOf
<1>8. ASSUME NEW p \in Requests, NEW t \in todo[p], MetricSkip(p, t) PROVE UncreatedInv'
    BY <1>8 DEF MetricSkip, TypeInv, TypeOK, UncreatedInv, Exists, StatusOf
<1>9. ASSUME NEW p \in Requests, NEW t \in todo[p], MetricDelete(p, t) PROVE UncreatedInv'
    BY <1>9 DEF MetricDelete, TypeInv, TypeOK, UncreatedInv, Exists, StatusOf
<1>10. ASSUME NEW p \in Requests, NEW r \in Records, CarbonWrite(p, r) PROVE UncreatedInv'
    BY <1>10 DEF CarbonWrite, TypeInv, TypeOK, UncreatedInv, Exists, StatusOf
<1>11. ASSUME NEW p \in Requests, NEW r \in Records, CarbonCommit(p, r) PROVE UncreatedInv'
    BY <1>11 DEF CarbonCommit, Recalculated, TypeInv, TypeOK, UncreatedInv, Exists, StatusOf
<1>12. ASSUME NEW p \in Requests, NEW r \in Records, MetricCreate(p, r) PROVE UncreatedInv'
    BY <1>12 DEF MetricCreate, TypeInv, TypeOK, UncreatedInv, Exists, StatusOf
<1>13. ASSUME NEW p \in Requests, CalculateEnd(p) PROVE UncreatedInv'
    BY <1>13 DEF CalculateEnd, End, TypeInv, TypeOK, UncreatedInv, Exists, StatusOf
<1>14. ASSUME NEW r \in Records, Remove(r) PROVE UncreatedInv'
    BY <1>14 DEF Remove, Deleted, TypeInv, TypeOK, UncreatedInv, Exists, StatusOf
<1>15. ASSUME NEW p \in Requests, NEW S \in Scopes, ClearScan(p, S) PROVE UncreatedInv'
    BY <1>15 DEF ClearScan, TypeInv, TypeOK, UncreatedInv, Exists, StatusOf
<1>16. ASSUME NEW p \in Requests, ClearCommit(p) PROVE UncreatedInv'
    BY <1>16 DEF ClearCommit, Deleted, End, TypeInv, TypeOK, UncreatedInv, Exists, StatusOf
<1>17. ASSUME NEW p \in Requests, Abort(p) PROVE UncreatedInv'
    BY <1>17 DEF Abort, End, TypeInv, TypeOK, UncreatedInv, Exists, StatusOf
<1>18. CASE UNCHANGED vars
    BY <1>18 DEF vars, UncreatedInv, Exists, StatusOf
<1>19. ASSUME NEW R \in SUBSET Records, BulkUpdateFacility(R) PROVE UncreatedInv'
    BY <1>19 DEF BulkUpdateFacility, TypeInv, TypeOK, UncreatedInv, Exists, StatusOf
<1> QED
    BY <1>1, <1>2, <1>3, <1>4, <1>5, <1>6, <1>7, <1>8, <1>9, <1>10, <1>11, <1>12, <1>13,
       <1>14, <1>15, <1>16, <1>17, <1>18, <1>19 DEF Next, Calculating

(* The row lock keeps a writing transaction alone with its record.         *)
LEMMA WriterStep ==
    ASSUME TypeInv, TypeInv', UncreatedInv, WriterInv, [Next]_vars
    PROVE  WriterInv'
<1> USE CalculationAssumption DEF rowVars, requestVars
<1>1. ASSUME NEW l \in Libraries, EditLibrary(l) PROVE WriterInv'
    BY <1>1 DEF EditLibrary, TypeInv, TypeOK, UncreatedInv, WriterInv, Exists, Free
<1>2. ASSUME NEW r \in Records, NEW i \in Inputs, Create(r, i) PROVE WriterInv'
    BY <1>2 DEF Create, TypeInv, TypeOK, UncreatedInv, WriterInv, Exists, Free
<1>3. ASSUME NEW p \in Requests, NEW r \in Records, NEW i \in Inputs, Update(p, r, i)
      PROVE  WriterInv'
    BY <1>3 DEF Update, Recalculated, Row, End, TypeInv, TypeOK, UncreatedInv, WriterInv,
           Exists, Free
<1>4. ASSUME NEW p \in Requests, NEW R \in SUBSET Records, ProvinceFind(p, R) PROVE WriterInv'
    BY <1>4 DEF ProvinceFind, TypeInv, TypeOK, UncreatedInv, WriterInv, Exists, Free
<1>5. ASSUME NEW p \in Requests, ProvinceCommit(p) PROVE WriterInv'
    BY <1>5 DEF ProvinceCommit, Moving, End, TypeInv, TypeOK, UncreatedInv, WriterInv, Exists, Free
<1>6. ASSUME NEW p \in Requests, NEW R \in SUBSET Records, NEW M \in SUBSET Metrics,
             CalculateStart(p, R, M) PROVE WriterInv'
    BY <1>6 DEF CalculateStart, TypeInv, TypeOK, UncreatedInv, WriterInv, Exists, Free
<1>7. ASSUME NEW p \in Requests, NEW t \in todo[p], CarbonRead(p, t) PROVE WriterInv'
    BY <1>7 DEF CarbonRead, Row, TypeInv, TypeOK, UncreatedInv, WriterInv, Exists, Free
<1>8. ASSUME NEW p \in Requests, NEW t \in todo[p], MetricSkip(p, t) PROVE WriterInv'
    BY <1>8 DEF MetricSkip, TypeInv, TypeOK, UncreatedInv, WriterInv, Exists, Free
<1>9. ASSUME NEW p \in Requests, NEW t \in todo[p], MetricDelete(p, t) PROVE WriterInv'
    BY <1>9 DEF MetricDelete, TypeInv, TypeOK, UncreatedInv, WriterInv, Exists, Free
<1>10. ASSUME NEW p \in Requests, NEW r \in Records, CarbonWrite(p, r) PROVE WriterInv'
    BY <1>10 DEF CarbonWrite, TypeInv, TypeOK, UncreatedInv, WriterInv, Exists, Free
<1>11. ASSUME NEW p \in Requests, NEW r \in Records, CarbonCommit(p, r) PROVE WriterInv'
    BY <1>11 DEF CarbonCommit, Recalculated, TypeInv, TypeOK, UncreatedInv, WriterInv, Exists, Free
<1>12. ASSUME NEW p \in Requests, NEW r \in Records, MetricCreate(p, r) PROVE WriterInv'
    BY <1>12 DEF MetricCreate, TypeInv, TypeOK, UncreatedInv, WriterInv, Exists, Free
<1>13. ASSUME NEW p \in Requests, CalculateEnd(p) PROVE WriterInv'
    BY <1>13 DEF CalculateEnd, End, TypeInv, TypeOK, UncreatedInv, WriterInv, Exists, Free
<1>14. ASSUME NEW r \in Records, Remove(r) PROVE WriterInv'
    BY <1>14 DEF Remove, Deleted, TypeInv, TypeOK, UncreatedInv, WriterInv, Exists, Free
<1>15. ASSUME NEW p \in Requests, NEW S \in Scopes, ClearScan(p, S) PROVE WriterInv'
    BY <1>15 DEF ClearScan, TypeInv, TypeOK, UncreatedInv, WriterInv, Exists, Free
<1>16. ASSUME NEW p \in Requests, ClearCommit(p) PROVE WriterInv'
    BY <1>16 DEF ClearCommit, Deleted, End, TypeInv, TypeOK, UncreatedInv, WriterInv, Exists, Free
<1>17. ASSUME NEW p \in Requests, Abort(p) PROVE WriterInv'
    BY <1>17 DEF Abort, End, TypeInv, TypeOK, UncreatedInv, WriterInv, Exists, Free
<1>18. CASE UNCHANGED vars
    BY <1>18 DEF vars, UncreatedInv, WriterInv, Exists, Free
<1>19. ASSUME NEW R \in SUBSET Records, BulkUpdateFacility(R) PROVE WriterInv'
    BY <1>19 DEF BulkUpdateFacility, TypeInv, TypeOK, UncreatedInv, WriterInv, Exists, Free
<1> QED
    BY <1>1, <1>2, <1>3, <1>4, <1>5, <1>6, <1>7, <1>8, <1>9, <1>10, <1>11, <1>12, <1>13,
       <1>14, <1>15, <1>16, <1>17, <1>18, <1>19 DEF Next, Calculating

(* A snapshot is only replaced together with its version.                  *)
LEMMA ReaderStep ==
    ASSUME TypeInv, TypeInv', UncreatedInv, WriterInv, ReaderInv, [Next]_vars
    PROVE  ReaderInv'
<1> USE CalculationAssumption DEF rowVars, requestVars
<1>1. ASSUME NEW l \in Libraries, EditLibrary(l) PROVE ReaderInv'
    BY <1>1 DEF EditLibrary, TypeInv, TypeOK, UncreatedInv, WriterInv, ReaderInv, Exists, Free
<1>2. ASSUME NEW r \in Records, NEW i \in Inputs, Create(r, i) PROVE ReaderInv'
    BY <1>2 DEF Create, TypeInv, TypeOK, UncreatedInv, WriterInv, ReaderInv, Exists, Free
<1>3. ASSUME NEW p \in Requests, NEW r \in Records, NEW i \in Inputs, Update(p, r, i)
      PROVE  ReaderInv'
    BY <1>3 DEF Update, Recalculated, Row, End, TypeInv, TypeOK, UncreatedInv, WriterInv,
           ReaderInv, Exists, Free
<1>4. ASSUME NEW p \in Requests, NEW R \in SUBSET Records, ProvinceFind(p, R) PROVE ReaderInv'
    BY <1>4 DEF ProvinceFind, TypeInv, TypeOK, UncreatedInv, WriterInv, ReaderInv, Exists, Free
<1>5. ASSUME NEW p \in Requests, ProvinceCommit(p) PROVE ReaderInv'
    BY <1>5 DEF ProvinceCommit, Moving, End, TypeInv, TypeOK, UncreatedInv, WriterInv,
           ReaderInv, Exists, Free
<1>6. ASSUME NEW p \in Requests, NEW R \in SUBSET Records, NEW M \in SUBSET Metrics,
             CalculateStart(p, R, M) PROVE ReaderInv'
    BY <1>6 DEF CalculateStart, TypeInv, TypeOK, UncreatedInv, WriterInv, ReaderInv, Exists, Free
<1>7. ASSUME NEW p \in Requests, NEW t \in todo[p], CarbonRead(p, t) PROVE ReaderInv'
    BY <1>7 DEF CarbonRead, Row, TypeInv, TypeOK, UncreatedInv, WriterInv, ReaderInv, Exists, Free
<1>8. ASSUME NEW p \in Requests, NEW t \in todo[p], MetricSkip(p, t) PROVE ReaderInv'
    BY <1>8 DEF MetricSkip, TypeInv, TypeOK, UncreatedInv, WriterInv, ReaderInv, Exists, Free
<1>9. ASSUME NEW p \in Requests, NEW t \in todo[p], MetricDelete(p, t) PROVE ReaderInv'
    BY <1>9 DEF MetricDelete, TypeInv, TypeOK, UncreatedInv, WriterInv, ReaderInv, Exists, Free
<1>10. ASSUME NEW p \in Requests, NEW r \in Records, CarbonWrite(p, r) PROVE ReaderInv'
    BY <1>10 DEF CarbonWrite, TypeInv, TypeOK, UncreatedInv, WriterInv, ReaderInv, Exists, Free
<1>11. ASSUME NEW p \in Requests, NEW r \in Records, CarbonCommit(p, r) PROVE ReaderInv'
    <2>1. version' = [version EXCEPT ![r] = version[r] + 1]
        BY <1>11 DEF CarbonCommit, Recalculated, WriterInv
    <2>2. /\ snapshot' = [snapshot EXCEPT ![r] = fresh[p]]
          /\ pc' = [pc EXCEPT ![p] = "calculating"]
          /\ \A q \in Requests \ {p} : target'[q] = target[q] /\ read'[q] = read[q]
        BY <1>11 DEF CarbonCommit, Recalculated, TypeInv, TypeOK
    <2>3. SUFFICES ASSUME NEW q \in Requests, pc'[q] \in {"evaluated", "writing"}, NEW s \in target'[q]
                   PROVE  /\ read'[q].version > 0 /\ read'[q].version <= version'[s]
                          /\ read'[q].version = version'[s] => read'[q].snapshot = snapshot'[s]
        BY DEF ReaderInv
    <2>4. q # p /\ pc[q] \in {"evaluated", "writing"} /\ s \in target[q] /\ read'[q] = read[q]
        BY <2>2, <2>3 DEF TypeInv, TypeOK
    <2>5. s \in Records /\ read[q].version \in Nat /\ version[s] \in Nat
        BY <2>4 DEF TypeInv, TypeOK
    <2>6. /\ read[q].version > 0 /\ read[q].version <= version[s]
          /\ read[q].version = version[s] => read[q].snapshot = snapshot[s]
        BY <2>4 DEF ReaderInv
    <2> QED
        BY <2>1, <2>2, <2>4, <2>5, <2>6 DEF TypeInv, TypeOK
<1>12. ASSUME NEW p \in Requests, NEW r \in Records, MetricCreate(p, r) PROVE ReaderInv'
    BY <1>12 DEF MetricCreate, TypeInv, TypeOK, UncreatedInv, WriterInv, ReaderInv, Exists, Free
<1>13. ASSUME NEW p \in Requests, CalculateEnd(p) PROVE ReaderInv'
    BY <1>13 DEF CalculateEnd, End, TypeInv, TypeOK, UncreatedInv, WriterInv, ReaderInv,
           Exists, Free
<1>14. ASSUME NEW r \in Records, Remove(r) PROVE ReaderInv'
    BY <1>14 DEF Remove, Deleted, TypeInv, TypeOK, UncreatedInv, WriterInv, ReaderInv, Exists, Free
<1>15. ASSUME NEW p \in Requests, NEW S \in Scopes, ClearScan(p, S) PROVE ReaderInv'
    BY <1>15 DEF ClearScan, TypeInv, TypeOK, UncreatedInv, WriterInv, ReaderInv, Exists, Free
<1>16. ASSUME NEW p \in Requests, ClearCommit(p) PROVE ReaderInv'
    BY <1>16 DEF ClearCommit, Deleted, End, TypeInv, TypeOK, UncreatedInv, WriterInv,
           ReaderInv, Exists, Free
<1>17. ASSUME NEW p \in Requests, Abort(p) PROVE ReaderInv'
    BY <1>17 DEF Abort, End, TypeInv, TypeOK, UncreatedInv, WriterInv, ReaderInv, Exists, Free
<1>18. CASE UNCHANGED vars
    BY <1>18 DEF vars, UncreatedInv, WriterInv, ReaderInv, Exists, Free
<1>19. ASSUME NEW R \in SUBSET Records, BulkUpdateFacility(R) PROVE ReaderInv'
    BY <1>19 DEF BulkUpdateFacility, TypeInv, TypeOK, UncreatedInv, WriterInv,
           ReaderInv, Exists, Free
<1> QED
    BY <1>1, <1>2, <1>3, <1>4, <1>5, <1>6, <1>7, <1>8, <1>9, <1>10, <1>11, <1>12, <1>13,
       <1>14, <1>15, <1>16, <1>17, <1>18, <1>19 DEF Next, Calculating

(* Every step is a step of the ledger, or none: Create registers, Update   *)
(* and CarbonCommit recalculate.                                           *)
LEMMA LedgerStep ==
    ASSUME TypeInv, TypeInv', UncreatedInv, WriterInv, ReaderInv, [Next]_vars
    PROVE  [Ledger!Next]_(Ledger!ledgerVars)
<1> USE CalculationAssumption DEF rowVars, requestVars
<1>1. ASSUME NEW l \in Libraries, EditLibrary(l) PROVE [Ledger!Next]_(Ledger!ledgerVars)
    BY <1>1 DEF EditLibrary, TypeInv, TypeOK, Ledger!ledgerVars
<1>2. ASSUME NEW r \in Records, NEW i \in Inputs, Create(r, i)
      PROVE  [Ledger!Next]_(Ledger!ledgerVars)
    <2>1. Evaluate(i) \in Snapshots
        BY EvaluateType DEF TypeInv, TypeOK
    <2>2. Ledger!Register(r, Evaluate(i))
        BY <1>2 DEF Create, UncreatedInv, Ledger!Register
    <2> QED
        BY <2>1, <2>2 DEF Ledger!Next
<1>3. ASSUME NEW p \in Requests, NEW r \in Records, NEW i \in Inputs, Update(p, r, i)
      PROVE  [Ledger!Next]_(Ledger!ledgerVars)
    <2>1. Evaluate(i) \in Snapshots
        BY EvaluateType DEF TypeInv, TypeOK
    <2>2. /\ version[r] > 0
          /\ Recalculated(r, Row(r), Evaluate(i))
        BY <1>3 DEF Update, TypeInv, TypeOK
    <2>3. version' = [version EXCEPT ![r] = @ + 1] /\ version'[r] = version[r] + 1
        BY <2>2 DEF Recalculated, Row, TypeInv, TypeOK
    <2>4. Ledger!Recalculate(r, Evaluate(i))
        BY <2>2, <2>3 DEF Recalculated, Row, Ledger!Recalculate
    <2> QED
        BY <2>1, <2>4 DEF Ledger!Next
<1>4. ASSUME NEW p \in Requests, NEW R \in SUBSET Records, ProvinceFind(p, R)
      PROVE  [Ledger!Next]_(Ledger!ledgerVars)
    BY <1>4 DEF ProvinceFind, TypeInv, TypeOK, Ledger!ledgerVars
<1>5. ASSUME NEW p \in Requests, ProvinceCommit(p) PROVE [Ledger!Next]_(Ledger!ledgerVars)
    BY <1>5 DEF ProvinceCommit, Moving, End, TypeInv, TypeOK, Ledger!ledgerVars
<1>6. ASSUME NEW p \in Requests, NEW R \in SUBSET Records, NEW M \in SUBSET Metrics,
             CalculateStart(p, R, M) PROVE [Ledger!Next]_(Ledger!ledgerVars)
    BY <1>6 DEF CalculateStart, TypeInv, TypeOK, Ledger!ledgerVars
<1>7. ASSUME NEW p \in Requests, NEW t \in todo[p], CarbonRead(p, t)
      PROVE  [Ledger!Next]_(Ledger!ledgerVars)
    BY <1>7 DEF CarbonRead, Row, TypeInv, TypeOK, Ledger!ledgerVars
<1>8. ASSUME NEW p \in Requests, NEW t \in todo[p], MetricSkip(p, t)
      PROVE  [Ledger!Next]_(Ledger!ledgerVars)
    BY <1>8 DEF MetricSkip, TypeInv, TypeOK, Ledger!ledgerVars
<1>9. ASSUME NEW p \in Requests, NEW t \in todo[p], MetricDelete(p, t)
      PROVE  [Ledger!Next]_(Ledger!ledgerVars)
    BY <1>9 DEF MetricDelete, TypeInv, TypeOK, Ledger!ledgerVars
<1>10. ASSUME NEW p \in Requests, NEW r \in Records, CarbonWrite(p, r)
      PROVE  [Ledger!Next]_(Ledger!ledgerVars)
    BY <1>10 DEF CarbonWrite, TypeInv, TypeOK, Ledger!ledgerVars
<1>11. ASSUME NEW p \in Requests, NEW r \in Records, CarbonCommit(p, r)
      PROVE  [Ledger!Next]_(Ledger!ledgerVars)
    <2>1. fresh[p] \in Snapshots
        BY DEF TypeInv, TypeOK
    <2>2. /\ Exists(r) /\ version[r] > 0
          /\ version[r] = read[p].version /\ read[p].snapshot = snapshot[r]
        BY <1>11 DEF CarbonCommit, WriterInv, ReaderInv, TypeInv, TypeOK
    <2>3. Recalculated(r, read[p], fresh[p])
        BY <1>11 DEF CarbonCommit
    <2>4. version' = [version EXCEPT ![r] = @ + 1] /\ version'[r] = version[r] + 1
        BY <2>2, <2>3 DEF Recalculated, TypeInv, TypeOK
    <2>5. Ledger!Recalculate(r, fresh[p])
        BY <2>2, <2>3, <2>4 DEF Recalculated, Ledger!Recalculate
    <2> QED
        BY <2>1, <2>5 DEF Ledger!Next
<1>12. ASSUME NEW p \in Requests, NEW r \in Records, MetricCreate(p, r)
      PROVE  [Ledger!Next]_(Ledger!ledgerVars)
    BY <1>12 DEF MetricCreate, TypeInv, TypeOK, Ledger!ledgerVars
<1>13. ASSUME NEW p \in Requests, CalculateEnd(p) PROVE [Ledger!Next]_(Ledger!ledgerVars)
    BY <1>13 DEF CalculateEnd, End, TypeInv, TypeOK, Ledger!ledgerVars
<1>14. ASSUME NEW r \in Records, Remove(r) PROVE [Ledger!Next]_(Ledger!ledgerVars)
    BY <1>14 DEF Remove, Deleted, TypeInv, TypeOK, Ledger!ledgerVars
<1>15. ASSUME NEW p \in Requests, NEW S \in Scopes, ClearScan(p, S)
      PROVE  [Ledger!Next]_(Ledger!ledgerVars)
    BY <1>15 DEF ClearScan, TypeInv, TypeOK, Ledger!ledgerVars
<1>16. ASSUME NEW p \in Requests, ClearCommit(p) PROVE [Ledger!Next]_(Ledger!ledgerVars)
    BY <1>16 DEF ClearCommit, Deleted, End, TypeInv, TypeOK, Ledger!ledgerVars
<1>17. ASSUME NEW p \in Requests, Abort(p) PROVE [Ledger!Next]_(Ledger!ledgerVars)
    BY <1>17 DEF Abort, End, TypeInv, TypeOK, Ledger!ledgerVars
<1>18. CASE UNCHANGED vars
    BY <1>18 DEF vars, Ledger!ledgerVars
<1>19. ASSUME NEW R \in SUBSET Records, BulkUpdateFacility(R) PROVE [Ledger!Next]_(Ledger!ledgerVars)
    BY <1>19 DEF BulkUpdateFacility, TypeInv, TypeOK, Ledger!ledgerVars
<1> QED
    BY <1>1, <1>2, <1>3, <1>4, <1>5, <1>6, <1>7, <1>8, <1>9, <1>10, <1>11, <1>12, <1>13,
       <1>14, <1>15, <1>16, <1>17, <1>18, <1>19 DEF Next, Calculating

(* Only a bulk change of place changes the input without a new version.    *)
LEMMA FreshStep ==
    ASSUME TypeInv, TypeInv', UncreatedInv, WriterInv, ReaderInv, FreshInv, [Next]_vars
    PROVE  FreshInv'
<1> USE CalculationAssumption DEF rowVars, requestVars
<1>1. ASSUME NEW l \in Libraries, EditLibrary(l) PROVE FreshInv'
    BY <1>1 DEF EditLibrary, TypeInv, TypeOK, UncreatedInv, WriterInv, ReaderInv, FreshInv,
           Exists, Free
<1>2. ASSUME NEW r \in Records, NEW i \in Inputs, Create(r, i) PROVE FreshInv'
    BY <1>2 DEF Create, TypeInv, TypeOK, UncreatedInv, WriterInv, ReaderInv, FreshInv, Exists, Free
<1>3. ASSUME NEW p \in Requests, NEW r \in Records, NEW i \in Inputs, Update(p, r, i)
      PROVE  FreshInv'
    BY <1>3 DEF Update, Recalculated, Row, End, TypeInv, TypeOK, UncreatedInv, WriterInv,
           ReaderInv, FreshInv, Exists, Free
<1>4. ASSUME NEW p \in Requests, NEW R \in SUBSET Records, ProvinceFind(p, R) PROVE FreshInv'
    BY <1>4 DEF ProvinceFind, TypeInv, TypeOK, UncreatedInv, WriterInv, ReaderInv, FreshInv,
           Exists, Free
<1>5. ASSUME NEW p \in Requests, ProvinceCommit(p) PROVE FreshInv'
    BY <1>5 DEF ProvinceCommit, Moving, End, TypeInv, TypeOK, UncreatedInv, WriterInv,
           ReaderInv, FreshInv, Exists, Free
<1>6. ASSUME NEW p \in Requests, NEW R \in SUBSET Records, NEW M \in SUBSET Metrics,
             CalculateStart(p, R, M) PROVE FreshInv'
    BY <1>6 DEF CalculateStart, TypeInv, TypeOK, UncreatedInv, WriterInv, ReaderInv,
           FreshInv, Exists, Free
<1>7. ASSUME NEW p \in Requests, NEW t \in todo[p], CarbonRead(p, t) PROVE FreshInv'
    <2>1. /\ t.of \in Records /\ input[t.of] \in Inputs
          /\ fresh' = [fresh EXCEPT ![p] = Evaluate(input[t.of])]
          /\ read' = [read EXCEPT ![p] = Row(t.of)]
          /\ target' = [target EXCEPT ![p] = {t.of}]
          /\ \A q \in Requests \ {p} : pc'[q] = pc[q]
          /\ UNCHANGED <<input, version, displaced>>
        BY <1>7 DEF CarbonRead, Exists, TypeInv, TypeOK
    <2>2. Evaluate(input[t.of]) # Nothing => Evaluate(input[t.of]).input = input[t.of]
        BY <2>1, EvaluateType DEF TypeInv, TypeOK
    <2>3. Row(t.of).input = input[t.of]
        BY DEF Row
    <2>4. ASSUME NEW q \in Requests \ {p}, pc'[q] \in {"evaluated", "writing"}
          PROVE  /\ fresh'[q] # Nothing => fresh'[q].input = read'[q].input
                 /\ \A r \in target'[q] \ displaced' :
                       (read'[q].version = version'[r] /\ Exists(r)') => read'[q].input = input'[r]
        BY <2>1, <2>4 DEF FreshInv, Exists, TypeInv, TypeOK
    <2>5. /\ fresh'[p] # Nothing => fresh'[p].input = read'[p].input
          /\ \A r \in target'[p] : read'[p].input = input'[r]
        BY <2>1, <2>2, <2>3 DEF TypeInv, TypeOK
    <2> QED
        BY <2>4, <2>5 DEF FreshInv
<1>8. ASSUME NEW p \in Requests, NEW t \in todo[p], MetricSkip(p, t) PROVE FreshInv'
    BY <1>8 DEF MetricSkip, TypeInv, TypeOK, UncreatedInv, WriterInv, ReaderInv, FreshInv,
           Exists, Free
<1>9. ASSUME NEW p \in Requests, NEW t \in todo[p], MetricDelete(p, t) PROVE FreshInv'
    BY <1>9 DEF MetricDelete, TypeInv, TypeOK, UncreatedInv, WriterInv, ReaderInv, FreshInv,
           Exists, Free
<1>10. ASSUME NEW p \in Requests, NEW r \in Records, CarbonWrite(p, r) PROVE FreshInv'
    BY <1>10 DEF CarbonWrite, TypeInv, TypeOK, UncreatedInv, WriterInv, ReaderInv, FreshInv,
           Exists, Free
<1>11. ASSUME NEW p \in Requests, NEW r \in Records, CarbonCommit(p, r) PROVE FreshInv'
    <2>1. /\ pc[p] = "writing" /\ r \in target[p]
          /\ version' = [version EXCEPT ![r] = read[p].version + 1]
          /\ pc' = [pc EXCEPT ![p] = "calculating"]
          /\ displaced \ {r} \subseteq displaced'
          /\ UNCHANGED input
          /\ \A q \in Requests \ {p} :
                target'[q] = target[q] /\ read'[q] = read[q] /\ fresh'[q] = fresh[q]
        BY <1>11 DEF CarbonCommit, Recalculated, TypeInv, TypeOK
    <2>2. version[r] = read[p].version
        BY <2>1 DEF WriterInv
    <2>3. SUFFICES ASSUME NEW q \in Requests, pc'[q] \in {"evaluated", "writing"}
                   PROVE  /\ fresh'[q] # Nothing => fresh'[q].input = read'[q].input
                          /\ \A s \in target'[q] \ displaced' :
                                (read'[q].version = version'[s] /\ Exists(s)') =>
                                    read'[q].input = input'[s]
        BY DEF FreshInv
    <2>4. q # p /\ pc[q] \in {"evaluated", "writing"}
        BY <2>1, <2>3 DEF TypeInv, TypeOK
    <2>5. r \in target[q] => read[q].version <= version[r]
        BY <2>4 DEF ReaderInv
    <2>6. \A s \in target'[q] \ displaced' : read'[q].version = version'[s] =>
              s # r /\ s \notin displaced /\ version'[s] = version[s]
        BY <2>1, <2>2, <2>4, <2>5 DEF TypeInv, TypeOK
    <2> QED
        BY <2>1, <2>4, <2>6 DEF FreshInv, Exists
<1>12. ASSUME NEW p \in Requests, NEW r \in Records, MetricCreate(p, r) PROVE FreshInv'
    BY <1>12 DEF MetricCreate, TypeInv, TypeOK, UncreatedInv, WriterInv, ReaderInv,
           FreshInv, Exists, Free
<1>13. ASSUME NEW p \in Requests, CalculateEnd(p) PROVE FreshInv'
    BY <1>13 DEF CalculateEnd, End, TypeInv, TypeOK, UncreatedInv, WriterInv, ReaderInv,
           FreshInv, Exists, Free
<1>14. ASSUME NEW r \in Records, Remove(r) PROVE FreshInv'
    BY <1>14 DEF Remove, Deleted, TypeInv, TypeOK, UncreatedInv, WriterInv, ReaderInv,
           FreshInv, Exists, Free
<1>15. ASSUME NEW p \in Requests, NEW S \in Scopes, ClearScan(p, S) PROVE FreshInv'
    BY <1>15 DEF ClearScan, TypeInv, TypeOK, UncreatedInv, WriterInv, ReaderInv, FreshInv,
           Exists, Free
<1>16. ASSUME NEW p \in Requests, ClearCommit(p) PROVE FreshInv'
    BY <1>16 DEF ClearCommit, Deleted, End, TypeInv, TypeOK, UncreatedInv, WriterInv,
           ReaderInv, FreshInv, Exists, Free
<1>17. ASSUME NEW p \in Requests, Abort(p) PROVE FreshInv'
    BY <1>17 DEF Abort, End, TypeInv, TypeOK, UncreatedInv, WriterInv, ReaderInv, FreshInv,
           Exists, Free
<1>18. CASE UNCHANGED vars
    BY <1>18 DEF vars, UncreatedInv, WriterInv, ReaderInv, FreshInv, Exists, Free
<1>19. ASSUME NEW R \in SUBSET Records, BulkUpdateFacility(R) PROVE FreshInv'
    BY <1>19 DEF BulkUpdateFacility, TypeInv, TypeOK, UncreatedInv, WriterInv,
           ReaderInv, FreshInv, Exists, Free
<1> QED
    BY <1>1, <1>2, <1>3, <1>4, <1>5, <1>6, <1>7, <1>8, <1>9, <1>10, <1>11, <1>12, <1>13,
       <1>14, <1>15, <1>16, <1>17, <1>18, <1>19 DEF Next, Calculating

(* What is committed as CALCULATED is of the input that was read.          *)
LEMMA FromInputStep ==
    ASSUME TypeInv, TypeInv', WriterInv, FreshInv, CalculatedFromItsInput, [Next]_vars
    PROVE  CalculatedFromItsInput'
<1> USE CalculationAssumption DEF rowVars, requestVars
<1>1. ASSUME NEW l \in Libraries, EditLibrary(l) PROVE CalculatedFromItsInput'
    BY <1>1 DEF EditLibrary, TypeInv, TypeOK, WriterInv, FreshInv, CalculatedFromItsInput,
           Exists, Free, StatusOf
<1>2. ASSUME NEW r \in Records, NEW i \in Inputs, Create(r, i) PROVE CalculatedFromItsInput'
    <2>1. Evaluate(i) # Nothing => Evaluate(i).input = i
        BY EvaluateType DEF TypeInv, TypeOK
    <2> QED
        BY <1>2, <2>1 DEF Create, StatusOf, CalculatedFromItsInput, TypeInv, TypeOK
<1>3. ASSUME NEW p \in Requests, NEW r \in Records, NEW i \in Inputs, Update(p, r, i)
      PROVE  CalculatedFromItsInput'
    <2>1. Evaluate(i) # Nothing => Evaluate(i).input = i
        BY EvaluateType DEF TypeInv, TypeOK
    <2> QED
        BY <1>3, <2>1 DEF Update, Recalculated, StatusOf, CalculatedFromItsInput, TypeInv, TypeOK
<1>4. ASSUME NEW p \in Requests, NEW R \in SUBSET Records, ProvinceFind(p, R)
      PROVE  CalculatedFromItsInput'
    BY <1>4 DEF ProvinceFind, TypeInv, TypeOK, WriterInv, FreshInv, CalculatedFromItsInput,
           Exists, Free, StatusOf
<1>5. ASSUME NEW p \in Requests, ProvinceCommit(p) PROVE CalculatedFromItsInput'
    BY <1>5 DEF ProvinceCommit, Moving, End, TypeInv, TypeOK, WriterInv, FreshInv,
           CalculatedFromItsInput, Exists, Free, StatusOf
<1>6. ASSUME NEW p \in Requests, NEW R \in SUBSET Records, NEW M \in SUBSET Metrics,
             CalculateStart(p, R, M) PROVE CalculatedFromItsInput'
    BY <1>6 DEF CalculateStart, TypeInv, TypeOK, WriterInv, FreshInv,
           CalculatedFromItsInput, Exists, Free, StatusOf
<1>7. ASSUME NEW p \in Requests, NEW t \in todo[p], CarbonRead(p, t) PROVE CalculatedFromItsInput'
    BY <1>7 DEF CarbonRead, Row, TypeInv, TypeOK, WriterInv, FreshInv,
           CalculatedFromItsInput, Exists, Free, StatusOf
<1>8. ASSUME NEW p \in Requests, NEW t \in todo[p], MetricSkip(p, t) PROVE CalculatedFromItsInput'
    BY <1>8 DEF MetricSkip, TypeInv, TypeOK, WriterInv, FreshInv, CalculatedFromItsInput,
           Exists, Free, StatusOf
<1>9. ASSUME NEW p \in Requests, NEW t \in todo[p], MetricDelete(p, t) PROVE CalculatedFromItsInput'
    BY <1>9 DEF MetricDelete, TypeInv, TypeOK, WriterInv, FreshInv, CalculatedFromItsInput,
           Exists, Free, StatusOf
<1>10. ASSUME NEW p \in Requests, NEW r \in Records, CarbonWrite(p, r) PROVE CalculatedFromItsInput'
    BY <1>10 DEF CarbonWrite, TypeInv, TypeOK, WriterInv, FreshInv, CalculatedFromItsInput,
           Exists, Free, StatusOf
<1>11. ASSUME NEW p \in Requests, NEW r \in Records, CarbonCommit(p, r)
      PROVE  CalculatedFromItsInput'
    <2>1. /\ pc[p] = "writing" /\ r \in target[p]
          /\ status' = [status EXCEPT ![r] = StatusOf(fresh[p])]
          /\ snapshot' = [snapshot EXCEPT ![r] = fresh[p]]
          /\ displaced' = IF input[r] = read[p].input THEN displaced \ {r} ELSE displaced
          /\ UNCHANGED input
        BY <1>11 DEF CarbonCommit, Recalculated
    <2>2. /\ fresh[p] # Nothing => fresh[p].input = read[p].input
          /\ r \notin displaced => read[p].input = input[r]
        BY <2>1 DEF FreshInv, WriterInv
    <2>3. StatusOf(fresh[p]) = "CALCULATED" => fresh[p] # Nothing
        BY DEF StatusOf
    <2> QED
        BY <2>1, <2>2, <2>3 DEF CalculatedFromItsInput, TypeInv, TypeOK
<1>12. ASSUME NEW p \in Requests, NEW r \in Records, MetricCreate(p, r)
      PROVE  CalculatedFromItsInput'
    BY <1>12 DEF MetricCreate, TypeInv, TypeOK, WriterInv, FreshInv, CalculatedFromItsInput,
           Exists, Free, StatusOf
<1>13. ASSUME NEW p \in Requests, CalculateEnd(p) PROVE CalculatedFromItsInput'
    BY <1>13 DEF CalculateEnd, End, TypeInv, TypeOK, WriterInv, FreshInv,
           CalculatedFromItsInput, Exists, Free, StatusOf
<1>14. ASSUME NEW r \in Records, Remove(r) PROVE CalculatedFromItsInput'
    BY <1>14 DEF Remove, Deleted, TypeInv, TypeOK, WriterInv, FreshInv,
           CalculatedFromItsInput, Exists, Free, StatusOf
<1>15. ASSUME NEW p \in Requests, NEW S \in Scopes, ClearScan(p, S) PROVE CalculatedFromItsInput'
    BY <1>15 DEF ClearScan, TypeInv, TypeOK, WriterInv, FreshInv, CalculatedFromItsInput,
           Exists, Free, StatusOf
<1>16. ASSUME NEW p \in Requests, ClearCommit(p) PROVE CalculatedFromItsInput'
    BY <1>16 DEF ClearCommit, Deleted, End, TypeInv, TypeOK, WriterInv, FreshInv,
           CalculatedFromItsInput, Exists, Free, StatusOf
<1>17. ASSUME NEW p \in Requests, Abort(p) PROVE CalculatedFromItsInput'
    BY <1>17 DEF Abort, End, TypeInv, TypeOK, WriterInv, FreshInv, CalculatedFromItsInput,
           Exists, Free, StatusOf
<1>18. CASE UNCHANGED vars
    BY <1>18 DEF vars, WriterInv, FreshInv, CalculatedFromItsInput, Exists, Free, StatusOf
<1>19. ASSUME NEW R \in SUBSET Records, BulkUpdateFacility(R) PROVE CalculatedFromItsInput'
    BY <1>19 DEF BulkUpdateFacility, TypeInv, TypeOK, WriterInv, FreshInv,
           CalculatedFromItsInput, Exists, Free, StatusOf
<1> QED
    BY <1>1, <1>2, <1>3, <1>4, <1>5, <1>6, <1>7, <1>8, <1>9, <1>10, <1>11, <1>12, <1>13,
       <1>14, <1>15, <1>16, <1>17, <1>18, <1>19 DEF Next, Calculating

(* Unlinking adds no result to a record.                                   *)
LEMMA UnlinkedOthers ==
    ASSUME NEW X, X \subseteq Metric, NEW R
    PROVE  \A x \in Unlinked(X, R) : x.of # NoRecord => x \in X
<1> SUFFICES ASSUME NEW y \in Unlinked(X, R), y.of # NoRecord PROVE y \in X
    OBVIOUS
<1>1. PICK x \in X : y = IF x.of \in R THEN [x EXCEPT !.of = NoRecord] ELSE x
    BY Zenon DEF Unlinked
<1>2. x.of \in R => [x EXCEPT !.of = NoRecord].of = NoRecord
    BY DEF Metric
<1> QED
    BY <1>1, <1>2

(* The previous carbon result is deleted under the row lock.               *)
LEMMA CarbonStep ==
    ASSUME TypeInv, TypeInv', WriterInv, CarbonInv, [Next]_vars
    PROVE  CarbonInv'
<1> USE CalculationAssumption DEF rowVars, requestVars
<1>1. ASSUME NEW l \in Libraries, EditLibrary(l) PROVE CarbonInv'
    BY <1>1 DEF EditLibrary, TypeInv, TypeOK, WriterInv, CarbonInv, OneCarbonResult,
           ResultsOf, Exists, Free, Outdated, Unlinked
<1>2. ASSUME NEW r \in Records, NEW i \in Inputs, Create(r, i) PROVE CarbonInv'
    BY <1>2 DEF Create, TypeInv, TypeOK, WriterInv, CarbonInv, OneCarbonResult, ResultsOf,
           Exists, Free, Outdated, Unlinked
<1>3. ASSUME NEW p \in Requests, NEW r \in Records, NEW i \in Inputs, Update(p, r, i)
      PROVE  CarbonInv'
    BY <1>3 DEF Update, Recalculated, Row, End, TypeInv, TypeOK, WriterInv, CarbonInv,
           OneCarbonResult, ResultsOf, Exists, Free, Outdated, Unlinked
<1>4. ASSUME NEW p \in Requests, NEW R \in SUBSET Records, ProvinceFind(p, R) PROVE CarbonInv'
    BY <1>4 DEF ProvinceFind, TypeInv, TypeOK, WriterInv, CarbonInv, OneCarbonResult,
           ResultsOf, Exists, Free, Outdated, Unlinked
<1>5. ASSUME NEW p \in Requests, ProvinceCommit(p) PROVE CarbonInv'
    BY <1>5 DEF ProvinceCommit, Moving, End, TypeInv, TypeOK, WriterInv, CarbonInv,
           OneCarbonResult, ResultsOf, Exists, Free, Outdated, Unlinked
<1>6. ASSUME NEW p \in Requests, NEW R \in SUBSET Records, NEW M \in SUBSET Metrics,
             CalculateStart(p, R, M) PROVE CarbonInv'
    BY <1>6 DEF CalculateStart, TypeInv, TypeOK, WriterInv, CarbonInv, OneCarbonResult,
           ResultsOf, Exists, Free, Outdated, Unlinked
<1>7. ASSUME NEW p \in Requests, NEW t \in todo[p], CarbonRead(p, t) PROVE CarbonInv'
    BY <1>7 DEF CarbonRead, Row, TypeInv, TypeOK, WriterInv, CarbonInv, OneCarbonResult,
           ResultsOf, Exists, Free, Outdated, Unlinked
<1>8. ASSUME NEW p \in Requests, NEW t \in todo[p], MetricSkip(p, t) PROVE CarbonInv'
    BY <1>8 DEF MetricSkip, TypeInv, TypeOK, WriterInv, CarbonInv, OneCarbonResult,
           ResultsOf, Exists, Free, Outdated, Unlinked
<1>9. ASSUME NEW p \in Requests, NEW t \in todo[p], MetricDelete(p, t) PROVE CarbonInv'
    BY <1>9 DEF MetricDelete, TypeInv, TypeOK, WriterInv, CarbonInv, OneCarbonResult,
           ResultsOf, Exists, Free, Outdated, Unlinked
<1>10. ASSUME NEW p \in Requests, NEW r \in Records, CarbonWrite(p, r) PROVE CarbonInv'
    BY <1>10 DEF CarbonWrite, TypeInv, TypeOK, WriterInv, CarbonInv, OneCarbonResult,
           ResultsOf, Exists, Free, Outdated, Unlinked
<1>11. ASSUME NEW p \in Requests, NEW r \in Records, CarbonCommit(p, r) PROVE CarbonInv'
    <2> DEFINE new == [of |-> r, metric |-> "CARBON_EMISSION", by |-> p, input |-> fresh[p].input]
    <2>1. /\ pc[p] = "writing" /\ r \in target[p] /\ doomed' = doomed
          /\ results' = IF fresh[p] = Nothing THEN results
                        ELSE (results \ doomed[p]) \cup {new}
          /\ pc'[p] = "calculating"
          /\ \A q \in Requests \ {p} :
                pc'[q] = pc[q] /\ target'[q] = target[q] /\ fresh'[q] = fresh[q]
        BY <1>11 DEF CarbonCommit, TypeInv, TypeOK
    <2>2. fresh[p] # Nothing => ResultsOf(r, "CARBON_EMISSION") \subseteq doomed[p]
        BY <2>1 DEF CarbonInv
    <2>3. \A x \in results' : x \in results \/ (x = new /\ fresh[p] # Nothing)
        BY <2>1
    <2>4. fresh[p] # Nothing => \A x \in results' :
              x.of = r /\ x.metric = "CARBON_EMISSION" => x = new
        BY <2>1, <2>2 DEF ResultsOf
    <2>5. new.of = r
        OBVIOUS
    <2>6. OneCarbonResult'
        <3> HIDE DEF new
        <3> QED
            BY <2>3, <2>4, <2>5 DEF CarbonInv, OneCarbonResult
    <2>7. ASSUME NEW q \in Requests, pc'[q] = "writing", fresh'[q] # Nothing, NEW s \in target'[q]
          PROVE  ResultsOf(s, "CARBON_EMISSION")' \subseteq doomed'[q]
        <3>1. /\ q # p /\ pc[q] = "writing" /\ fresh[q] # Nothing /\ s \in target[q]
            BY <2>1, <2>7
        <3>2. s # r
            BY <2>1, <3>1 DEF WriterInv
        <3>3. ResultsOf(s, "CARBON_EMISSION")' \subseteq ResultsOf(s, "CARBON_EMISSION")
            BY <2>3, <2>5, <3>2 DEF ResultsOf
        <3> QED
            BY <2>1, <3>1, <3>3 DEF CarbonInv
    <2> QED
        BY <2>6, <2>7 DEF CarbonInv
<1>12. ASSUME NEW p \in Requests, NEW r \in Records, MetricCreate(p, r) PROVE CarbonInv'
    BY <1>12 DEF MetricCreate, TypeInv, TypeOK, WriterInv, CarbonInv, OneCarbonResult,
           ResultsOf, Exists, Free, Outdated, Unlinked
<1>13. ASSUME NEW p \in Requests, CalculateEnd(p) PROVE CarbonInv'
    BY <1>13 DEF CalculateEnd, End, TypeInv, TypeOK, WriterInv, CarbonInv, OneCarbonResult,
           ResultsOf, Exists, Free, Outdated, Unlinked
<1>14. ASSUME NEW r \in Records, Remove(r) PROVE CarbonInv'
    <2>1. results' = Unlinked(results, {r}) /\ UNCHANGED <<pc, target, fresh, doomed>>
        BY <1>14 DEF Remove
    <2>2. \A x \in results' : x.of # NoRecord => x \in results
        BY <2>1, UnlinkedOthers, Zenon DEF TypeInv, TypeOK
    <2>3. OneCarbonResult'
        BY <2>2 DEF CarbonInv, OneCarbonResult
    <2>4. ASSUME NEW q \in Requests, pc'[q] = "writing", fresh'[q] # Nothing, NEW s \in target'[q]
          PROVE  ResultsOf(s, "CARBON_EMISSION")' \subseteq doomed'[q]
        <3>1. s # NoRecord
            BY <2>1, <2>4 DEF TypeInv, TypeOK
        <3>2. ResultsOf(s, "CARBON_EMISSION")' \subseteq ResultsOf(s, "CARBON_EMISSION")
            BY <2>2, <3>1 DEF ResultsOf
        <3> QED
            BY <2>1, <2>4, <3>2 DEF CarbonInv
    <2> QED
        BY <2>3, <2>4 DEF CarbonInv
<1>15. ASSUME NEW p \in Requests, NEW S \in Scopes, ClearScan(p, S) PROVE CarbonInv'
    BY <1>15 DEF ClearScan, TypeInv, TypeOK, WriterInv, CarbonInv, OneCarbonResult,
           ResultsOf, Exists, Free, Outdated, Unlinked
<1>16. ASSUME NEW p \in Requests, ClearCommit(p) PROVE CarbonInv'
    <2>1. results' = Unlinked(results \ doomed[p], target[p]) /\ End(p)
        BY <1>16 DEF ClearCommit
    <2>2. \A x \in results' : x.of # NoRecord => x \in results
        BY <2>1, UnlinkedOthers DEF TypeInv, TypeOK
    <2>3. OneCarbonResult'
        BY <2>2 DEF CarbonInv, OneCarbonResult
    <2>4. ASSUME NEW q \in Requests, pc'[q] = "writing", fresh'[q] # Nothing, NEW s \in target'[q]
          PROVE  ResultsOf(s, "CARBON_EMISSION")' \subseteq doomed'[q]
        <3>1. /\ pc[q] = "writing" /\ fresh[q] # Nothing /\ s \in target[q]
              /\ doomed' = doomed
            BY <2>1, <2>4 DEF End, TypeInv, TypeOK
        <3>2. s # NoRecord
            BY <3>1 DEF TypeInv, TypeOK
        <3>3. ResultsOf(s, "CARBON_EMISSION")' \subseteq ResultsOf(s, "CARBON_EMISSION")
            BY <2>2, <3>2 DEF ResultsOf
        <3> QED
            BY <3>1, <3>3 DEF CarbonInv
    <2> QED
        BY <2>3, <2>4 DEF CarbonInv
<1>17. ASSUME NEW p \in Requests, Abort(p) PROVE CarbonInv'
    BY <1>17 DEF Abort, End, TypeInv, TypeOK, WriterInv, CarbonInv, OneCarbonResult,
           ResultsOf, Exists, Free, Outdated, Unlinked
<1>18. CASE UNCHANGED vars
    BY <1>18 DEF vars, WriterInv, CarbonInv, OneCarbonResult, ResultsOf, Exists, Free,
           Outdated, Unlinked
<1>19. ASSUME NEW R \in SUBSET Records, BulkUpdateFacility(R) PROVE CarbonInv'
    BY <1>19 DEF BulkUpdateFacility, TypeInv, TypeOK, WriterInv, CarbonInv,
           OneCarbonResult, ResultsOf, Exists, Free, Outdated, Unlinked
<1> QED
    BY <1>1, <1>2, <1>3, <1>4, <1>5, <1>6, <1>7, <1>8, <1>9, <1>10, <1>11, <1>12, <1>13,
       <1>14, <1>15, <1>16, <1>17, <1>18, <1>19 DEF Next, Calculating

(* An unlinked result is one that was there, now of no record.             *)
LEMMA UnlinkedOrigin ==
    ASSUME NEW X, X \subseteq Metric, NEW R, NEW y \in Unlinked(X, R)
    PROVE  /\ y.of # NoRecord => y \in X
           /\ \E x \in X : x.by = y.by
<1>1. PICK x \in X : y = IF x.of \in R THEN [x EXCEPT !.of = NoRecord] ELSE x
    BY Zenon DEF Unlinked
<1>2. [x EXCEPT !.of = NoRecord].of = NoRecord /\ [x EXCEPT !.of = NoRecord].by = x.by
    BY DEF Metric
<1> QED
    BY <1>1, <1>2

(* Deletion of records makes no result of a record known, and none of a    *)
(* new request.                                                            *)
LEMMA Unlinking ==
    ASSUME TypeInv, TypeInv', NEW X, X \subseteq results, NEW R,
           results' = Unlinked(X, R), doomed' = doomed
    PROVE  /\ \A x \in results' : x.of # NoRecord => x \in results
           /\ \A x \in Metric : (Known(x)' /\ x.of # NoRecord) => Known(x)
           /\ \A x \in Metric : Known(x)' => \E y \in Metric : Known(y) /\ y.by = x.by
<1>1. X \subseteq Metric
    BY DEF TypeInv, TypeOK
<1>2. \A x \in results' : x.of # NoRecord => x \in results
    BY <1>1, UnlinkedOrigin
<1>3. \A x \in results' : \E y \in results : y.by = x.by
    BY <1>1, UnlinkedOrigin
<1>4. results \subseteq Metric
    BY DEF TypeInv, TypeOK
<1> QED
    BY <1>2, <1>3, <1>4 DEF Known

(* Only calculations create metric results.                                *)
LEMMA NoneYetStep ==
    ASSUME TypeInv, TypeInv', MetricInv, [Next]_vars
    PROVE  NoneYet'
<1> USE CalculationAssumption DEF rowVars, requestVars
<1>1. ASSUME NEW l \in Libraries, EditLibrary(l) PROVE NoneYet'
    BY <1>1 DEF EditLibrary, TypeInv, TypeOK, NoneYet, Known, ResultsOf, Outdated, MetricInv
<1>2. ASSUME NEW r \in Records, NEW i \in Inputs, Create(r, i) PROVE NoneYet'
    BY <1>2 DEF Create, TypeInv, TypeOK, NoneYet, Known, ResultsOf, Outdated, MetricInv
<1>3. ASSUME NEW p \in Requests, NEW r \in Records, NEW i \in Inputs, Update(p, r, i) PROVE NoneYet'
    BY <1>3 DEF Update, Recalculated, Row, End, TypeInv, TypeOK, NoneYet, Known, ResultsOf,
           Outdated, MetricInv
<1>4. ASSUME NEW p \in Requests, NEW R \in SUBSET Records, ProvinceFind(p, R) PROVE NoneYet'
    BY <1>4 DEF ProvinceFind, TypeInv, TypeOK, NoneYet, Known, ResultsOf, Outdated, MetricInv
<1>5. ASSUME NEW p \in Requests, ProvinceCommit(p) PROVE NoneYet'
    BY <1>5 DEF ProvinceCommit, Moving, End, TypeInv, TypeOK, NoneYet, Known, ResultsOf,
           Outdated, MetricInv
<1>6. ASSUME NEW p \in Requests, NEW R \in SUBSET Records, NEW M \in SUBSET Metrics,
             CalculateStart(p, R, M) PROVE NoneYet'
    BY <1>6 DEF CalculateStart, TypeInv, TypeOK, NoneYet, Known, ResultsOf, Outdated, MetricInv
<1>7. ASSUME NEW p \in Requests, NEW t \in todo[p], CarbonRead(p, t) PROVE NoneYet'
    BY <1>7 DEF CarbonRead, Row, TypeInv, TypeOK, NoneYet, Known, ResultsOf, Outdated, MetricInv
<1>8. ASSUME NEW p \in Requests, NEW t \in todo[p], MetricSkip(p, t) PROVE NoneYet'
    BY <1>8 DEF MetricSkip, TypeInv, TypeOK, NoneYet, Known, ResultsOf, Outdated, MetricInv
<1>9. ASSUME NEW p \in Requests, NEW t \in todo[p], MetricDelete(p, t) PROVE NoneYet'
    BY <1>9 DEF MetricDelete, TypeInv, TypeOK, NoneYet, Known, ResultsOf, Outdated, MetricInv
<1>10. ASSUME NEW p \in Requests, NEW r \in Records, CarbonWrite(p, r) PROVE NoneYet'
    BY <1>10 DEF CarbonWrite, TypeInv, TypeOK, NoneYet, Known, ResultsOf, Outdated, MetricInv
<1>11. ASSUME NEW p \in Requests, NEW r \in Records, CarbonCommit(p, r) PROVE NoneYet'
    BY <1>11 DEF CarbonCommit, Recalculated, TypeInv, TypeOK, NoneYet, Known, ResultsOf,
           Outdated, MetricInv
<1>12. ASSUME NEW p \in Requests, NEW r \in Records, MetricCreate(p, r) PROVE NoneYet'
    BY <1>12 DEF MetricCreate, TypeInv, TypeOK, NoneYet, Known, ResultsOf, Outdated, MetricInv
<1>13. ASSUME NEW p \in Requests, CalculateEnd(p) PROVE NoneYet'
    BY <1>13 DEF CalculateEnd, End, TypeInv, TypeOK, NoneYet, Known, ResultsOf, Outdated, MetricInv
<1>14. ASSUME NEW r \in Records, Remove(r) PROVE NoneYet'
    <2>1. /\ \A x \in results' : x.of # NoRecord => x \in results
          /\ \A x \in Metric : (Known(x)' /\ x.of # NoRecord) => Known(x)
          /\ \A x \in Metric : Known(x)' => \E y \in Metric : Known(y) /\ y.by = x.by
        BY <1>14, Unlinking DEF Remove

    <2>2. doomed' = doomed /\ \A q \in Requests : pc'[q] \in {"idle", "moving", "clearing"} => pc'[q] = pc[q]
        BY <1>14 DEF Remove, TypeInv, TypeOK
    <2> QED
        BY <2>1, <2>2 DEF MetricInv, NoneYet
<1>15. ASSUME NEW p \in Requests, NEW S \in Scopes, ClearScan(p, S) PROVE NoneYet'
    BY <1>15 DEF ClearScan, TypeInv, TypeOK, NoneYet, Known, ResultsOf, Outdated, MetricInv
<1>16. ASSUME NEW p \in Requests, ClearCommit(p) PROVE NoneYet'
    <2>1. /\ \A x \in results' : x.of # NoRecord => x \in results
          /\ \A x \in Metric : (Known(x)' /\ x.of # NoRecord) => Known(x)
          /\ \A x \in Metric : Known(x)' => \E y \in Metric : Known(y) /\ y.by = x.by
        BY <1>16, Unlinking DEF ClearCommit, End

    <2>2. doomed' = doomed /\ \A q \in Requests : pc'[q] \in {"idle", "moving", "clearing"} => pc'[q] = pc[q]
        BY <1>16 DEF ClearCommit, End, TypeInv, TypeOK
    <2> QED
        BY <2>1, <2>2 DEF MetricInv, NoneYet
<1>17. ASSUME NEW p \in Requests, Abort(p) PROVE NoneYet'
    BY <1>17 DEF Abort, End, TypeInv, TypeOK, NoneYet, Known, ResultsOf, Outdated, MetricInv
<1>18. CASE UNCHANGED vars
    BY <1>18 DEF vars, NoneYet, Known, ResultsOf, Outdated, MetricInv
<1>19. ASSUME NEW R \in SUBSET Records, BulkUpdateFacility(R) PROVE NoneYet'
    BY <1>19 DEF BulkUpdateFacility, TypeInv, TypeOK, NoneYet, Known, ResultsOf,
           Outdated, MetricInv
<1> QED
    BY <1>1, <1>2, <1>3, <1>4, <1>5, <1>6, <1>7, <1>8, <1>9, <1>10, <1>11, <1>12, <1>13,
       <1>14, <1>15, <1>16, <1>17, <1>18, <1>19 DEF Next, Calculating

(* A result that is about to be created is no longer to do.                *)
LEMMA OnceTodoStep ==
    ASSUME TypeInv, TypeInv', MetricInv, [Next]_vars
    PROVE  OnceTodo'
<1> USE CalculationAssumption DEF rowVars, requestVars
<1>1. ASSUME NEW l \in Libraries, EditLibrary(l) PROVE OnceTodo'
    BY <1>1 DEF EditLibrary, TypeInv, TypeOK, OnceTodo, MetricInv
<1>2. ASSUME NEW r \in Records, NEW i \in Inputs, Create(r, i) PROVE OnceTodo'
    BY <1>2 DEF Create, TypeInv, TypeOK, OnceTodo, MetricInv
<1>3. ASSUME NEW p \in Requests, NEW r \in Records, NEW i \in Inputs, Update(p, r, i)
      PROVE  OnceTodo'
    BY <1>3 DEF Update, Recalculated, Row, End, TypeInv, TypeOK, OnceTodo, MetricInv
<1>4. ASSUME NEW p \in Requests, NEW R \in SUBSET Records, ProvinceFind(p, R) PROVE OnceTodo'
    BY <1>4 DEF ProvinceFind, TypeInv, TypeOK, OnceTodo, MetricInv
<1>5. ASSUME NEW p \in Requests, ProvinceCommit(p) PROVE OnceTodo'
    BY <1>5 DEF ProvinceCommit, Moving, End, TypeInv, TypeOK, OnceTodo, MetricInv
<1>6. ASSUME NEW p \in Requests, NEW R \in SUBSET Records, NEW M \in SUBSET Metrics,
             CalculateStart(p, R, M) PROVE OnceTodo'
    BY <1>6 DEF CalculateStart, TypeInv, TypeOK, OnceTodo, MetricInv
<1>7. ASSUME NEW p \in Requests, NEW t \in todo[p], CarbonRead(p, t) PROVE OnceTodo'
    BY <1>7 DEF CarbonRead, Row, TypeInv, TypeOK, OnceTodo, MetricInv
<1>8. ASSUME NEW p \in Requests, NEW t \in todo[p], MetricSkip(p, t) PROVE OnceTodo'
    BY <1>8 DEF MetricSkip, TypeInv, TypeOK, OnceTodo, MetricInv
<1>9. ASSUME NEW p \in Requests, NEW t \in todo[p], MetricDelete(p, t) PROVE OnceTodo'
    <2>1. /\ t.metric = "ENERGY_CONSUMPTION"
          /\ todo' = [todo EXCEPT ![p] = todo[p] \ {t}]
          /\ target' = [target EXCEPT ![p] = {t.of}]
          /\ \A q \in Requests \ {p} : pc'[q] = pc[q]
        BY <1>9 DEF MetricDelete, TypeInv, TypeOK, Metrics
    <2>2. \A u \in todo[p] \ {t} : u.metric = "ENERGY_CONSUMPTION" => u.of # t.of
        BY <2>1 DEF MetricInv, OnceTodo
    <2>3. /\ todo'[p] = todo[p] \ {t} /\ target'[p] = {t.of}
          /\ \A q \in Requests \ {p} : todo'[q] = todo[q] /\ target'[q] = target[q]
        BY <2>1 DEF TypeInv, TypeOK
    <2> QED
        BY <2>1, <2>2, <2>3 DEF MetricInv, OnceTodo
<1>10. ASSUME NEW p \in Requests, NEW r \in Records, CarbonWrite(p, r) PROVE OnceTodo'
    BY <1>10 DEF CarbonWrite, TypeInv, TypeOK, OnceTodo, MetricInv
<1>11. ASSUME NEW p \in Requests, NEW r \in Records, CarbonCommit(p, r) PROVE OnceTodo'
    BY <1>11 DEF CarbonCommit, Recalculated, TypeInv, TypeOK, OnceTodo, MetricInv
<1>12. ASSUME NEW p \in Requests, NEW r \in Records, MetricCreate(p, r) PROVE OnceTodo'
    BY <1>12 DEF MetricCreate, TypeInv, TypeOK, OnceTodo, MetricInv
<1>13. ASSUME NEW p \in Requests, CalculateEnd(p) PROVE OnceTodo'
    BY <1>13 DEF CalculateEnd, End, TypeInv, TypeOK, OnceTodo, MetricInv
<1>14. ASSUME NEW r \in Records, Remove(r) PROVE OnceTodo'
    BY <1>14 DEF Remove, Deleted, TypeInv, TypeOK, OnceTodo, MetricInv
<1>15. ASSUME NEW p \in Requests, NEW S \in Scopes, ClearScan(p, S) PROVE OnceTodo'
    BY <1>15 DEF ClearScan, TypeInv, TypeOK, OnceTodo, MetricInv
<1>16. ASSUME NEW p \in Requests, ClearCommit(p) PROVE OnceTodo'
    BY <1>16 DEF ClearCommit, Deleted, End, TypeInv, TypeOK, OnceTodo, MetricInv
<1>17. ASSUME NEW p \in Requests, Abort(p) PROVE OnceTodo'
    BY <1>17 DEF Abort, End, TypeInv, TypeOK, OnceTodo, MetricInv
<1>18. CASE UNCHANGED vars
    BY <1>18 DEF vars, OnceTodo, MetricInv
<1>19. ASSUME NEW R \in SUBSET Records, BulkUpdateFacility(R) PROVE OnceTodo'
    BY <1>19 DEF BulkUpdateFacility, TypeInv, TypeOK, OnceTodo, MetricInv
<1> QED
    BY <1>1, <1>2, <1>3, <1>4, <1>5, <1>6, <1>7, <1>8, <1>9, <1>10, <1>11, <1>12, <1>13,
       <1>14, <1>15, <1>16, <1>17, <1>18, <1>19 DEF Next, Calculating

(* A request does not come back to a result it has created.                *)
LEMMA OnceCreatedStep ==
    ASSUME TypeInv, TypeInv', MetricInv, [Next]_vars
    PROVE  OnceCreated'
<1> USE CalculationAssumption DEF rowVars, requestVars
<1>1. ASSUME NEW l \in Libraries, EditLibrary(l) PROVE OnceCreated'
    BY <1>1 DEF EditLibrary, TypeInv, TypeOK, NoneYet, OnceTodo, OnceCreated, Known,
           ResultsOf, Outdated, MetricInv
<1>2. ASSUME NEW r \in Records, NEW i \in Inputs, Create(r, i) PROVE OnceCreated'
    BY <1>2 DEF Create, TypeInv, TypeOK, NoneYet, OnceTodo, OnceCreated, Known, ResultsOf,
           Outdated, MetricInv
<1>3. ASSUME NEW p \in Requests, NEW r \in Records, NEW i \in Inputs, Update(p, r, i)
      PROVE  OnceCreated'
    BY <1>3 DEF Update, Recalculated, Row, End, TypeInv, TypeOK, NoneYet, OnceTodo,
           OnceCreated, Known, ResultsOf, Outdated, MetricInv
<1>4. ASSUME NEW p \in Requests, NEW R \in SUBSET Records, ProvinceFind(p, R) PROVE OnceCreated'
    BY <1>4 DEF ProvinceFind, TypeInv, TypeOK, NoneYet, OnceTodo, OnceCreated, Known,
           ResultsOf, Outdated, MetricInv
<1>5. ASSUME NEW p \in Requests, ProvinceCommit(p) PROVE OnceCreated'
    BY <1>5 DEF ProvinceCommit, Moving, End, TypeInv, TypeOK, NoneYet, OnceTodo,
           OnceCreated, Known, ResultsOf, Outdated, MetricInv
<1>6. ASSUME NEW p \in Requests, NEW R \in SUBSET Records, NEW M \in SUBSET Metrics,
             CalculateStart(p, R, M) PROVE OnceCreated'
    BY <1>6 DEF CalculateStart, TypeInv, TypeOK, NoneYet, OnceTodo, OnceCreated, Known,
           ResultsOf, Outdated, MetricInv
<1>7. ASSUME NEW p \in Requests, NEW t \in todo[p], CarbonRead(p, t) PROVE OnceCreated'
    BY <1>7 DEF CarbonRead, Row, TypeInv, TypeOK, NoneYet, OnceTodo, OnceCreated, Known,
           ResultsOf, Outdated, MetricInv
<1>8. ASSUME NEW p \in Requests, NEW t \in todo[p], MetricSkip(p, t) PROVE OnceCreated'
    BY <1>8 DEF MetricSkip, TypeInv, TypeOK, NoneYet, OnceTodo, OnceCreated, Known,
           ResultsOf, Outdated, MetricInv
<1>9. ASSUME NEW p \in Requests, NEW t \in todo[p], MetricDelete(p, t) PROVE OnceCreated'
    <2>1. /\ t.metric = "ENERGY_CONSUMPTION"
          /\ todo' = [todo EXCEPT ![p] = todo[p] \ {t}]
          /\ target' = [target EXCEPT ![p] = {t.of}]
          /\ \A q \in Requests \ {p} : pc'[q] = pc[q]
        BY <1>9 DEF MetricDelete, TypeInv, TypeOK, Metrics
    <2>2. \A x \in Metric : Known(x)' => Known(x)
        BY <1>9 DEF MetricDelete, Known, ResultsOf, TypeInv, TypeOK
    <2>3. /\ todo'[p] = todo[p] \ {t} /\ target'[p] = {t.of}
          /\ \A q \in Requests \ {p} : todo'[q] = todo[q] /\ target'[q] = target[q]
        BY <2>1 DEF TypeInv, TypeOK
    <2>4. \A x \in Metric : x.by \in Requests
        BY DEF Metric
    <2>5. \A x \in Metric : (Known(x) /\ x.metric = "ENERGY_CONSUMPTION") =>
              /\ \A u \in todo'[x.by] : u.metric = "ENERGY_CONSUMPTION" => u.of # x.of
              /\ pc'[x.by] = "replacing" => x.of \notin target'[x.by]
        <3>1. SUFFICES ASSUME NEW x \in Metric, Known(x), x.metric = "ENERGY_CONSUMPTION"
                       PROVE  /\ \A u \in todo'[x.by] : u.metric = "ENERGY_CONSUMPTION" => u.of # x.of
                              /\ pc'[x.by] = "replacing" => x.of \notin target'[x.by]
            OBVIOUS
        <3>2. /\ \A u \in todo[x.by] : u.metric = "ENERGY_CONSUMPTION" => u.of # x.of
              /\ pc[x.by] = "replacing" => x.of \notin target[x.by]
            BY <3>1 DEF MetricInv, OnceCreated
        <3>3. CASE x.by = p
            BY <2>1, <2>3, <3>2, <3>3
        <3>4. CASE x.by # p
            BY <2>1, <2>3, <2>4, <3>2, <3>4
        <3> QED
            BY <3>3, <3>4
    <2> QED
        BY <2>2, <2>5 DEF OnceCreated
<1>10. ASSUME NEW p \in Requests, NEW r \in Records, CarbonWrite(p, r) PROVE OnceCreated'
    BY <1>10 DEF CarbonWrite, TypeInv, TypeOK, NoneYet, OnceTodo, OnceCreated, Known,
           ResultsOf, Outdated, MetricInv
<1>11. ASSUME NEW p \in Requests, NEW r \in Records, CarbonCommit(p, r) PROVE OnceCreated'
    BY <1>11 DEF CarbonCommit, Recalculated, TypeInv, TypeOK, NoneYet, OnceTodo,
           OnceCreated, Known, ResultsOf, Outdated, MetricInv
<1>12. ASSUME NEW p \in Requests, NEW r \in Records, MetricCreate(p, r) PROVE OnceCreated'
    <2> DEFINE new == [of |-> r, metric |-> "ENERGY_CONSUMPTION", by |-> p, input |-> read[p].input]
    <2>1. /\ pc[p] = "replacing" /\ r \in target[p] /\ new \in Metric
          /\ results' = results \cup {new}
          /\ pc' = [pc EXCEPT ![p] = "calculating"]
          /\ target' = [target EXCEPT ![p] = {}]
          /\ UNCHANGED <<todo, doomed>>
        BY <1>12 DEF MetricCreate, TypeInv, TypeOK, Metric, Metrics
    <2>2. new.of = r /\ new.by = p /\ new.metric = "ENERGY_CONSUMPTION"
        OBVIOUS

    <2> HIDE DEF new
    <2>3. \A x \in Metric : Known(x)' => x = new \/ Known(x)
        BY <2>1 DEF Known
    <2>4. \A t \in todo'[p] : t.metric = "ENERGY_CONSUMPTION" => t.of # r
        BY <2>1 DEF MetricInv, OnceTodo
    <2>5. pc'[p] # "replacing"
        BY <2>1 DEF TypeInv, TypeOK
    <2>6. \A x \in Metric : (Known(x) /\ x.metric = "ENERGY_CONSUMPTION") =>
              /\ \A u \in todo'[x.by] : u.metric = "ENERGY_CONSUMPTION" => u.of # x.of
              /\ pc'[x.by] = "replacing" => x.of \notin target'[x.by]
        <3>1. /\ target'[p] = {}
              /\ \A q \in Requests \ {p} : pc'[q] = pc[q] /\ target'[q] = target[q]
            BY <2>1 DEF TypeInv, TypeOK
        <3>2. \A x \in Metric : x.by \in Requests
            BY DEF Metric
        <3> QED
            BY <2>1, <2>5, <3>1, <3>2 DEF MetricInv, OnceCreated
    <2> QED
        BY <2>2, <2>3, <2>4, <2>5, <2>6 DEF OnceCreated
<1>13. ASSUME NEW p \in Requests, CalculateEnd(p) PROVE OnceCreated'
    BY <1>13 DEF CalculateEnd, End, TypeInv, TypeOK, NoneYet, OnceTodo, OnceCreated, Known,
           ResultsOf, Outdated, MetricInv
<1>14. ASSUME NEW r \in Records, Remove(r) PROVE OnceCreated'
    <2>1. /\ \A x \in results' : x.of # NoRecord => x \in results
          /\ \A x \in Metric : (Known(x)' /\ x.of # NoRecord) => Known(x)
          /\ \A x \in Metric : Known(x)' => \E y \in Metric : Known(y) /\ y.by = x.by
        BY <1>14, Unlinking DEF Remove

    <2>2. \A q \in Requests :
              /\ todo'[q] \subseteq todo[q]
              /\ pc'[q] = "replacing" => pc[q] = "replacing" /\ target'[q] = target[q]
        BY <1>14 DEF Remove, TypeInv, TypeOK
    <2>3. SUFFICES ASSUME NEW x \in Metric, Known(x)', x.metric = "ENERGY_CONSUMPTION"
                   PROVE  /\ \A t \in todo'[x.by] : t.metric = "ENERGY_CONSUMPTION" => t.of # x.of
                          /\ pc'[x.by] = "replacing" => x.of \notin target'[x.by]
        BY DEF OnceCreated
    <2>4. x.by \in Requests
        BY DEF Metric
    <2>5. CASE x.of = NoRecord
        <3>1. \A t \in todo'[x.by] : t.of # NoRecord
            BY <2>4 DEF TypeInv, TypeOK
        <3>2. NoRecord \notin target'[x.by]
            BY <2>4 DEF TypeInv, TypeOK
        <3> QED
            BY <2>5, <3>1, <3>2
    <2>6. CASE x.of # NoRecord
        BY <2>1, <2>2, <2>3, <2>4, <2>6 DEF MetricInv, OnceCreated
    <2> QED
        BY <2>5, <2>6
<1>15. ASSUME NEW p \in Requests, NEW S \in Scopes, ClearScan(p, S) PROVE OnceCreated'
    BY <1>15 DEF ClearScan, TypeInv, TypeOK, NoneYet, OnceTodo, OnceCreated, Known,
           ResultsOf, Outdated, MetricInv
<1>16. ASSUME NEW p \in Requests, ClearCommit(p) PROVE OnceCreated'
    <2>1. /\ \A x \in results' : x.of # NoRecord => x \in results
          /\ \A x \in Metric : (Known(x)' /\ x.of # NoRecord) => Known(x)
          /\ \A x \in Metric : Known(x)' => \E y \in Metric : Known(y) /\ y.by = x.by
        BY <1>16, Unlinking DEF ClearCommit, End

    <2>2. \A q \in Requests :
              /\ todo'[q] \subseteq todo[q]
              /\ pc'[q] = "replacing" => pc[q] = "replacing" /\ target'[q] = target[q]
        BY <1>16 DEF ClearCommit, End, TypeInv, TypeOK
    <2>3. SUFFICES ASSUME NEW x \in Metric, Known(x)', x.metric = "ENERGY_CONSUMPTION"
                   PROVE  /\ \A t \in todo'[x.by] : t.metric = "ENERGY_CONSUMPTION" => t.of # x.of
                          /\ pc'[x.by] = "replacing" => x.of \notin target'[x.by]
        BY DEF OnceCreated
    <2>4. x.by \in Requests
        BY DEF Metric
    <2>5. CASE x.of = NoRecord
        <3>1. \A t \in todo'[x.by] : t.of # NoRecord
            BY <2>4 DEF TypeInv, TypeOK
        <3>2. NoRecord \notin target'[x.by]
            BY <2>4 DEF TypeInv, TypeOK
        <3> QED
            BY <2>5, <3>1, <3>2
    <2>6. CASE x.of # NoRecord
        BY <2>1, <2>2, <2>3, <2>4, <2>6 DEF MetricInv, OnceCreated
    <2> QED
        BY <2>5, <2>6
<1>17. ASSUME NEW p \in Requests, Abort(p) PROVE OnceCreated'
    BY <1>17 DEF Abort, End, TypeInv, TypeOK, NoneYet, OnceTodo, OnceCreated, Known,
           ResultsOf, Outdated, MetricInv
<1>18. CASE UNCHANGED vars
    BY <1>18 DEF vars, NoneYet, OnceTodo, OnceCreated, Known, ResultsOf, Outdated, MetricInv
<1>19. ASSUME NEW R \in SUBSET Records, BulkUpdateFacility(R) PROVE OnceCreated'
    BY <1>19 DEF BulkUpdateFacility, TypeInv, TypeOK, NoneYet, OnceTodo,
           OnceCreated, Known, ResultsOf, Outdated, MetricInv
<1> QED
    BY <1>1, <1>2, <1>3, <1>4, <1>5, <1>6, <1>7, <1>8, <1>9, <1>10, <1>11, <1>12, <1>13,
       <1>14, <1>15, <1>16, <1>17, <1>18, <1>19 DEF Next, Calculating

(* Nobody creates a metric result that has been deleted.                   *)
LEMMA DeletedIsGoneStep ==
    ASSUME TypeInv, TypeInv', MetricInv, [Next]_vars
    PROVE  DeletedIsGone'
<1> USE CalculationAssumption DEF rowVars, requestVars
<1>1. ASSUME NEW l \in Libraries, EditLibrary(l) PROVE DeletedIsGone'
    BY <1>1 DEF EditLibrary, TypeInv, TypeOK, NoneYet, OnceCreated, DeletedIsGone, Known,
           ResultsOf, Outdated, MetricInv
<1>2. ASSUME NEW r \in Records, NEW i \in Inputs, Create(r, i) PROVE DeletedIsGone'
    BY <1>2 DEF Create, TypeInv, TypeOK, NoneYet, OnceCreated, DeletedIsGone, Known,
           ResultsOf, Outdated, MetricInv
<1>3. ASSUME NEW p \in Requests, NEW r \in Records, NEW i \in Inputs, Update(p, r, i)
      PROVE  DeletedIsGone'
    BY <1>3 DEF Update, Recalculated, Row, End, TypeInv, TypeOK, NoneYet, OnceCreated,
           DeletedIsGone, Known, ResultsOf, Outdated, MetricInv
<1>4. ASSUME NEW p \in Requests, NEW R \in SUBSET Records, ProvinceFind(p, R) PROVE DeletedIsGone'
    BY <1>4 DEF ProvinceFind, TypeInv, TypeOK, NoneYet, OnceCreated, DeletedIsGone, Known,
           ResultsOf, Outdated, MetricInv
<1>5. ASSUME NEW p \in Requests, ProvinceCommit(p) PROVE DeletedIsGone'
    BY <1>5 DEF ProvinceCommit, Moving, End, TypeInv, TypeOK, NoneYet, OnceCreated,
           DeletedIsGone, Known, ResultsOf, Outdated, MetricInv
<1>6. ASSUME NEW p \in Requests, NEW R \in SUBSET Records, NEW M \in SUBSET Metrics,
             CalculateStart(p, R, M) PROVE DeletedIsGone'
    BY <1>6 DEF CalculateStart, TypeInv, TypeOK, NoneYet, OnceCreated, DeletedIsGone, Known,
           ResultsOf, Outdated, MetricInv
<1>7. ASSUME NEW p \in Requests, NEW t \in todo[p], CarbonRead(p, t) PROVE DeletedIsGone'
    BY <1>7 DEF CarbonRead, Row, TypeInv, TypeOK, NoneYet, OnceCreated, DeletedIsGone,
           Known, ResultsOf, Outdated, MetricInv
<1>8. ASSUME NEW p \in Requests, NEW t \in todo[p], MetricSkip(p, t) PROVE DeletedIsGone'
    BY <1>8 DEF MetricSkip, TypeInv, TypeOK, NoneYet, OnceCreated, DeletedIsGone, Known,
           ResultsOf, Outdated, MetricInv
<1>9. ASSUME NEW p \in Requests, NEW t \in todo[p], MetricDelete(p, t) PROVE DeletedIsGone'
    BY <1>9 DEF MetricDelete, TypeInv, TypeOK, NoneYet, OnceCreated, DeletedIsGone, Known,
           ResultsOf, Outdated, MetricInv
<1>10. ASSUME NEW p \in Requests, NEW r \in Records, CarbonWrite(p, r) PROVE DeletedIsGone'
    BY <1>10 DEF CarbonWrite, TypeInv, TypeOK, NoneYet, OnceCreated, DeletedIsGone, Known,
           ResultsOf, Outdated, MetricInv
<1>11. ASSUME NEW p \in Requests, NEW r \in Records, CarbonCommit(p, r) PROVE DeletedIsGone'
    BY <1>11 DEF CarbonCommit, Recalculated, TypeInv, TypeOK, NoneYet, OnceCreated,
           DeletedIsGone, Known, ResultsOf, Outdated, MetricInv
<1>12. ASSUME NEW p \in Requests, NEW r \in Records, MetricCreate(p, r) PROVE DeletedIsGone'
    <2> DEFINE new == [of |-> r, metric |-> "ENERGY_CONSUMPTION", by |-> p, input |-> read[p].input]
    <2>1. /\ pc[p] = "replacing" /\ r \in target[p] /\ new \in Metric
          /\ results' = results \cup {new}
          /\ pc' = [pc EXCEPT ![p] = "calculating"]
          /\ target' = [target EXCEPT ![p] = {}]
          /\ UNCHANGED <<todo, doomed>>
        BY <1>12 DEF MetricCreate, TypeInv, TypeOK, Metric, Metrics
    <2>2. new.of = r /\ new.by = p /\ new.metric = "ENERGY_CONSUMPTION"
        OBVIOUS

    <2> HIDE DEF new
    <2>3. \A x \in Metric : (Known(x) /\ x.metric = "ENERGY_CONSUMPTION" /\ x.by = p) => x.of # r
        BY <2>1 DEF MetricInv, OnceCreated
    <2>4. \A q \in Requests : new \notin doomed[q]
        BY <2>1, <2>2, <2>3 DEF Known

    <2>5. \A q \in Requests : pc'[q] \in {"calculating", "evaluated", "writing", "replacing"} =>
              pc[q] \in {"calculating", "evaluated", "writing", "replacing"}
        BY <2>1 DEF TypeInv, TypeOK
    <2> QED
        BY <2>1, <2>4, <2>5 DEF MetricInv, DeletedIsGone
<1>13. ASSUME NEW p \in Requests, CalculateEnd(p) PROVE DeletedIsGone'
    BY <1>13 DEF CalculateEnd, End, TypeInv, TypeOK, NoneYet, OnceCreated, DeletedIsGone,
           Known, ResultsOf, Outdated, MetricInv
<1>14. ASSUME NEW r \in Records, Remove(r) PROVE DeletedIsGone'
    <2>1. /\ \A x \in results' : x.of # NoRecord => x \in results
          /\ \A x \in Metric : (Known(x)' /\ x.of # NoRecord) => Known(x)
          /\ \A x \in Metric : Known(x)' => \E y \in Metric : Known(y) /\ y.by = x.by
        BY <1>14, Unlinking DEF Remove

    <2>2. /\ doomed' = doomed
          /\ \A q \in Requests : pc'[q] \in {"calculating", "evaluated", "writing", "replacing"} =>
                pc'[q] = pc[q]
        BY <1>14 DEF Remove, TypeInv, TypeOK
    <2> QED
        BY <2>1, <2>2 DEF MetricInv, DeletedIsGone
<1>15. ASSUME NEW p \in Requests, NEW S \in Scopes, ClearScan(p, S) PROVE DeletedIsGone'
    BY <1>15 DEF ClearScan, TypeInv, TypeOK, NoneYet, OnceCreated, DeletedIsGone, Known,
           ResultsOf, Outdated, MetricInv
<1>16. ASSUME NEW p \in Requests, ClearCommit(p) PROVE DeletedIsGone'
    <2>1. /\ \A x \in results' : x.of # NoRecord => x \in results
          /\ \A x \in Metric : (Known(x)' /\ x.of # NoRecord) => Known(x)
          /\ \A x \in Metric : Known(x)' => \E y \in Metric : Known(y) /\ y.by = x.by
        BY <1>16, Unlinking DEF ClearCommit, End

    <2>2. /\ doomed' = doomed
          /\ \A q \in Requests : pc'[q] \in {"calculating", "evaluated", "writing", "replacing"} =>
                pc'[q] = pc[q]
        BY <1>16 DEF ClearCommit, End, TypeInv, TypeOK
    <2> QED
        BY <2>1, <2>2 DEF MetricInv, DeletedIsGone
<1>17. ASSUME NEW p \in Requests, Abort(p) PROVE DeletedIsGone'
    BY <1>17 DEF Abort, End, TypeInv, TypeOK, NoneYet, OnceCreated, DeletedIsGone, Known,
           ResultsOf, Outdated, MetricInv
<1>18. CASE UNCHANGED vars
    BY <1>18 DEF vars, NoneYet, OnceCreated, DeletedIsGone, Known, ResultsOf, Outdated, MetricInv
<1>19. ASSUME NEW R \in SUBSET Records, BulkUpdateFacility(R) PROVE DeletedIsGone'
    BY <1>19 DEF BulkUpdateFacility, TypeInv, TypeOK, NoneYet, OnceCreated,
           DeletedIsGone, Known, ResultsOf, Outdated, MetricInv
<1> QED
    BY <1>1, <1>2, <1>3, <1>4, <1>5, <1>6, <1>7, <1>8, <1>9, <1>10, <1>11, <1>12, <1>13,
       <1>14, <1>15, <1>16, <1>17, <1>18, <1>19 DEF Next, Calculating

(* A result that is created meets only those of requests that overlap.     *)
LEMMA DoubleMetricsOnlyFromOverlapStep ==
    ASSUME TypeInv, TypeInv', MetricInv, [Next]_vars
    PROVE  DoubleMetricsOnlyFromOverlap'
<1> USE CalculationAssumption DEF rowVars, requestVars
<1>1. ASSUME NEW l \in Libraries, EditLibrary(l) PROVE DoubleMetricsOnlyFromOverlap'
    BY <1>1 DEF EditLibrary, TypeInv, TypeOK, NoneYet, OnceCreated, DeletedIsGone,
           DoubleMetricsOnlyFromOverlap, Known, ResultsOf, Outdated, MetricInv
<1>2. ASSUME NEW r \in Records, NEW i \in Inputs, Create(r, i) PROVE DoubleMetricsOnlyFromOverlap'
    BY <1>2 DEF Create, TypeInv, TypeOK, NoneYet, OnceCreated, DeletedIsGone,
           DoubleMetricsOnlyFromOverlap, Known, ResultsOf, Outdated, MetricInv
<1>3. ASSUME NEW p \in Requests, NEW r \in Records, NEW i \in Inputs, Update(p, r, i)
      PROVE  DoubleMetricsOnlyFromOverlap'
    BY <1>3 DEF Update, Recalculated, Row, End, TypeInv, TypeOK, NoneYet, OnceCreated,
           DeletedIsGone, DoubleMetricsOnlyFromOverlap, Known, ResultsOf, Outdated, MetricInv
<1>4. ASSUME NEW p \in Requests, NEW R \in SUBSET Records, ProvinceFind(p, R)
      PROVE  DoubleMetricsOnlyFromOverlap'
    BY <1>4 DEF ProvinceFind, TypeInv, TypeOK, NoneYet, OnceCreated, DeletedIsGone,
           DoubleMetricsOnlyFromOverlap, Known, ResultsOf, Outdated, MetricInv
<1>5. ASSUME NEW p \in Requests, ProvinceCommit(p) PROVE DoubleMetricsOnlyFromOverlap'
    BY <1>5 DEF ProvinceCommit, Moving, End, TypeInv, TypeOK, NoneYet, OnceCreated,
           DeletedIsGone, DoubleMetricsOnlyFromOverlap, Known, ResultsOf, Outdated, MetricInv
<1>6. ASSUME NEW p \in Requests, NEW R \in SUBSET Records, NEW M \in SUBSET Metrics,
             CalculateStart(p, R, M) PROVE DoubleMetricsOnlyFromOverlap'
    BY <1>6 DEF CalculateStart, TypeInv, TypeOK, NoneYet, OnceCreated, DeletedIsGone,
           DoubleMetricsOnlyFromOverlap, Known, ResultsOf, Outdated, MetricInv
<1>7. ASSUME NEW p \in Requests, NEW t \in todo[p], CarbonRead(p, t)
      PROVE  DoubleMetricsOnlyFromOverlap'
    BY <1>7 DEF CarbonRead, Row, TypeInv, TypeOK, NoneYet, OnceCreated, DeletedIsGone,
           DoubleMetricsOnlyFromOverlap, Known, ResultsOf, Outdated, MetricInv
<1>8. ASSUME NEW p \in Requests, NEW t \in todo[p], MetricSkip(p, t)
      PROVE  DoubleMetricsOnlyFromOverlap'
    BY <1>8 DEF MetricSkip, TypeInv, TypeOK, NoneYet, OnceCreated, DeletedIsGone,
           DoubleMetricsOnlyFromOverlap, Known, ResultsOf, Outdated, MetricInv
<1>9. ASSUME NEW p \in Requests, NEW t \in todo[p], MetricDelete(p, t)
      PROVE  DoubleMetricsOnlyFromOverlap'
    BY <1>9 DEF MetricDelete, TypeInv, TypeOK, NoneYet, OnceCreated, DeletedIsGone,
           DoubleMetricsOnlyFromOverlap, Known, ResultsOf, Outdated, MetricInv
<1>10. ASSUME NEW p \in Requests, NEW r \in Records, CarbonWrite(p, r)
      PROVE  DoubleMetricsOnlyFromOverlap'
    BY <1>10 DEF CarbonWrite, TypeInv, TypeOK, NoneYet, OnceCreated, DeletedIsGone,
           DoubleMetricsOnlyFromOverlap, Known, ResultsOf, Outdated, MetricInv
<1>11. ASSUME NEW p \in Requests, NEW r \in Records, CarbonCommit(p, r)
      PROVE  DoubleMetricsOnlyFromOverlap'
    BY <1>11 DEF CarbonCommit, Recalculated, TypeInv, TypeOK, NoneYet, OnceCreated,
           DeletedIsGone, DoubleMetricsOnlyFromOverlap, Known, ResultsOf, Outdated, MetricInv
<1>12. ASSUME NEW p \in Requests, NEW r \in Records, MetricCreate(p, r)
      PROVE  DoubleMetricsOnlyFromOverlap'
    <2> DEFINE new == [of |-> r, metric |-> "ENERGY_CONSUMPTION", by |-> p, input |-> read[p].input]
    <2>1. /\ pc[p] = "replacing" /\ r \in target[p] /\ new \in Metric
          /\ results' = results \cup {new}
          /\ pc' = [pc EXCEPT ![p] = "calculating"]
          /\ target' = [target EXCEPT ![p] = {}]
          /\ UNCHANGED <<todo, doomed>>
        BY <1>12 DEF MetricCreate, TypeInv, TypeOK, Metric, Metrics
    <2>2. new.of = r /\ new.by = p /\ new.metric = "ENERGY_CONSUMPTION"
        OBVIOUS

    <2> HIDE DEF new
    <2>3. \A x \in Metric : (Known(x) /\ x.metric = "ENERGY_CONSUMPTION" /\ x.by = p) => x.of # r
        BY <2>1 DEF MetricInv, OnceCreated
    <2>4. \A q \in Requests : new \notin doomed[q]
        BY <2>1, <2>2, <2>3 DEF Known

    <2>5. \A y \in results : (y.metric = "ENERGY_CONSUMPTION" /\ y.of = r) =>
              /\ y \in Metric /\ y.by \in Requests /\ y.by # p /\ y \notin doomed[p]
              /\ new \notin doomed[y.by]
        BY <2>1, <2>3, <2>4 DEF MetricInv, DeletedIsGone, Known, Metric, TypeInv, TypeOK
    <2>6. SUFFICES ASSUME NEW x \in results', NEW y \in results',
                          x.metric = "ENERGY_CONSUMPTION", y.metric = "ENERGY_CONSUMPTION",
                          x.of = y.of, x.of # NoRecord, x # y
                   PROVE  x.by # y.by /\ x \notin doomed'[y.by]
        BY DEF DoubleMetricsOnlyFromOverlap
    <2>7. CASE x \in results /\ y \in results
        BY <2>1, <2>6, <2>7 DEF MetricInv, DoubleMetricsOnlyFromOverlap
    <2>8. CASE x = new \/ y = new
        BY <2>1, <2>2, <2>5, <2>6, <2>8
    <2> QED
        BY <2>1, <2>7, <2>8
<1>13. ASSUME NEW p \in Requests, CalculateEnd(p) PROVE DoubleMetricsOnlyFromOverlap'
    BY <1>13 DEF CalculateEnd, End, TypeInv, TypeOK, NoneYet, OnceCreated, DeletedIsGone,
           DoubleMetricsOnlyFromOverlap, Known, ResultsOf, Outdated, MetricInv
<1>14. ASSUME NEW r \in Records, Remove(r) PROVE DoubleMetricsOnlyFromOverlap'
    <2>1. /\ \A x \in results' : x.of # NoRecord => x \in results
          /\ \A x \in Metric : (Known(x)' /\ x.of # NoRecord) => Known(x)
          /\ \A x \in Metric : Known(x)' => \E y \in Metric : Known(y) /\ y.by = x.by
        BY <1>14, Unlinking DEF Remove

    <2>2. doomed' = doomed
        BY <1>14 DEF Remove
    <2> QED
        BY <2>1, <2>2 DEF MetricInv, DoubleMetricsOnlyFromOverlap
<1>15. ASSUME NEW p \in Requests, NEW S \in Scopes, ClearScan(p, S)
      PROVE  DoubleMetricsOnlyFromOverlap'
    BY <1>15 DEF ClearScan, TypeInv, TypeOK, NoneYet, OnceCreated, DeletedIsGone,
           DoubleMetricsOnlyFromOverlap, Known, ResultsOf, Outdated, MetricInv
<1>16. ASSUME NEW p \in Requests, ClearCommit(p) PROVE DoubleMetricsOnlyFromOverlap'
    <2>1. /\ \A x \in results' : x.of # NoRecord => x \in results
          /\ \A x \in Metric : (Known(x)' /\ x.of # NoRecord) => Known(x)
          /\ \A x \in Metric : Known(x)' => \E y \in Metric : Known(y) /\ y.by = x.by
        BY <1>16, Unlinking DEF ClearCommit, End

    <2>2. doomed' = doomed
        BY <1>16 DEF ClearCommit, End
    <2> QED
        BY <2>1, <2>2 DEF MetricInv, DoubleMetricsOnlyFromOverlap
<1>17. ASSUME NEW p \in Requests, Abort(p) PROVE DoubleMetricsOnlyFromOverlap'
    BY <1>17 DEF Abort, End, TypeInv, TypeOK, NoneYet, OnceCreated, DeletedIsGone,
           DoubleMetricsOnlyFromOverlap, Known, ResultsOf, Outdated, MetricInv
<1>18. CASE UNCHANGED vars
    BY <1>18 DEF vars, NoneYet, OnceCreated, DeletedIsGone, DoubleMetricsOnlyFromOverlap,
           Known, ResultsOf, Outdated, MetricInv
<1>19. ASSUME NEW R \in SUBSET Records, BulkUpdateFacility(R) PROVE DoubleMetricsOnlyFromOverlap'
    BY <1>19 DEF BulkUpdateFacility, TypeInv, TypeOK, NoneYet, OnceCreated,
           DeletedIsGone, DoubleMetricsOnlyFromOverlap, Known, ResultsOf, Outdated, MetricInv
<1> QED
    BY <1>1, <1>2, <1>3, <1>4, <1>5, <1>6, <1>7, <1>8, <1>9, <1>10, <1>11, <1>12, <1>13,
       <1>14, <1>15, <1>16, <1>17, <1>18, <1>19 DEF Next, Calculating

-----------------------------------------------------------------------------
(* The inductive invariant behind the theorems below.                      *)
CalculationInv ==
    /\ TypeInv
    /\ UncreatedInv /\ WriterInv /\ ReaderInv
    /\ FreshInv /\ CalculatedFromItsInput
    /\ CarbonInv
    /\ MetricInv

(* The invariant holds initially.                                          *)
LEMMA InvInit == Init => CalculationInv
BY TypeInit
   DEF Init, CalculationInv, UncreatedInv, WriterInv, ReaderInv, FreshInv,
       CalculatedFromItsInput, CarbonInv, OneCarbonResult, MetricInv, NoneYet, OnceTodo,
       OnceCreated, DeletedIsGone, DoubleMetricsOnlyFromOverlap, Known, Exists

(* Every step keeps the invariant.                                         *)
LEMMA InvStep == CalculationInv /\ [Next]_vars => CalculationInv'
<1> SUFFICES ASSUME CalculationInv, [Next]_vars PROVE CalculationInv'
    OBVIOUS
<1> USE DEF CalculationInv
<1>1. TypeInv'
    BY TypeStep
<1>2. UncreatedInv' /\ WriterInv' /\ ReaderInv'
    BY <1>1, UncreatedStep, WriterStep, ReaderStep
<1>3. FreshInv' /\ CalculatedFromItsInput'
    BY <1>1, FreshStep, FromInputStep
<1>4. CarbonInv'
    BY <1>1, CarbonStep
<1>5. MetricInv'
    BY <1>1, NoneYetStep, OnceTodoStep, OnceCreatedStep, DeletedIsGoneStep,
       DoubleMetricsOnlyFromOverlapStep
       DEF MetricInv
<1> QED
    BY <1>1, <1>2, <1>3, <1>4, <1>5

(* The invariant holds always.                                             *)
LEMMA InvAlways == Spec => []CalculationInv
BY InvInit, InvStep, PTL DEF Spec

(* recalculate, on behalf of an edit or of a calculation, and the creation *)
(* of records implement the ledger: every committed calculation has the    *)
(* next number, and the audit log has it with the result it replaced.      *)
THEOREM LedgerImplemented == Spec => LedgerKept
<1>1. Init => Ledger!Init
    BY TypeInit DEF Init, Ledger!Init, TypeInv, TypeOK
<1>2. CalculationInv /\ CalculationInv' /\ [Next]_vars => [Ledger!Next]_(Ledger!ledgerVars)
    BY LedgerStep DEF CalculationInv
<1> QED
    BY <1>1, <1>2, InvAlways, PTL DEF Spec, LedgerKept, Ledger!Spec

(* The row lock and the version compare of recalculate keep one carbon     *)
(* result per record.                                                      *)
THEOREM CarbonResultOnce == Spec => []OneCarbonResult
<1>1. CalculationInv => OneCarbonResult
    BY DEF CalculationInv, CarbonInv
<1> QED
    BY <1>1, InvAlways, PTL

(* A record that says CALCULATED shows a result of its present input,      *)
(* unless its province changed under its last calculation.                 *)
THEOREM ResultOfItsInput == Spec => []CalculatedFromItsInput
<1>1. CalculationInv => CalculatedFromItsInput
    BY DEF CalculationInv
<1> QED
    BY <1>1, InvAlways, PTL

(* Outside a transaction, only overlap makes two results of one metric.    *)
THEOREM OverlapMakesDoubleMetrics == Spec => []DoubleMetricsOnlyFromOverlap
<1>1. CalculationInv => DoubleMetricsOnlyFromOverlap
    BY DEF CalculationInv, MetricInv
<1> QED
    BY <1>1, InvAlways, PTL
=============================================================================
