------------------------- MODULE ActivityCalculation -------------------------
(***************************************************************************)
(* Calculation of activity records: CalculationSnapshotsService            *)
(* .recalculate on behalf of ActivityDataService.update and of             *)
(* MetricsService.calculate, next to the operations that change or delete  *)
(* records without it: the change of many provinces or facilities, and      *)
(* deletion.                                                               *)
(*                                                                         *)
(* Transactions are READ COMMITTED: what a transaction has updated or      *)
(* deleted is locked until its end, and who wants it waits.  An edit is    *)
(* one action: its first statement locks the record.                       *)
(***************************************************************************)
EXTENDS Naturals, Sequences, FiniteSets

CONSTANTS
    Requests,
    Records,     \* record ids; each is given once
    NoRecord,
    Inputs,      \* what a calculation takes from a record: activity, quantity, unit,
                 \* year, province, and the facility the record is linked to
    NoInput,     \* the inputs of a record that does not exist
    Electric,    \* the inputs of electricity records
    Relocated,   \* Relocated[i]: i in the province a bulk change sets
    Unhoused,    \* Unhoused[i]: i with the name of a facility and a link to none
    Factors,
    NoFactor,
    Libraries,   \* the factor chosen for each input, in the states of the factor
                 \* library, the facilities and the settings of the organization
    Scopes       \* what is deleted together: everything, or the records of a document

Result == [input : Inputs, factor : Factors]
Nothing == [input |-> NoInput, factor |-> NoFactor]
Snapshots == Result \cup {Nothing}
Metrics == {"CARBON_EMISSION", "ENERGY_CONSUMPTION"}

ASSUME CalculationAssumption ==
    /\ NoRecord \notin Records /\ NoInput \notin Inputs /\ NoFactor \notin Factors
    /\ Electric \subseteq Inputs
    /\ Relocated \in [Inputs -> Inputs]
    /\ Unhoused \in [Inputs -> Inputs]
    /\ Libraries \subseteq [Inputs -> Factors \cup {NoFactor}] /\ Libraries # {}
    /\ Scopes \subseteq SUBSET Records

VARIABLES
    library,     \* the factors, as far as a calculation sees them
    input,       \* ActivityData: what the user enters,
    status,      \* calculationStatus,
    version,     \* calculationVersion
    snapshot,    \* and calculationSnapshot
    history,     \* AuditLog RECALCULATE_ACTIVITY_RECORD, by record
    results,     \* MetricResult
    pc,
    todo,        \* what a calculation still has to do
    target,      \* the record, or the records, a request is at
    read,        \* the input, version and snapshot of the record it has read
    fresh,       \* the result it has calculated
    doomed,      \* the metric results it has deleted
    displaced    \* the records whose place changed behind their last calculation:
                 \* the province while it ran, or the facility (not in the code)

rowVars == <<input, status, version, snapshot, history>>
requestVars == <<pc, todo, target, read, fresh, doomed>>
vars == <<library, rowVars, results, requestVars, displaced>>

Status == {"none", "CALCULATED", "MISSING_FACTOR", "PENDING_RECALCULATION", "deleted"}
Metric == [of : Records \cup {NoRecord}, metric : Metrics, by : Requests, input : Inputs]
Exists(r) == input[r] # NoInput

Unread == [input |-> NoInput, version |-> 0, snapshot |-> Nothing]

Init ==
    /\ library \in Libraries
    /\ input = [r \in Records |-> NoInput]
    /\ status = [r \in Records |-> "none"]
    /\ version = [r \in Records |-> 0]
    /\ snapshot = [r \in Records |-> Nothing]
    /\ history = [r \in Records |-> << >>]
    /\ results = {}
    /\ pc = [p \in Requests |-> "idle"]
    /\ todo = [p \in Requests |-> {}]
    /\ target = [p \in Requests |-> {}]
    /\ read = [p \in Requests |-> Unread]
    /\ fresh = [p \in Requests |-> Nothing]
    /\ doomed = [p \in Requests |-> {}]
    /\ displaced = {}

End(p) ==
    /\ pc' = [pc EXCEPT ![p] = "done"]
    /\ todo' = [todo EXCEPT ![p] = {}]
    /\ target' = [target EXCEPT ![p] = {}]
    /\ read' = [read EXCEPT ![p] = Unread]
    /\ fresh' = [fresh EXCEPT ![p] = Nothing]
    /\ UNCHANGED doomed

(* No transaction has updated the record, or deleted one of the results.   *)
Free(r) == \A p \in Requests : ~ (pc[p] = "writing" /\ r \in target[p])
Unlocked(X) == \A p \in Requests : pc[p] \in {"writing", "clearing"} => doomed[p] \cap X = {}

ResultsOf(r, m) == {x \in results : x.of = r /\ x.metric = m}

(* CalculationSnapshotsService.fields: the factor for the inputs, if there *)
(* is one, with everything that was used.                                  *)
Evaluate(i) == IF library[i] = NoFactor THEN Nothing ELSE [input |-> i, factor |-> library[i]]

StatusOf(result) == IF result = Nothing THEN "MISSING_FACTOR" ELSE "CALCULATED"

(* recalculate: the version after the one that was read, and the result    *)
(* that was read to the audit log.                                         *)
Recalculated(r, row, result) ==
    /\ status' = [status EXCEPT ![r] = StatusOf(result)]
    /\ version' = [version EXCEPT ![r] = row.version + 1]
    /\ snapshot' = [snapshot EXCEPT ![r] = result]
    /\ history' = [history EXCEPT ![r] =
          Append(@, [version |-> row.version + 1, old |-> row.snapshot, new |-> result])]

Row(r) == [input |-> input[r], version |-> version[r], snapshot |-> snapshot[r]]

-----------------------------------------------------------------------------
(* A factor is added, edited or removed, or a facility moves.              *)
EditLibrary(l) ==
    /\ l \in Libraries \ {library}
    /\ library' = l
    /\ UNCHANGED <<rowVars, results, requestVars, displaced>>

(* ActivityDataService.create, and prepareCreate for every importer.       *)
Create(r, i) ==
    /\ status[r] = "none"
    /\ input' = [input EXCEPT ![r] = i]
    /\ status' = [status EXCEPT ![r] = StatusOf(Evaluate(i))]
    /\ version' = [version EXCEPT ![r] = 1]
    /\ snapshot' = [snapshot EXCEPT ![r] = Evaluate(i)]
    /\ UNCHANGED <<library, history, results, requestVars, displaced>>

(* ActivityDataService.update: the edit and its calculation, in one        *)
(* transaction that locks the record first.  Metric results are left alone.*)
Update(p, r, i) ==
    /\ pc[p] = "idle"
    /\ Exists(r) /\ Free(r)
    /\ input' = [input EXCEPT ![r] = i]
    /\ Recalculated(r, Row(r), Evaluate(i))
    /\ displaced' = displaced \ {r}
    /\ End(p)
    /\ UNCHANGED <<library, results>>

-----------------------------------------------------------------------------
(* ActivityDataService.bulkUpdateProvince: find the electricity records,   *)
(* then change them, whatever they have become.                            *)

ProvinceFind(p, R) ==
    /\ pc[p] = "idle"
    /\ \E r \in R : input[r] \in Electric
    /\ target' = [target EXCEPT ![p] = {r \in R : input[r] \in Electric}]
    /\ pc' = [pc EXCEPT ![p] = "moving"]
    /\ UNCHANGED <<library, rowVars, results, todo, read, fresh, doomed, displaced>>

Moving(p) == {r \in target[p] : Exists(r)}

(* (Mistake: the records keep their status.)                               *)
ProvinceCommit_KeepsStatus(p) ==
    /\ pc[p] = "moving"
    /\ \A r \in Moving(p) : Free(r)
    /\ input' = [r \in Records |-> IF r \in Moving(p) THEN Relocated[input[r]] ELSE input[r]]
    /\ displaced' = displaced \cup
          {r \in Moving(p) : \E q \in Requests : pc[q] = "evaluated" /\ r \in target[q]}
    /\ End(p)
    /\ UNCHANGED <<library, status, version, snapshot, history, results>>

ProvinceCommit(p) ==
    /\ pc[p] = "moving"
    /\ \A r \in Moving(p) : Free(r)
    /\ input' = [r \in Records |-> IF r \in Moving(p) THEN Relocated[input[r]] ELSE input[r]]
    /\ status' = [r \in Records |->
          IF r \in Moving(p) THEN "PENDING_RECALCULATION" ELSE status[r]]
    /\ displaced' = displaced \cup
          {r \in Moving(p) : \E q \in Requests : pc[q] = "evaluated" /\ r \in target[q]}
    /\ End(p)
    /\ UNCHANGED <<library, version, snapshot, history, results>>

(* ActivityDataService.bulkUpdateFacility: the records it found and that    *)
(* are still there lose their facility, and with it perhaps their province.*)
(* They keep status, version and result.                                   *)
BulkUpdateFacility(R) ==
    /\ \A r \in R : Exists(r) /\ Free(r)
    /\ input' = [r \in Records |-> IF r \in R THEN Unhoused[input[r]] ELSE input[r]]
    /\ displaced' = displaced \cup {r \in R : Unhoused[input[r]] # input[r]}
    /\ UNCHANGED <<library, status, version, snapshot, history, results, requestVars>>

-----------------------------------------------------------------------------
(* MetricsService.calculate: for every record found and every metric asked *)
(* for, one after the other.                                               *)

CalculateStart(p, R, M) ==
    /\ pc[p] = "idle"
    /\ \E r \in R : Exists(r)
    /\ todo' = [todo EXCEPT ![p] =
          {[of |-> r, metric |-> m, input |-> input[r]] : r \in {r \in R : Exists(r)}, m \in M}]
    /\ pc' = [pc EXCEPT ![p] = "calculating"]
    /\ UNCHANGED <<library, rowVars, results, target, read, fresh, doomed, displaced>>

(* A carbon result: the transaction reads the record again and evaluates.  *)
CarbonRead(p, t) ==
    /\ pc[p] = "calculating"
    /\ t \in todo[p] /\ t.metric = "CARBON_EMISSION"
    /\ Exists(t.of)
    /\ todo' = [todo EXCEPT ![p] = @ \ {t}]
    /\ target' = [target EXCEPT ![p] = {t.of}]
    /\ read' = [read EXCEPT ![p] = Row(t.of)]
    /\ fresh' = [fresh EXCEPT ![p] = Evaluate(input[t.of])]
    /\ pc' = [pc EXCEPT ![p] = "evaluated"]
    /\ UNCHANGED <<library, rowVars, results, doomed, displaced>>

(* It deletes the previous result, unless there is no new one.             *)
Outdated(p, r) == IF fresh[p] = Nothing THEN {} ELSE ResultsOf(r, "CARBON_EMISSION")

(* (Mistakes: the version is not compared; the record is not locked.)      *)
CarbonWrite_AnyVersion(p, r) ==
    /\ pc[p] = "evaluated"
    /\ target[p] = {r} /\ Exists(r) /\ Free(r)
    /\ Unlocked(Outdated(p, r))
    /\ doomed' = [doomed EXCEPT ![p] = @ \cup Outdated(p, r)]
    /\ pc' = [pc EXCEPT ![p] = "writing"]
    /\ UNCHANGED <<library, rowVars, results, todo, target, read, fresh, displaced>>

CarbonWrite_Unlocked(p, r) ==
    /\ pc[p] = "evaluated"
    /\ target[p] = {r} /\ Exists(r)
    /\ version[r] = read[p].version
    /\ Unlocked(Outdated(p, r))
    /\ doomed' = [doomed EXCEPT ![p] = @ \cup Outdated(p, r)]
    /\ pc' = [pc EXCEPT ![p] = "writing"]
    /\ UNCHANGED <<library, rowVars, results, todo, target, read, fresh, displaced>>

(* It updates the record, if nobody has recalculated it, and so locks it.  *)
CarbonWrite(p, r) ==
    /\ pc[p] = "evaluated"
    /\ target[p] = {r} /\ Exists(r) /\ Free(r)
    /\ version[r] = read[p].version
    /\ Unlocked(Outdated(p, r))
    /\ doomed' = [doomed EXCEPT ![p] = @ \cup Outdated(p, r)]
    /\ pc' = [pc EXCEPT ![p] = "writing"]
    /\ UNCHANGED <<library, rowVars, results, todo, target, read, fresh, displaced>>

CarbonCommit(p, r) ==
    /\ pc[p] = "writing"
    /\ target[p] = {r}
    /\ Recalculated(r, read[p], fresh[p])
    /\ displaced' = IF input[r] = read[p].input THEN displaced \ {r} ELSE displaced
    /\ results' = IF fresh[p] = Nothing THEN results
                  ELSE (results \ doomed[p]) \cup
                       {[of |-> r, metric |-> "CARBON_EMISSION", by |-> p, input |-> fresh[p].input]}
    /\ pc' = [pc EXCEPT ![p] = "calculating"]
    /\ target' = [target EXCEPT ![p] = {}]
    /\ read' = [read EXCEPT ![p] = Unread]
    /\ fresh' = [fresh EXCEPT ![p] = Nothing]
    /\ UNCHANGED <<library, input, todo, doomed>>

(* Another metric: from the record as it was found at first.  No factor:   *)
(* the next one.                                                           *)
MetricSkip(p, t) ==
    /\ pc[p] = "calculating"
    /\ t \in todo[p] /\ t.metric # "CARBON_EMISSION"
    /\ todo' = [todo EXCEPT ![p] = @ \ {t}]
    /\ UNCHANGED <<library, rowVars, results, pc, target, read, fresh, doomed, displaced>>

(* (Mistake: the result is added to those that are there.)                 *)
MetricDelete_Nothing(p, t) ==
    /\ pc[p] = "calculating"
    /\ t \in todo[p] /\ t.metric # "CARBON_EMISSION"
    /\ Unlocked(ResultsOf(t.of, t.metric))
    /\ doomed' = [doomed EXCEPT ![p] = @ \cup ResultsOf(t.of, t.metric)]
    /\ todo' = [todo EXCEPT ![p] = @ \ {t}]
    /\ target' = [target EXCEPT ![p] = {t.of}]
    /\ read' = [read EXCEPT ![p].input = t.input]
    /\ pc' = [pc EXCEPT ![p] = "replacing"]
    /\ UNCHANGED <<library, rowVars, results, fresh, displaced>>

(* The old result goes in one statement, ...                               *)
MetricDelete(p, t) ==
    /\ pc[p] = "calculating"
    /\ t \in todo[p] /\ t.metric # "CARBON_EMISSION"
    /\ Unlocked(ResultsOf(t.of, t.metric))
    /\ doomed' = [doomed EXCEPT ![p] = @ \cup ResultsOf(t.of, t.metric)]
    /\ results' = results \ ResultsOf(t.of, t.metric)
    /\ todo' = [todo EXCEPT ![p] = @ \ {t}]
    /\ target' = [target EXCEPT ![p] = {t.of}]
    /\ read' = [read EXCEPT ![p].input = t.input]
    /\ pc' = [pc EXCEPT ![p] = "replacing"]
    /\ UNCHANGED <<library, rowVars, fresh, displaced>>

(* ... the new one comes in another.                                       *)
MetricCreate(p, r) ==
    /\ pc[p] = "replacing"
    /\ target[p] = {r} /\ Exists(r)
    /\ results' = results \cup
          {[of |-> r, metric |-> "ENERGY_CONSUMPTION", by |-> p, input |-> read[p].input]}
    /\ pc' = [pc EXCEPT ![p] = "calculating"]
    /\ target' = [target EXCEPT ![p] = {}]
    /\ read' = [read EXCEPT ![p] = Unread]
    /\ UNCHANGED <<library, rowVars, todo, fresh, doomed, displaced>>

CalculateEnd(p) ==
    /\ pc[p] = "calculating" /\ todo[p] = {}
    /\ End(p)
    /\ UNCHANGED <<library, rowVars, results, displaced>>

-----------------------------------------------------------------------------
(* Deletion.  A metric result of a deleted record stays, of no record.     *)
Deleted(R) ==
    /\ input' = [r \in Records |-> IF r \in R THEN NoInput ELSE input[r]]
    /\ status' = [r \in Records |-> IF r \in R /\ Exists(r) THEN "deleted" ELSE status[r]]
    /\ UNCHANGED <<version, snapshot, history>>

Unlinked(X, R) == {IF x.of \in R THEN [x EXCEPT !.of = NoRecord] ELSE x : x \in X}

(* ActivityDataService.remove, bulkDelete.                                 *)
Remove(r) ==
    /\ Exists(r) /\ Free(r)
    /\ Unlocked({x \in results : x.of = r})
    /\ Deleted({r})
    /\ results' = Unlinked(results, {r})
    /\ UNCHANGED <<library, requestVars, displaced>>

(* ActivityDataService.clearForOrganization, resetDemoDataForOrganization, *)
(* DocumentsService.remove: first the metric results of the records found, *)
(* then the records.                                                       *)
ClearScan(p, S) ==
    /\ pc[p] = "idle"
    /\ target' = [target EXCEPT ![p] = S]
    /\ Unlocked({x \in results : x.of \in S})
    /\ doomed' = [doomed EXCEPT ![p] = {x \in results : x.of \in S}]
    /\ pc' = [pc EXCEPT ![p] = "clearing"]
    /\ UNCHANGED <<library, rowVars, results, todo, read, fresh, displaced>>

ClearCommit(p) ==
    /\ pc[p] = "clearing"
    /\ \A r \in target[p] : Free(r)
    /\ Deleted(target[p])
    /\ results' = Unlinked(results \ doomed[p], target[p])
    /\ End(p)
    /\ UNCHANGED <<library, displaced>>

(* A statement rejects -- because the record is gone or was recalculated   *)
(* meanwhile, or for any other reason -- or the process ends.  What has    *)
(* been committed stays.                                                   *)
Abort(p) ==
    /\ pc[p] \notin {"idle", "done"}
    /\ End(p)
    /\ UNCHANGED <<library, rowVars, results, displaced>>

Calculating(p) ==
    \/ \E R \in SUBSET Records, M \in SUBSET Metrics : CalculateStart(p, R, M)
    \/ \E t \in todo[p] : CarbonRead(p, t) \/ MetricSkip(p, t) \/ MetricDelete(p, t)
    \/ \E r \in Records : CarbonWrite(p, r) \/ CarbonCommit(p, r) \/ MetricCreate(p, r)
    \/ CalculateEnd(p)

Next ==
    \/ \E l \in Libraries : EditLibrary(l)
    \/ \E r \in Records : Remove(r) \/ \E i \in Inputs : Create(r, i)
    \/ \E R \in SUBSET Records : BulkUpdateFacility(R)
    \/ \E p \in Requests :
          \/ \E r \in Records, i \in Inputs : Update(p, r, i)
          \/ \E R \in SUBSET Records : ProvinceFind(p, R)
          \/ ProvinceCommit(p)
          \/ Calculating(p)
          \/ \E S \in Scopes : ClearScan(p, S)
          \/ ClearCommit(p)
          \/ Abort(p)

Spec == Init /\ [][Next]_vars

-----------------------------------------------------------------------------
HistoryEntry == [version : Nat, old : Snapshots, new : Snapshots]

TypeOK ==
    /\ library \in Libraries
    /\ input \in [Records -> Inputs \cup {NoInput}]
    /\ status \in [Records -> Status]
    /\ version \in [Records -> Nat]
    /\ snapshot \in [Records -> Snapshots]
    /\ history \in [Records -> Seq(HistoryEntry)]
    /\ results \subseteq Metric
    /\ pc \in [Requests -> {"idle", "done", "moving", "calculating", "evaluated",
                            "writing", "replacing", "clearing"}]
    /\ todo \in [Requests -> SUBSET [of : Records, metric : Metrics, input : Inputs]]
    /\ target \in [Requests -> SUBSET Records]
    /\ read \in [Requests -> [input : Inputs \cup {NoInput}, version : Nat, snapshot : Snapshots]]
    /\ fresh \in [Requests -> Snapshots]
    /\ doomed \in [Requests -> SUBSET Metric]
    /\ displaced \subseteq Records
    /\ \A r \in Records : Exists(r) => version[r] > 0

(* Every calculation that is committed has a number of its own and is in   *)
(* the audit log with the result it replaced, however calculations and     *)
(* edits overlap: "previous result retained in audit history".             *)
Ledger == INSTANCE CalculationLedger WITH Results <- Snapshots, current <- snapshot

LedgerKept == Ledger!Spec

(* A record has one carbon result at most, however often and by however    *)
(* many it is calculated: totals do not count it twice.                    *)
OneCarbonResult ==
    \A x, y \in results :
        (/\ x.metric = "CARBON_EMISSION" /\ y.metric = "CARBON_EMISSION"
         /\ x.of = y.of /\ x.of # NoRecord) => x = y

(* Other metrics have two only from calculations that overlapped: neither  *)
(* found the result of the other when it deleted the previous one.         *)
DoubleMetricsOnlyFromOverlap ==
    \A x, y \in results :
        (/\ x.metric = "ENERGY_CONSUMPTION" /\ y.metric = "ENERGY_CONSUMPTION"
         /\ x.of = y.of /\ x.of # NoRecord /\ x # y) =>
             x.by # y.by /\ x \notin doomed[y.by]

(* A record that says CALCULATED was calculated from what it says, unless  *)
(* its province was changed between the reading and the writing of its     *)
(* last calculation, or it lost its facility since: neither counts as a    *)
(* new version, and the second leaves the status alone.                    *)
CalculatedFromItsInput ==
    \A r \in Records \ displaced : status[r] = "CALCULATED" => snapshot[r].input = input[r]

(* persistedCalculationDetail: what reports show of a record is its        *)
(* snapshot, or else its carbon result.                                    *)
ReportedAsCalculated(r) ==
    Exists(r) /\ (snapshot[r] # Nothing \/ ResultsOf(r, "CARBON_EMISSION") # {})

(* "Province changed. Recalculate to refresh factor matching and           *)
(* emissions": a record that waits for its calculation, or has no factor,  *)
(* is not reported as calculated.                                          *)
ReportsFollowStatus ==
    \A r \in Records : ReportedAsCalculated(r) => status[r] = "CALCULATED"
=============================================================================
