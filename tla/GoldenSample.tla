---------------------------- MODULE GoldenSample ----------------------------
(***************************************************************************)
(* The sample dataset of a pilot workspace:                                *)
(* ensureGoldenSampleDataForWorkspace counts the sample records, and when  *)
(* there are not as many as there should be deletes and creates them all;  *)
(* then it does the same for the sample report.                            *)
(*                                                                         *)
(* It runs inside the transaction that invites a reviewer, statement by    *)
(* statement on the database when one logs in, and from a script.  A       *)
(* transaction sees its own writes and what others have committed.         *)
(***************************************************************************)
EXTENDS FiniteSets, Naturals

CONSTANTS
    Seeders,    \* who ensures the dataset: requests and runs of the script
    Places,     \* workspaces
    NotSeeding,
    Items       \* GOLDEN_SAMPLE_RECORDS

Row == [ws : Places, by : Seeders, item : Items]
SampleReport == [ws : Places, by : Seeders]

Steps == {"count", "delete", "create", "report", "write", "ready"}
Progress == [ws : Places, step : Steps, force : BOOLEAN, gone : SUBSET Row]

VARIABLES
    samples,   \* ActivityData with the sample's source file; in open transactions too
    reports,   \* Report with the sample's title; likewise
    seeding,   \* where a seeder is, in which workspace, with what it will have deleted
    open,      \* the seeders that run inside a transaction
    crowded,   \* history: workspaces two of them were busy with at a time
    disturbed  \* history: seeders some sample was deleted under

sampleVars == <<samples, reports, seeding, open, crowded, disturbed>>

SampleInit ==
    /\ samples = {}
    /\ reports = {}
    /\ seeding = [p \in Seeders |-> NotSeeding]
    /\ open = {}
    /\ crowded = {}
    /\ disturbed = {}

Seeding(p) == seeding[p] # NotSeeding
At(p, step) == Seeding(p) /\ seeding[p].step = step
SeedingIn(w) == {p \in Seeders : Seeding(p) /\ seeding[p].ws = w}

(* The rows a statement of p sees, and those of everybody else.            *)
Visible(p, table) == {r \in table : r.ws = seeding[p].ws /\ r.by \notin open \ {p}}
InView(p) == Visible(p, samples) \ seeding[p].gone
Committed(w, table) == {r \in table : r.ws = w /\ r.by \notin open}

GoTo(p, step) == seeding' = [seeding EXCEPT ![p].step = step]

(* inTransaction: createPilotReviewer.  force: the script's option.        *)
SeedBegin(p, w, inTransaction, force) ==
    /\ ~ Seeding(p)
    /\ seeding' = [seeding EXCEPT ![p] =
                      [ws |-> w, step |-> "count", force |-> force, gone |-> {}]]
    /\ open' = IF inTransaction THEN open \cup {p} ELSE open
    /\ crowded' = IF SeedingIn(w) = {} THEN crowded ELSE crowded \cup {w}
    /\ UNCHANGED <<samples, reports, disturbed>>

(* (Mistake: what is there is left, and the dataset created next to it.)   *)
NextStep_NeverDelete(p) ==
    IF Cardinality(InView(p)) = Cardinality(Items) /\ ~ seeding[p].force THEN "report"
    ELSE "create"

NextStep(p) ==
    IF Cardinality(InView(p)) = Cardinality(Items) /\ ~ seeding[p].force THEN "report"
    ELSE IF InView(p) # {} \/ seeding[p].force THEN "delete"
    ELSE "create"

SeedCount(p) ==
    /\ At(p, "count")
    /\ GoTo(p, NextStep(p))
    /\ UNCHANGED <<samples, reports, open, crowded, disturbed>>

SeedDelete(p) ==
    /\ At(p, "delete")
    /\ IF p \in open
       THEN /\ seeding' = [seeding EXCEPT ![p].step = "create", ![p].gone = InView(p)]
            /\ UNCHANGED samples
       ELSE /\ GoTo(p, "create")
            /\ samples' = samples \ InView(p)
    /\ UNCHANGED <<reports, open, crowded, disturbed>>

SeedCreate(p) ==
    /\ At(p, "create")
    /\ samples' = samples \cup {[ws |-> seeding[p].ws, by |-> p, item |-> i] : i \in Items}
    /\ GoTo(p, "report")
    /\ UNCHANGED <<reports, open, crowded, disturbed>>

(* ensureGoldenSampleReport.  (Mistake: it does not look.)                 *)
ReportCount_Blind(p) ==
    /\ At(p, "report")
    /\ GoTo(p, "write")
    /\ UNCHANGED <<samples, reports, open, crowded, disturbed>>

ReportCount(p) ==
    /\ At(p, "report")
    /\ reports' = IF seeding[p].force THEN reports \ Visible(p, reports) ELSE reports
    /\ GoTo(p, IF seeding[p].force \/ Visible(p, reports) = {} THEN "write" ELSE "ready")
    /\ UNCHANGED <<samples, open, crowded, disturbed>>

ReportCreate(p) ==
    /\ At(p, "write")
    /\ reports' = reports \cup {[ws |-> seeding[p].ws, by |-> p]}
    /\ GoTo(p, "ready")
    /\ UNCHANGED <<samples, open, crowded, disturbed>>

SeedStep(p) ==
    \/ SeedCount(p) \/ SeedDelete(p) \/ SeedCreate(p) \/ ReportCount(p) \/ ReportCreate(p)

(* It returns; a transaction it ran in commits.                            *)
SeedEnd(p) ==
    /\ At(p, "ready")
    /\ samples' = samples \ seeding[p].gone
    /\ seeding' = [seeding EXCEPT ![p] = NotSeeding]
    /\ open' = open \ {p}
    /\ UNCHANGED <<reports, crowded, disturbed>>

(* A statement fails or the process stops: what was not in a transaction   *)
(* stays as it is.                                                         *)
SeedLost(P) ==
    /\ samples' = {r \in samples : r.by \notin P \cap open}
    /\ reports' = {r \in reports : r.by \notin P \cap open}
    /\ seeding' = [p \in Seeders |-> IF p \in P THEN NotSeeding ELSE seeding[p]]
    /\ open' = open \ P
    /\ UNCHANGED <<crowded, disturbed>>

(* ActivityDataService.remove, bulkDelete and ReportsService.remove: the   *)
(* sample is data like any other.                                          *)
UserDeletes(w) ==
    /\ \/ \E R \in SUBSET Committed(w, samples) \ {{}} :
             samples' = samples \ R /\ UNCHANGED reports
       \/ \E r \in Committed(w, reports) :
             reports' = reports \ {r} /\ UNCHANGED samples
    /\ disturbed' = disturbed \cup SeedingIn(w)
    /\ UNCHANGED <<seeding, open, crowded>>

-----------------------------------------------------------------------------
SampleTypeOK ==
    /\ samples \subseteq Row
    /\ reports \subseteq SampleReport
    /\ seeding \in [Seeders -> {NotSeeding} \cup Progress]
    /\ open \subseteq Seeders /\ \A p \in open : Seeding(p)
    /\ crowded \subseteq Places
    /\ disturbed \subseteq Seeders

(* Whoever ensures the dataset leaves it complete behind: every sample     *)
(* record once, and a report.  What records were deleted before, and where *)
(* an earlier run of it was cut off, makes no difference; only two at a    *)
(* time, or a deletion under its feet, do.                                 *)
SeedingRepairs ==
    [][\A p \in Seeders :
          SeedEnd(p) /\ seeding[p].ws \notin crowded /\ p \notin disturbed =>
              LET rows == {r \in samples' : r.ws = seeding[p].ws}
              IN  /\ \A i \in Items : \E r \in rows : r.item = i
                  /\ Cardinality(rows) = Cardinality(Items)
                  /\ \E r \in reports' : r.ws = seeding[p].ws]_sampleVars

(* A sample record, or the report, is there twice only if two ensured the  *)
(* dataset at a time.                                                      *)
CopiesOnlyFromCrowds ==
    \A w \in Places \ crowded :
        /\ \A r, s \in Committed(w, samples) : r.item = s.item => r = s
        /\ \A r, s \in Committed(w, reports) : r = s
=============================================================================
