------------------------- MODULE SpreadsheetStaging -------------------------
(***************************************************************************)
(* Spreadsheets whose rows the client parses: SpreadsheetImportService     *)
(* .saveReviewRows stages the rows of one import batch under one source    *)
(* document, and the staged branch of confirmImport imports from them.     *)
(*                                                                         *)
(* Both are transactions at READ COMMITTED that update rows one by one:    *)
(* an updated row stays locked until the transaction ends, and another     *)
(* transaction that wants to update it waits.  The locks are modelled,     *)
(* because the staged branch owes them what it promises.                   *)
(***************************************************************************)
EXTENDS ImportIdentity

CONSTANTS
    Requests,    \* HTTP requests; each is made once
    Docs,        \* document ids, in the order in which they are handed out
    NoDoc,
    Sheets,      \* the sheets of the workbook, by position
    Unstaged,    \* what a slot without a review row holds
    Invalid,     \* contents that cannot be imported: no quantity, no date, ...
    Evaluation,  \* Evaluation[c]: the review status the calculation gives content c
    Length,      \* the number of physical rows of the workbook
    Listed,      \* Listed[s]: the place of a row when the review rows are listed
    Saves,       \* the rows clients stage, and in which order
    Confirms,    \* the rows clients confirm; none means "what is ready"
    Exclusive    \* TRUE: a client waits for the answer before the next request

(* A physical row of the workbook.                                         *)
Slots == Sheets \X SourceRows

(* An order of the rows: the place of each of them.                        *)
Orders == {o \in [Slots -> 1..Length] : \A s, t \in Slots : o[s] = o[t] => s = t}

(* sourceRow, a text, ascending ("11" before "2"); rows of one number by   *)
(* their creation, the sheets in turn.                                     *)
Before(s, t) == Listed[s] < Listed[t]

ReviewStatus == {"READY", "TRACKED_ONLY", "NEEDS_REVIEW"}
Row == [status : ReviewStatus, content : Contents]
StagedRow == [doc : Docs, status : ReviewStatus, content : Contents]

ASSUME StagingAssumption ==
    /\ SourceRows \subseteq Nat /\ Sheets \subseteq Nat /\ Docs \subseteq Nat
    /\ NoDoc \notin Docs
    /\ Unstaged \notin StagedRow
    /\ Invalid \subseteq Contents
    /\ Evaluation \in [Contents -> ReviewStatus]
    /\ Length \in Nat /\ Listed \in Orders
    /\ \A in \in Saves \cup Confirms : DOMAIN in.rows \subseteq Slots /\ in.order \in Orders
    /\ \A in \in Saves : in.rows \in [DOMAIN in.rows -> Row]
    /\ \A in \in Confirms : in.rows \in [DOMAIN in.rows -> Contents \ Invalid]
    /\ Exclusive \in BOOLEAN

VARIABLES
    status,      \* Document.status of the batch's source documents; "none": no row
    extraction,  \* DocumentExtraction.extractedRows
    staged,      \* SpreadsheetImportReviewRow by idempotency key
    records,     \* ActivityData
    pc, target,
    input,       \* the rows of the request, by slot
    order,       \* the order in which the request goes through them
    rows,        \* the extraction rows a confirmation has read
    view,        \* the review rows a confirmation has read
    held,        \* the review rows a transaction has updated and keeps locked
    owns,        \* whether it has updated, and locked, its document
    scan,        \* the records it has read
    overlapped   \* history: a request was made while another was handled

tables == <<status, extraction, staged, records>>
vars == <<tables, pc, target, input, order, rows, view, held, owns, scan, overlapped>>

Record == [doc : Docs, by : Requests, slot : Slots, fromStaging : BOOLEAN, of : Activity]

Sources == {d \in Docs : status[d] # "none"}
RecordsOf(d) == {r \in records : r.doc = d}
RowsOf(d) == [s \in Slots |->
                IF staged[s] # Unstaged /\ staged[s].doc = d THEN staged[s] ELSE Unstaged]

(* (Mistake: an activity that names no row.)                               *)
Act_Rowless(s, c) == [row |-> NoRow, content |-> c]

(* The activity a row becomes: its key does not know the sheet.            *)
Act(s, c) == [row |-> s[2], content |-> c]

(* isSpreadsheetReviewRowImportEligible, and nothing is missing.           *)
Eligible(r) == r # Unstaged /\ r.status # "NEEDS_REVIEW" /\ r.content \notin Invalid

SavePcs == {"sourcing", "staging"}
ConfirmPcs == {"confirming", "revalidating", "scanned"}
InFlight(p) == pc[p] \in SavePcs \cup ConfirmPcs
MayStart == Exclusive => \A p \in Requests : ~ InFlight(p)

Init ==
    /\ status = [d \in Docs |-> "none"]
    /\ extraction = [d \in Docs |-> {}]
    /\ staged = [s \in Slots |-> Unstaged]
    /\ records = {}
    /\ pc = [p \in Requests |-> "idle"]
    /\ target = [p \in Requests |-> NoDoc]
    /\ input = [p \in Requests |-> [s \in {} |-> Unstaged]]
    /\ order = [p \in Requests |-> Listed]
    /\ rows = [p \in Requests |-> {}]
    /\ view = [p \in Requests |-> [s \in Slots |-> Unstaged]]
    /\ held = [p \in Requests |-> {}]
    /\ owns = [p \in Requests |-> FALSE]
    /\ scan = [p \in Requests |-> {}]
    /\ overlapped = FALSE

GoTo(p, step) == pc' = [pc EXCEPT ![p] = step]

(* Commit or rollback: the locks are released.                             *)
End(p) ==
    /\ GoTo(p, "done")
    /\ held' = [held EXCEPT ![p] = {}]
    /\ owns' = [owns EXCEPT ![p] = FALSE]

RowFree(p, s) == \A q \in Requests : q # p => s \notin held[q]
DocFree(p, d) == \A q \in Requests : q # p => ~ (owns[q] /\ target[q] = d)

(* Row by row: which of the remaining rows is updated next.                *)
(* (Mistake: the updates are issued together and arrive in any order.)     *)
NextRows_Any(p, remaining) == remaining

NextRows(p, remaining) ==
    {s \in remaining : \A t \in remaining : order[p][s] <= order[p][t]}

-----------------------------------------------------------------------------
(* saveReviewRows                                                          *)

Oldest(D) == {d \in D : \A e \in D : d <= e}

(* findFirst by importBatchId.                                             *)
SaveFind(p, in) ==
    /\ pc[p] = "idle"
    /\ MayStart
    /\ input' = [input EXCEPT ![p] = in.rows]
    /\ order' = [order EXCEPT ![p] = in.order]
    /\ \E d \in IF Sources = {} THEN {NoDoc} ELSE Oldest(Sources) :
          target' = [target EXCEPT ![p] = d]
    /\ GoTo(p, "sourcing")
    /\ overlapped' = (overlapped \/ \E q \in Requests : InFlight(q))
    /\ UNCHANGED <<tables, rows, view, held, owns, scan>>

(* The document is updated, or created with the next id.                   *)
SaveSource(p) ==
    /\ pc[p] = "sourcing"
    /\ \/ /\ target[p] # NoDoc
          /\ DocFree(p, target[p])
          /\ UNCHANGED target
       \/ /\ target[p] = NoDoc
          /\ \E d \in Docs \ Sources :
                /\ \A q \in Requests : target[q] # d
                /\ target' = [target EXCEPT ![p] = d]
    /\ owns' = [owns EXCEPT ![p] = TRUE]
    /\ GoTo(p, "staging")
    /\ UNCHANGED <<tables, input, order, rows, view, held, scan, overlapped>>

(* One upsert.                                                             *)
SaveRow(p, s) ==
    /\ pc[p] = "staging"
    /\ s \in NextRows(p, DOMAIN input[p] \ held[p])
    /\ RowFree(p, s)
    /\ held' = [held EXCEPT ![p] = @ \cup {s}]
    /\ UNCHANGED <<tables, pc, target, input, order, rows, view, owns, scan, overlapped>>

SaveCommit(p) ==
    /\ pc[p] = "staging"
    /\ held[p] = DOMAIN input[p]
    /\ LET in == input[p]
           d == target[p]
       IN  /\ staged' = [s \in Slots |->
                 IF s \in DOMAIN in
                 THEN [doc |-> d, status |-> in[s].status, content |-> in[s].content]
                 ELSE staged[s]]
           /\ extraction' = [extraction EXCEPT ![d] =
                 {Act(s, in[s].content) : s \in DOMAIN in}]
           /\ status' = [status EXCEPT ![d] =
                 IF \E s \in DOMAIN in : in[s].status = "NEEDS_REVIEW"
                 THEN "REVIEW_REQUIRED" ELSE "PROCESSED"]
    /\ End(p)
    /\ UNCHANGED <<records, target, input, order, rows, view, scan, overlapped>>

-----------------------------------------------------------------------------
(* confirmImport of a source document                                      *)

ConfirmRead(p, d, in) ==
    /\ pc[p] = "idle"
    /\ MayStart
    /\ d \in Sources
    /\ input' = [input EXCEPT ![p] = in.rows]
    /\ order' = [order EXCEPT ![p] = in.order]
    /\ target' = [target EXCEPT ![p] = d]
    /\ rows' = [rows EXCEPT ![p] = extraction[d]]
    /\ GoTo(p, "confirming")
    /\ overlapped' = (overlapped \/ \E q \in Requests : InFlight(q))
    /\ UNCHANGED <<tables, view, held, owns, scan>>

(* The transaction reads the review rows.  A request without rows confirms *)
(* those that are ready, as they are listed.                               *)
ConfirmReview(p) ==
    /\ pc[p] = "confirming"
    /\ view' = [view EXCEPT ![p] = RowsOf(target[p])]
    /\ input' = [input EXCEPT ![p] =
          IF DOMAIN @ # {} THEN @
          ELSE LET ready == {s \in Slots : Eligible(RowsOf(target[p])[s])}
               IN  [s \in ready |-> RowsOf(target[p])[s].content]]
    /\ order' = [order EXCEPT ![p] = IF DOMAIN input[p] # {} THEN @ ELSE Listed]
    /\ GoTo(p, "revalidating")
    /\ UNCHANGED <<tables, target, rows, held, owns, scan, overlapped>>

(* (Mistake: the staged rows are imported without being revalidated.)      *)
Matched_None(p) == {}

(* The confirmed rows that are staged, ...                                 *)
Matched(p) == {s \in DOMAIN input[p] : view[p][s] # Unstaged}

(* ... which are revalidated and updated one after the other.              *)
Revalidate(p, s) ==
    /\ pc[p] = "revalidating"
    /\ s \in NextRows(p, Matched(p) \ held[p])
    /\ RowFree(p, s)
    /\ held' = [held EXCEPT ![p] = @ \cup {s}]
    /\ UNCHANGED <<tables, pc, target, input, order, rows, view, owns, scan, overlapped>>

(* Only then are the existing records read.                                *)
ConfirmScan(p) ==
    /\ pc[p] = "revalidating"
    /\ held[p] = Matched(p)
    /\ scan' = [scan EXCEPT ![p] = RecordsOf(target[p])]
    /\ GoTo(p, "scanned")
    /\ UNCHANGED <<tables, target, input, order, rows, view, held, owns, overlapped>>

(* A revalidated row has the confirmed content and the calculation's       *)
(* verdict on it.                                                          *)
Revalidated(p, r, s) ==
    [r EXCEPT !.status = Evaluation[input[p][s]], !.content = input[p][s]]

Reviewed(p) == [s \in Slots |->
    IF s \in held[p] THEN Revalidated(p, view[p][s], s) ELSE view[p][s]]

(* The slots imported: of the revalidated rows those that are eligible,    *)
(* the first listed of every row number; when no confirmed row is staged,  *)
(* the rows of the request, the last one of every number (ImportIdentity's *)
(* Merged).                                                                *)
ImportedSlots(p) ==
    LET keys == {StoredKey(r.of) : r \in scan[p]}
        ready == {s \in held[p] : Eligible(Reviewed(p)[s])}
        fresh(S) == {s \in S : ~ Covered(Act(s, input[p][s]), keys)}
    IN  IF held[p] # {}
        THEN {s \in fresh(ready) : \A t \in ready : t[2] = s[2] => ~ Before(t, s)}
        ELSE {s \in fresh(DOMAIN input[p]) :
                 \A t \in DOMAIN input[p] : t[2] = s[2] => order[p][t] <= order[p][s]}

Imported(p) ==
    {[doc |-> target[p], by |-> p, slot |-> s, fromStaging |-> view[p][s] # Unstaged,
      of |-> Act(s, input[p][s])] : s \in ImportedSlots(p)}

NeedsReview(rowsBySlot) ==
    {s \in Slots : rowsBySlot[s] # Unstaged /\ rowsBySlot[s].status = "NEEDS_REVIEW"}

(* remainingReviewCount > 0                                                *)
(* (Mistake: the rows are counted as the client staged them.)              *)
Remaining_Unrevalidated(p) == NeedsReview(view[p]) # {}

Remaining(p) ==
    IF \E s \in Slots : view[p][s] # Unstaged
    THEN NeedsReview(Reviewed(p)) # {}
    ELSE Unresolved(rows[p], {StoredKey(r.of) : r \in scan[p]}
                               \cup {RecordKey(r.of) : r \in Imported(p)}) # {}

ConfirmCommit(p) ==
    /\ pc[p] = "scanned"
    /\ DocFree(p, target[p])
    /\ records' = records \cup Imported(p)
    /\ staged' = [s \in Slots |->
          IF s \in held[p] THEN Revalidated(p, staged[s], s) ELSE staged[s]]
    /\ status' = [status EXCEPT ![target[p]] =
          IF Remaining(p) THEN "REVIEW_REQUIRED" ELSE "IMPORTED"]
    /\ End(p)
    /\ UNCHANGED <<extraction, target, input, order, rows, view, scan, overlapped>>

(* A rejecting statement, a timeout, a deadlock PostgreSQL resolves, or    *)
(* the end of the process: the transaction is rolled back.                 *)
Abort(p) ==
    /\ InFlight(p)
    /\ End(p)
    /\ UNCHANGED <<tables, target, input, order, rows, view, scan, overlapped>>

Next ==
    \E p \in Requests :
        \/ \E in \in Saves : SaveFind(p, in)
        \/ SaveSource(p)
        \/ \E s \in Slots : SaveRow(p, s) \/ Revalidate(p, s)
        \/ SaveCommit(p)
        \/ \E d \in Docs, in \in Confirms : ConfirmRead(p, d, in)
        \/ ConfirmReview(p) \/ ConfirmScan(p) \/ ConfirmCommit(p)
        \/ Abort(p)

Spec == Init /\ [][Next]_vars

-----------------------------------------------------------------------------
Inputs == UNION {[S -> Row \cup Contents] : S \in SUBSET Slots}

TypeOK ==
    /\ status \in [Docs -> {"none", "PROCESSED", "REVIEW_REQUIRED", "IMPORTED"}]
    /\ extraction \in [Docs -> SUBSET Activity]
    /\ staged \in [Slots -> StagedRow \cup {Unstaged}]
    /\ records \subseteq Record
    /\ pc \in [Requests -> {"idle", "done"} \cup SavePcs \cup ConfirmPcs]
    /\ target \in [Requests -> Docs \cup {NoDoc}]
    /\ input \in [Requests -> Inputs]
    /\ order \in [Requests -> Orders]
    /\ rows \in [Requests -> SUBSET Activity]
    /\ view \in [Requests -> [Slots -> StagedRow \cup {Unstaged}]]
    /\ held \in [Requests -> SUBSET Slots]
    /\ owns \in [Requests -> BOOLEAN]
    /\ scan \in [Requests -> SUBSET Record]
    /\ \A p \in Requests :
          /\ pc[p] \in SavePcs => input[p] \in [DOMAIN input[p] -> Row]
          /\ pc[p] \in ConfirmPcs => input[p] \in [DOMAIN input[p] -> Contents]
          /\ pc[p] \in ConfirmPcs \cup {"staging"} => target[p] \in Docs
          /\ held[p] # {} => pc[p] \in {"staging", "revalidating", "scanned"}
          /\ pc[p] = "scanned" => held[p] = Matched(p)
          /\ \A s \in Slots : view[p][s] # Unstaged => staged[s] # Unstaged

(* However confirmations overlap, a staged row is imported into its        *)
(* document once: whoever imports it has updated it before it looked for   *)
(* the record.                                                             *)
StagedRowImportedOnce ==
    \A r1, r2 \in records :
        (/\ r1.doc = r2.doc /\ r1.slot = r2.slot
         /\ r1.fromStaging /\ r2.fromStaging) => r1 = r2

(* The rows a transaction updates, and the one it is about to update.      *)
Wanted(p) == IF pc[p] = "staging" THEN DOMAIN input[p] ELSE Matched(p)

Awaits(p, s) ==
    /\ pc[p] \in {"staging", "revalidating"}
    /\ s \in NextRows(p, Wanted(p) \ held[p])

(* p waits for a lock that q holds: of its document, or of a row.          *)
WaitsFor(p, q) ==
    \/ /\ pc[p] \in {"sourcing", "scanned"} /\ target[p] # NoDoc
       /\ owns[q] /\ target[q] = target[p]
    \/ \E s \in held[q] : Awaits(p, s)

(* The requests of C go through their rows in parts of one order.          *)
OneOrder(C) ==
    \E o \in Orders : \A p \in C : \A s, t \in Wanted(p) :
        order[p][s] < order[p][t] => o[s] < o[t]

(* Requests wait in a circle, however many they are, only if they take     *)
(* their locks in two orders: a confirmation ends with the document, with  *)
(* which a save begins, or the clients sent their rows in orders that do   *)
(* not agree.  Requests without rows go by the listing and never deadlock  *)
(* among themselves.                                                       *)
DeadlockTakesTwoOrders ==
    \A C \in SUBSET Requests :
        C # {} /\ (\A p \in C : \E q \in C : WaitsFor(p, q)) =>
            (\E p \in C : pc[p] = "scanned") \/ ~ OneOrder(C)

(* "upserts duplicate submissions by source row identity": saving a batch  *)
(* again updates its one source document.  A second one comes only from    *)
(* requests that overlapped: both found none.                              *)
OneSourceDocument == ~ overlapped => \A d, e \in Sources : d = e

(* A document is not IMPORTED while a staged row of it needs review --     *)
(* unless one was staged while the document was being confirmed.           *)
ImportedNeedsNoReview ==
    ~ overlapped =>
        \A d \in Sources : status[d] = "IMPORTED" => NeedsReview(RowsOf(d)) = {}

(* What one request at a time may rely on: a batch has one document, and   *)
(* nothing of it is left to review once the document says IMPORTED.        *)
BatchIsSettled == OneSourceDocument /\ ImportedNeedsNoReview

(* A document is IMPORTED when everything staged for it is: a partial      *)
(* confirmation does not mark it "fully imported".                         *)
ImportedMeansEverything ==
    \A d \in Sources :
        status[d] = "IMPORTED" =>
            \A s \in Slots :
                RowsOf(d)[s] # Unstaged =>
                    \E r \in RecordsOf(d) : RecordKey(r.of) = <<"row", s[2]>>

(* What a confirmation finds eligible has a record of its own when it      *)
(* commits: "separate physical rows" are kept apart.                       *)
EligibleRowsAreImported ==
    [][\A p \in Requests :
          ConfirmCommit(p) =>
              \A s \in held[p] :
                  Eligible(Reviewed(p)[s]) =>
                      \E r \in records' : r.doc = target[p] /\ r.slot = s]_vars
=============================================================================
