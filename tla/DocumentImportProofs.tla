------------------------ MODULE DocumentImportProofs ------------------------
(* Theorems about DocumentImport, for every set of requests, documents,    *)
(* files, rows and confirmed lists.                                        *)
EXTENDS DocumentImport, TLAPS

-----------------------------------------------------------------------------
(* A confirmation creates activities of the request.                       *)
LEMMA ToCreateType ==
    ASSUME NEW s \in Seq(Activity), NEW K
    PROVE  ToCreate(s, K) \subseteq Activity
<1>1. Merged(s) \subseteq Activity
    BY DEF Merged
<1> QED
    BY <1>1 DEF ToCreate

(* At most one activity per key survives the merge.                        *)
LEMMA MergedIsUnique ==
    ASSUME NEW s \in Seq(Activity), NEW a \in Merged(s), NEW b \in Merged(s),
           RecordKey(a) = RecordKey(b)
    PROVE  a = b
<1>1. PICK i \in DOMAIN s :
          a = s[i] /\ \A k \in DOMAIN s : k > i => RecordKey(s[k]) # RecordKey(s[i])
    BY DEF Merged
<1>2. PICK j \in DOMAIN s :
          b = s[j] /\ \A k \in DOMAIN s : k > j => RecordKey(s[k]) # RecordKey(s[j])
    BY DEF Merged
<1>3. i \in Nat /\ j \in Nat
    OBVIOUS
<1>4. ~ (i > j) /\ ~ (j > i)
    BY <1>1, <1>2
<1> QED
    BY <1>1, <1>2, <1>3, <1>4

-----------------------------------------------------------------------------
(* TypeOK is inductive.                                                    *)
LEMMA TypeInit == Init => TypeOK
BY DEF Init, TypeOK, InFlight, ActivePcs, ExtractPcs, ConfirmPcs, WritingPcs, DocumentStatus

LEMMA TypeStep == TypeOK /\ [Next]_vars => TypeOK'
<1> SUFFICES ASSUME TypeOK, [Next]_vars PROVE TypeOK'
    OBVIOUS
<1> USE DEF TypeOK, InFlight, ActivePcs, ExtractPcs, ConfirmPcs, WritingPcs, DocumentStatus,
           documentVars, requestVars, End, GoTo, SetStatus, Live
<1>1. ASSUME NEW p \in Requests, Uploading(p) PROVE TypeOK'
    <2>1. CASE \E h \in Hashes : UploadRefused(p, h)
        BY <2>1 DEF UploadRefused
    <2>2. ASSUME NEW d \in Docs, NEW h \in Hashes, NEW k \in Kinds, NEW c \in BOOLEAN,
                 UploadCheck(p, d, h, k, c)
          PROVE  TypeOK'
        BY <2>2 DEF UploadCheck
    <2>3. CASE UploadCreate(p)
        BY <2>3 DEF UploadCreate
    <2> QED
        BY <1>1, <2>1, <2>2, <2>3 DEF Uploading
<1>2. ASSUME NEW p \in Requests, NEW d \in Docs, ExtractStart(p, d) PROVE TypeOK'
    BY <1>2 DEF ExtractStart
<1>3. ASSUME NEW p \in Requests, Extracting(p) PROVE TypeOK'
    <2>1. CASE ExtractFileMissing(p)
        BY <2>1 DEF ExtractFileMissing
    <2>2. CASE ExtractParse(p)
        <3>1. target[p] \in Docs /\ hash[target[p]] \in Hashes
            BY <2>2 DEF ExtractParse
        <3>2. FileRows[hash[target[p]]] \subseteq Activity
            BY <3>1, DocumentAssumption
        <3>3. \A act \in Activity : WithoutRow(act) \in Activity
            BY DEF Activity, WithoutRow
        <3>4. ParsedRows(target[p]) \subseteq Activity
            BY <3>2, <3>3 DEF ParsedRows
        <3> QED
            BY <2>2, <3>4 DEF ExtractParse
    <2>3. CASE ExtractUnreadable(p)
        BY <2>3 DEF ExtractUnreadable
    <2>4. CASE ExtractMalformedJson(p)
        BY <2>4 DEF ExtractMalformedJson
    <2>5. CASE ExtractCall(p)
        BY <2>5 DEF ExtractCall
    <2>6. ASSUME NEW result \in ProviderResults, ExtractAnswer(p, result) PROVE TypeOK'
        <3>1. result \subseteq Activity
            BY DocumentAssumption DEF Activity
        <3> QED
            BY <2>6, <3>1 DEF ExtractAnswer
    <2>7. CASE ExtractProviderError(p)
        BY <2>7 DEF ExtractProviderError
    <2>8. CASE ExtractSettle(p)
        BY <2>8 DEF ExtractSettle
    <2>9. CASE ExtractSave(p)
        BY <2>9 DEF ExtractSave
    <2>10. CASE ExtractLog(p)
        BY <2>10 DEF ExtractLog
    <2>11. CASE ExtractFail(p)
        BY <2>11 DEF ExtractFail
    <2>12. CASE ExtractGone(p)
        BY <2>12 DEF ExtractGone
    <2>13. CASE ExtractFault(p)
        <3>1. pc[p] \in ExtractPcs /\ (GoTo(p, "failing") \/ End(p))
              /\ UNCHANGED <<documentVars, target, scan>>
            BY <2>13 DEF ExtractFault
        <3>2. CASE GoTo(p, "failing")
            BY <3>1, <3>2
        <3>3. CASE End(p)
            BY <3>1, <3>3
        <3> QED
            BY <3>1, <3>2, <3>3
    <2> QED
        BY <1>3, <2>1, <2>2, <2>3, <2>4, <2>5, <2>6, <2>7, <2>8, <2>9, <2>10, <2>11,
           <2>12, <2>13 DEF Extracting
<1>4. ASSUME NEW p \in Requests, Confirming(p) PROVE TypeOK'
    <2>1. ASSUME NEW d \in Docs, NEW s \in Payloads, ConfirmRead(p, d, s) PROVE TypeOK'
        <3>1. s \in Seq(Activity)
            BY DocumentAssumption
        <3> QED
            BY <2>1, <3>1 DEF ConfirmRead
    <2>2. CASE ConfirmScan(p)
        BY <2>2 DEF ConfirmScan, RecordsOf
    <2>3. CASE ConfirmCommit(p)
        <3>1. ToCreate(payload[p], ImportedKeys(p)) \subseteq Activity
            BY ToCreateType
        <3>2. target[p] \in Docs
            BY <2>3 DEF ConfirmCommit
        <3>3. records' \subseteq Record
            BY <2>3, <3>1, <3>2 DEF ConfirmCommit, Record
        <3>4. StatusAfter(rows[p], KeysAfter(payload[p], ImportedKeys(p))) \in DocumentStatus
            BY DEF StatusAfter
        <3> QED
            BY <2>3, <3>3, <3>4 DEF ConfirmCommit
    <2>4. CASE ConfirmAbort(p)
        BY <2>4 DEF ConfirmAbort
    <2> QED
        BY <1>4, <2>1, <2>2, <2>3, <2>4 DEF Confirming
<1>5. ASSUME NEW p \in Requests, Removing(p) PROVE TypeOK'
    <2>1. ASSUME NEW d \in Docs, RemoveScan(p, d) PROVE TypeOK'
        BY <2>1 DEF RemoveScan, RecordsOf
    <2>2. CASE RemoveCommit(p)
        BY <2>2 DEF RemoveCommit
    <2>3. CASE RemoveAbort(p)
        BY <2>3 DEF RemoveAbort
    <2> QED
        BY <1>5, <2>1, <2>2, <2>3 DEF Removing
<1>6. ASSUME NEW d \in Docs, FileLost(d) PROVE TypeOK'
    BY <1>6 DEF FileLost
<1>7. ASSUME NEW r \in records, DeleteRecord(r) PROVE TypeOK'
    BY <1>7 DEF DeleteRecord
<1>8. CASE Crash
    BY <1>8 DEF Crash
<1>9. CASE UNCHANGED vars
    BY <1>9 DEF vars
<1> QED
    BY <1>1, <1>2, <1>3, <1>4, <1>5, <1>6, <1>7, <1>8, <1>9 DEF Next

(* Every variable keeps its type, a request in flight is about a document  *)
(* that was uploaded, and a document that was uploaded has a hash.         *)
THEOREM TypeCorrect == Spec => []TypeOK
BY TypeInit, TypeStep, PTL DEF Spec

-----------------------------------------------------------------------------
(* Three kinds of step, as far as records and transactions are concerned.  *)

(* A request is served: it reads, parses, waits, writes the status or the  *)
(* extraction, fails or gives up.                                          *)
Served(p) ==
    /\ InFlight(p)
    /\ \E x \in ExtractPcs \cup {"done"} : pc' = [pc EXCEPT ![p] = x]
    /\ UNCHANGED <<records, scan, target>>
    /\ \A d \in Docs : Live(d) => Live(d)'

(* A request about document d begins.                                      *)
Begins(p, d) ==
    /\ pc[p] = "idle"
    /\ Exclusive => ~ Busy(d)
    /\ target' = [target EXCEPT ![p] = d]
    /\ \/ pc' = [pc EXCEPT ![p] = "removing"] /\ scan' = [scan EXCEPT ![p] = RecordsOf(d)]
       \/ /\ \E x \in {"uploading", "started", "confirming"} : pc' = [pc EXCEPT ![p] = x]
          /\ scan' = scan
    /\ UNCHANGED records
    /\ \A e \in Docs : Live(e) => Live(e)'

(* Requests are answered at once, or all of them die.                      *)
Idles ==
    /\ \A p \in Requests : pc'[p] = pc[p] \/ pc'[p] = "done"
    /\ pc' \in [Requests -> {"idle", "done"} \cup ActivePcs]
    /\ UNCHANGED <<scan, target>>
    /\ records' \subseteq records
    /\ \A d \in Docs : Live(d) => Live(d)'

(* Every step is of one of these kinds or is one of the three that move    *)
(* records or read them inside a transaction.                              *)
LEMMA StepKinds ==
    ASSUME TypeOK, [Next]_vars
    PROVE  \/ \E p \in Requests :
                 \/ Served(p)
                 \/ \E d \in Docs : Begins(p, d)
                 \/ ConfirmScan(p) \/ ConfirmCommit(p) \/ RemoveCommit(p)
           \/ Idles
<1> USE DEF TypeOK, InFlight, ActivePcs, ExtractPcs, ConfirmPcs, WritingPcs, DocumentStatus,
           documentVars, requestVars, End, GoTo, SetStatus, Live
<1>1. ASSUME NEW p \in Requests, Uploading(p)
      PROVE  Idles \/ Served(p) \/ \E d \in Docs : Begins(p, d)
    <2>1. ASSUME NEW h \in Hashes, UploadRefused(p, h) PROVE Idles
        BY <2>1 DEF UploadRefused, Idles
    <2>2. ASSUME NEW d \in Docs, NEW h \in Hashes, NEW k \in Kinds, NEW c \in BOOLEAN,
                 UploadCheck(p, d, h, k, c)
          PROVE  Begins(p, d)
        <3>1. ~ Busy(d)
            BY <2>2, DocumentAssumption DEF UploadCheck, Busy
        <3> QED
            BY <2>2, <3>1 DEF UploadCheck, Begins
    <2>3. ASSUME UploadCreate(p) PROVE Served(p)
        BY <2>3 DEF UploadCreate, Served
    <2> QED
        BY <1>1, <2>1, <2>2, <2>3 DEF Uploading
<1>2. ASSUME NEW p \in Requests, NEW d \in Docs, ExtractStart(p, d) PROVE Begins(p, d)
    BY <1>2 DEF ExtractStart, Begins, MayStart
<1>3. ASSUME NEW p \in Requests, Extracting(p) PROVE Served(p)
    <2>1. InFlight(p) /\ \E x \in ExtractPcs \cup {"done"} : pc' = [pc EXCEPT ![p] = x]
        BY <1>3 DEF Extracting, ExtractFileMissing, ExtractParse, ExtractUnreadable,
           ExtractMalformedJson, ExtractCall, ExtractAnswer, ExtractProviderError,
           ExtractSettle, ExtractSave, ExtractLog, ExtractFail, ExtractGone, ExtractFault
    <2>2. UNCHANGED <<records, scan, target>>
        BY <1>3 DEF Extracting, ExtractFileMissing, ExtractParse, ExtractUnreadable,
           ExtractMalformedJson, ExtractCall, ExtractAnswer, ExtractProviderError,
           ExtractSettle, ExtractSave, ExtractLog, ExtractFail, ExtractGone, ExtractFault
    <2>3. UNCHANGED status \/ \E s \in DocumentStatus : SetStatus(target[p], s)
        BY <1>3 DEF Extracting, ExtractFileMissing, ExtractParse, ExtractUnreadable,
           ExtractMalformedJson, ExtractCall, ExtractAnswer, ExtractProviderError,
           ExtractSettle, ExtractSave, ExtractLog, ExtractFail, ExtractGone, ExtractFault
    <2>4. \A d \in Docs : Live(d) => Live(d)'
        BY <2>3
    <2> QED
        BY <2>1, <2>2, <2>4 DEF Served
<1>4. ASSUME NEW p \in Requests, Confirming(p)
      PROVE  \/ Served(p) \/ ConfirmScan(p) \/ ConfirmCommit(p)
             \/ \E d \in Docs : Begins(p, d)
    <2>1. ASSUME NEW d \in Docs, NEW s \in Payloads, ConfirmRead(p, d, s) PROVE Begins(p, d)
        BY <2>1 DEF ConfirmRead, Begins, MayStart
    <2>2. ASSUME ConfirmAbort(p) PROVE Served(p)
        BY <2>2 DEF ConfirmAbort, Served
    <2> QED
        BY <1>4, <2>1, <2>2 DEF Confirming
<1>5. ASSUME NEW p \in Requests, Removing(p)
      PROVE  Served(p) \/ RemoveCommit(p) \/ \E d \in Docs : Begins(p, d)
    <2>1. ASSUME NEW d \in Docs, RemoveScan(p, d) PROVE Begins(p, d)
        BY <2>1 DEF RemoveScan, Begins, MayStart
    <2>2. ASSUME RemoveAbort(p) PROVE Served(p)
        BY <2>2 DEF RemoveAbort, Served
    <2> QED
        BY <1>5, <2>1, <2>2 DEF Removing
<1>6. ASSUME NEW d \in Docs, FileLost(d) PROVE Idles
    BY <1>6 DEF FileLost, Idles
<1>7. ASSUME NEW r \in records, DeleteRecord(r) PROVE Idles
    BY <1>7 DEF DeleteRecord, Idles
<1>8. ASSUME Crash PROVE Idles
    BY <1>8 DEF Crash, Idles
<1>9. ASSUME UNCHANGED vars PROVE Idles
    BY <1>9 DEF vars, Idles
<1> QED
    BY <1>1, <1>2, <1>3, <1>4, <1>5, <1>6, <1>7, <1>8, <1>9 DEF Next

-----------------------------------------------------------------------------
(* What a confirmation creates is not among the records it has read, and   *)
(* has a key each.                                                         *)
LEMMA CreatedIsNew ==
    ASSUME TypeOK, Canonical, NEW p \in Requests, ConfirmCommit(p),
           NEW r \in records', r \notin records
    PROVE  /\ r.of \in Activity /\ r.by = p /\ r.doc = target[p] /\ r.doc \in Docs
           /\ r.of \in Merged(payload[p])
           /\ \A o \in scan[p] : ~ SameRecord(o, r)
<1>1. PICK a \in ToCreate(payload[p], ImportedKeys(p)) : r = [doc |-> target[p], by |-> p, of |-> a]
    BY DEF ConfirmCommit
<1>2. a \in Activity
    BY <1>1, ToCreateType DEF TypeOK
<1>3. StoredKey(a) = RecordKey(a)
    BY <1>2 DEF Canonical, Activity, StoredKey, RecordKey
<1>4. RecordKey(a) \notin ImportedKeys(p)
    BY <1>1 DEF ToCreate, Covered
<1>5. \A o \in scan[p] : StoredKey(o.of) # StoredKey(a)
    BY <1>3, <1>4 DEF ImportedKeys, StoredKeys
<1>6. target[p] \in Docs
    BY DEF ConfirmCommit, TypeOK, InFlight, ActivePcs, ConfirmPcs
<1> QED
    BY <1>1, <1>2, <1>5, <1>6 DEF ToCreate, SameRecord

LEMMA CreatedOnce ==
    ASSUME TypeOK, Canonical, NEW p \in Requests, ConfirmCommit(p),
           NEW r1 \in records', r1 \notin records,
           NEW r2 \in records', r2 \notin records, SameRecord(r1, r2)
    PROVE  r1 = r2
<1>1. PICK a \in ToCreate(payload[p], ImportedKeys(p)) : r1 = [doc |-> target[p], by |-> p, of |-> a]
    BY DEF ConfirmCommit
<1>2. PICK b \in ToCreate(payload[p], ImportedKeys(p)) : r2 = [doc |-> target[p], by |-> p, of |-> b]
    BY DEF ConfirmCommit
<1>3. a \in Activity /\ b \in Activity
    BY <1>1, <1>2, ToCreateType DEF TypeOK
<1>4. StoredKey(a) = RecordKey(a) /\ StoredKey(b) = RecordKey(b)
    BY <1>3 DEF Canonical, Activity, StoredKey, RecordKey
<1>5. RecordKey(a) = RecordKey(b)
    BY <1>1, <1>2, <1>4 DEF SameRecord
<1>6. a \in Merged(payload[p]) /\ b \in Merged(payload[p]) /\ payload[p] \in Seq(Activity)
    BY <1>1, <1>2 DEF ToCreate, TypeOK
<1>7. a = b
    BY <1>5, <1>6, MergedIsUnique
<1> QED
    BY <1>1, <1>2, <1>7

-----------------------------------------------------------------------------
(* A transaction reads only what finished requests have created.           *)
LEMMA CreatorStep == TypeOK /\ CreatorIsDone /\ [Next]_vars => CreatorIsDone'
<1> SUFFICES ASSUME TypeOK, CreatorIsDone, [Next]_vars PROVE CreatorIsDone'
    OBVIOUS
<1> USE DEF TypeOK, CreatorIsDone, InFlight, ActivePcs, ExtractPcs, ConfirmPcs, WritingPcs,
           Record
<1>1. ASSUME NEW p \in Requests, Served(p) PROVE CreatorIsDone'
    BY <1>1 DEF Served
<1>2. ASSUME NEW p \in Requests, NEW d \in Docs, Begins(p, d) PROVE CreatorIsDone'
    BY <1>2 DEF Begins, RecordsOf
<1>3. ASSUME NEW p \in Requests, ConfirmScan(p) PROVE CreatorIsDone'
    BY <1>3 DEF ConfirmScan, GoTo, RecordsOf, documentVars
<1>4. ASSUME NEW p \in Requests, ConfirmCommit(p) PROVE CreatorIsDone'
    <2>1. pc[p] = "scanned" /\ pc' = [pc EXCEPT ![p] = "done"] /\ scan' = scan
        BY <1>4 DEF ConfirmCommit, End
    <2>2. \A r \in records' : r \in records \/ r.by = p
        BY <1>4 DEF ConfirmCommit
    <2> QED
        BY <2>1, <2>2
<1>5. ASSUME NEW p \in Requests, RemoveCommit(p) PROVE CreatorIsDone'
    BY <1>5 DEF RemoveCommit, End
<1>6. ASSUME Idles PROVE CreatorIsDone'
    BY <1>6 DEF Idles
<1> QED
    BY <1>1, <1>2, <1>3, <1>4, <1>5, <1>6, StepKinds

LEMMA OverlapStep ==
    ASSUME Canonical
    PROVE  OverlapInv /\ [Next]_vars => OverlapInv'
<1> SUFFICES ASSUME OverlapInv, [Next]_vars PROVE OverlapInv'
    OBVIOUS
<1>0. TypeOK' /\ CreatorIsDone'
    BY TypeStep, CreatorStep DEF OverlapInv
<1> USE DEF OverlapInv, DuplicatesOnlyFromOverlap, SameRecord, CreatorIsDone
<1>1. ASSUME NEW p \in Requests, Served(p) PROVE DuplicatesOnlyFromOverlap'
    BY <1>1 DEF Served
<1>2. ASSUME NEW p \in Requests, pc[p] # "done",
             UNCHANGED records, \A q \in Requests : q # p => scan'[q] = scan[q]
      PROVE  DuplicatesOnlyFromOverlap'
    <2>1. \A r \in records : r.by \in Requests /\ r.by # p
        BY <1>2 DEF TypeOK, Record
    <2> QED
        BY <1>2, <2>1
<1>3. ASSUME NEW p \in Requests, NEW d \in Docs, Begins(p, d)
      PROVE  DuplicatesOnlyFromOverlap'
    BY <1>2, <1>3 DEF Begins, TypeOK
<1>4. ASSUME NEW p \in Requests, ConfirmScan(p) PROVE DuplicatesOnlyFromOverlap'
    BY <1>2, <1>4 DEF ConfirmScan, TypeOK, documentVars
<1>5. ASSUME NEW p \in Requests, ConfirmCommit(p) PROVE DuplicatesOnlyFromOverlap'
    <2> SUFFICES ASSUME NEW r1 \in records', NEW r2 \in records',
                        SameRecord(r1, r2), r1 # r2
                 PROVE  r1.by # r2.by /\ r1 \notin scan[r2.by]
        BY <1>5 DEF ConfirmCommit
    <2>0. pc[p] = "scanned"
        BY <1>5 DEF ConfirmCommit
    <2>1. \A r \in records' : r \notin records => r.by = p
        BY <1>5, CreatedIsNew
    <2>2. \A r \in records : r.by # p
        BY <2>0
    <2>3. CASE r1 \in records /\ r2 \in records
        BY <2>3
    <2>4. CASE r1 \in records /\ r2 \notin records
        <3>1. r1.by # p /\ r2.by = p
            BY <2>1, <2>2, <2>4
        <3>2. r1 \notin scan[p]
            BY <1>5, <2>4, CreatedIsNew
        <3> QED
            BY <3>1, <3>2
    <2>5. CASE r1 \notin records /\ r2 \in records
        <3>1. r1.by = p /\ r2.by # p /\ r2.by \in Requests
            BY <2>1, <2>2, <2>5 DEF TypeOK, Record
        <3>2. r1 \notin scan[r2.by]
            BY <2>0, <3>1
        <3> QED
            BY <3>1, <3>2
    <2>6. CASE r1 \notin records /\ r2 \notin records
        BY <1>5, <2>6, CreatedOnce
    <2> QED
        BY <2>3, <2>4, <2>5, <2>6
<1>6. ASSUME NEW p \in Requests, RemoveCommit(p) PROVE DuplicatesOnlyFromOverlap'
    BY <1>6 DEF RemoveCommit
<1>7. ASSUME Idles PROVE DuplicatesOnlyFromOverlap'
    BY <1>7 DEF Idles
<1> QED
    BY <1>0, <1>1, <1>3, <1>4, <1>5, <1>6, <1>7, StepKinds

(* Two records of a document with one key come from two confirmations that *)
(* overlapped: neither had read the record of the other.  Clients need not *)
(* wait, requests may fail and the server may crash.                       *)
THEOREM OnlyOverlapDuplicates ==
    ASSUME Canonical
    PROVE  Spec => []DuplicatesOnlyFromOverlap
<1>1. Init => OverlapInv
    BY TypeInit DEF Init, OverlapInv, CreatorIsDone, DuplicatesOnlyFromOverlap
<1>2. OverlapInv /\ [Next]_vars => OverlapInv'
    BY OverlapStep
<1>3. OverlapInv => DuplicatesOnlyFromOverlap
    BY DEF OverlapInv
<1> QED
    BY <1>1, <1>2, <1>3, PTL DEF Spec

-----------------------------------------------------------------------------
(* When clients wait: the requests in flight are about different documents.*)
LEMMA OneRequestStep ==
    ASSUME Exclusive = TRUE
    PROVE  TypeOK /\ OneRequestPerDocument /\ [Next]_vars => OneRequestPerDocument'
<1> SUFFICES ASSUME TypeOK, OneRequestPerDocument, [Next]_vars
             PROVE  OneRequestPerDocument'
    OBVIOUS
<1> USE DEF OneRequestPerDocument, InFlight, ActivePcs, ExtractPcs, ConfirmPcs, WritingPcs,
           TypeOK
<1>1. ASSUME NEW p \in Requests, Served(p) PROVE OneRequestPerDocument'
    BY <1>1 DEF Served
<1>2. ASSUME NEW p \in Requests, NEW d \in Docs, Begins(p, d) PROVE OneRequestPerDocument'
    <2>1. \A q \in Requests : InFlight(q) => target[q] # d
        BY <1>2 DEF Begins, Busy
    <2>2. \A q \in Requests : q # p => pc'[q] = pc[q] /\ target'[q] = target[q]
        BY <1>2 DEF Begins
    <2>3. target'[p] = d
        BY <1>2 DEF Begins
    <2> SUFFICES ASSUME NEW q \in Requests, NEW r \in Requests, InFlight(q)', InFlight(r)',
                        q # r
                 PROVE  target'[q] # target'[r]
        OBVIOUS
    <2>4. CASE q = p
        BY <2>1, <2>2, <2>3, <2>4
    <2>5. CASE r = p
        BY <2>1, <2>2, <2>3, <2>5
    <2>6. CASE q # p /\ r # p
        BY <2>2, <2>6
    <2> QED
        BY <2>4, <2>5, <2>6
<1>3. ASSUME NEW p \in Requests, ConfirmScan(p) PROVE OneRequestPerDocument'
    BY <1>3 DEF ConfirmScan, GoTo
<1>4. ASSUME NEW p \in Requests, ConfirmCommit(p) PROVE OneRequestPerDocument'
    BY <1>4 DEF ConfirmCommit, End
<1>5. ASSUME NEW p \in Requests, RemoveCommit(p) PROVE OneRequestPerDocument'
    BY <1>5 DEF RemoveCommit, End
<1>6. ASSUME Idles PROVE OneRequestPerDocument'
    BY <1>6 DEF Idles
<1> QED
    BY <1>1, <1>2, <1>3, <1>4, <1>5, <1>6, StepKinds

(* ... so no record of its document escapes a transaction that has read,   *)
LEMMA ScanStep ==
    TypeOK /\ OneRequestPerDocument /\ ScanIsCurrent /\ [Next]_vars => ScanIsCurrent'
<1> SUFFICES ASSUME TypeOK, OneRequestPerDocument, ScanIsCurrent, [Next]_vars
             PROVE  ScanIsCurrent'
    OBVIOUS
<1> USE DEF ScanIsCurrent, RecordsOf, InFlight, ActivePcs, ExtractPcs, ConfirmPcs, WritingPcs,
           TypeOK
<1>1. ASSUME NEW p \in Requests, Served(p) PROVE ScanIsCurrent'
    BY <1>1 DEF Served
<1>2. ASSUME NEW p \in Requests, NEW d \in Docs, Begins(p, d) PROVE ScanIsCurrent'
    BY <1>2 DEF Begins
<1>3. ASSUME NEW p \in Requests, ConfirmScan(p) PROVE ScanIsCurrent'
    BY <1>3 DEF ConfirmScan, GoTo, documentVars
<1>4. ASSUME NEW p \in Requests, ConfirmCommit(p) PROVE ScanIsCurrent'
    <2>1. pc[p] = "scanned" /\ pc' = [pc EXCEPT ![p] = "done"]
          /\ UNCHANGED <<scan, target>>
        BY <1>4 DEF ConfirmCommit, End
    <2>2. \A r \in records' : r \in records \/ r.doc = target[p]
        BY <1>4 DEF ConfirmCommit
    <2>3. \A q \in Requests : pc'[q] \in {"scanned", "removing"} => target[q] # target[p]
        BY <2>1 DEF OneRequestPerDocument
    <2> QED
        BY <2>1, <2>2, <2>3
<1>5. ASSUME NEW p \in Requests, RemoveCommit(p) PROVE ScanIsCurrent'
    BY <1>5 DEF RemoveCommit, End
<1>6. ASSUME Idles PROVE ScanIsCurrent'
    BY <1>6 DEF Idles
<1> QED
    BY <1>1, <1>2, <1>3, <1>4, <1>5, <1>6, StepKinds

(* ... the deletion of a document deletes all its records,                 *)
LEMMA OrphanStep ==
    TypeOK /\ ScanIsCurrent /\ NoOrphanRecords /\ [Next]_vars => NoOrphanRecords'
<1> SUFFICES ASSUME TypeOK, ScanIsCurrent, NoOrphanRecords, [Next]_vars
             PROVE  NoOrphanRecords'
    OBVIOUS
<1>0. \A r \in records : r.doc \in Docs
    BY DEF TypeOK, Record
<1> USE DEF NoOrphanRecords
<1>1. ASSUME NEW p \in Requests, Served(p) PROVE NoOrphanRecords'
    BY <1>0, <1>1 DEF Served
<1>2. ASSUME NEW p \in Requests, NEW d \in Docs, Begins(p, d) PROVE NoOrphanRecords'
    BY <1>0, <1>2 DEF Begins
<1>3. ASSUME NEW p \in Requests, ConfirmScan(p) PROVE NoOrphanRecords'
    BY <1>3 DEF ConfirmScan, documentVars, Live
<1>4. ASSUME NEW p \in Requests, ConfirmCommit(p) PROVE NoOrphanRecords'
    <2>1. \A r \in records' : r \in records \/ r.doc = target[p]
        BY <1>4 DEF ConfirmCommit
    <2>2. target[p] \in Docs /\ Live(target[p])
        BY <1>4 DEF ConfirmCommit, TypeOK, InFlight, ActivePcs, ConfirmPcs
    <2>3. StatusAfter(rows[p], KeysAfter(payload[p], ImportedKeys(p))) \in DocumentStatus
        BY DEF StatusAfter, DocumentStatus
    <2>4. \A d \in Docs : Live(d) => Live(d)'
        BY <1>4, <2>3 DEF ConfirmCommit, SetStatus, Live, TypeOK
    <2> QED
        BY <1>0, <2>1, <2>2, <2>4
<1>5. ASSUME NEW p \in Requests, RemoveCommit(p) PROVE NoOrphanRecords'
    <2>1. RecordsOf(target[p]) \subseteq scan[p]
        BY <1>5 DEF RemoveCommit, ScanIsCurrent
    <2>2. \A r \in records' : r \in records /\ r.doc # target[p]
        BY <1>5, <2>1 DEF RemoveCommit, RecordsOf
    <2>3. \A d \in Docs : Live(d) /\ d # target[p] => Live(d)'
        BY <1>5 DEF RemoveCommit, Live, TypeOK
    <2> QED
        BY <1>0, <2>2, <2>3
<1>6. ASSUME Idles PROVE NoOrphanRecords'
    BY <1>0, <1>6 DEF Idles
<1> QED
    BY <1>1, <1>2, <1>3, <1>4, <1>5, <1>6, StepKinds

(* ... and what a confirmation creates, the document does not have yet.    *)
LEMMA CommitAddsNewKeys ==
    ASSUME TypeOK, ScanIsCurrent, Canonical, NEW p \in Requests, ConfirmCommit(p),
           NEW o \in records, NEW r \in records', r \notin records
    PROVE  ~ SameRecord(o, r)
<1>1. r.doc = target[p] /\ \A s \in scan[p] : ~ SameRecord(s, r)
    BY CreatedIsNew
<1>2. RecordsOf(target[p]) \subseteq scan[p]
    BY DEF ScanIsCurrent, ConfirmCommit
<1> QED
    BY <1>1, <1>2 DEF SameRecord, RecordsOf

LEMMA DoubleImportStep ==
    ASSUME Canonical
    PROVE  TypeOK /\ ScanIsCurrent /\ NoDoubleImport /\ [Next]_vars => NoDoubleImport'
<1> SUFFICES ASSUME TypeOK, ScanIsCurrent, NoDoubleImport, [Next]_vars
             PROVE  NoDoubleImport'
    OBVIOUS
<1>1. ASSUME records' \subseteq records PROVE NoDoubleImport'
    BY <1>1 DEF NoDoubleImport, SameRecord
<1>2. ASSUME NEW p \in Requests, ConfirmCommit(p) PROVE NoDoubleImport'
    <2> SUFFICES ASSUME NEW r1 \in records', NEW r2 \in records', SameRecord(r1, r2)
                 PROVE  r1 = r2
        BY DEF NoDoubleImport, SameRecord
    <2>1. CASE r1 \in records /\ r2 \in records
        BY <2>1 DEF NoDoubleImport
    <2>2. CASE r1 \in records /\ r2 \notin records
        BY <1>2, <2>2, CommitAddsNewKeys
    <2>3. CASE r1 \notin records /\ r2 \in records
        <3>1. SameRecord(r2, r1)
            BY DEF SameRecord
        <3> QED
            BY <1>2, <2>3, <3>1, CommitAddsNewKeys
    <2>4. CASE r1 \notin records /\ r2 \notin records
        BY <1>2, <2>4, CreatedOnce
    <2> QED
        BY <2>1, <2>2, <2>3, <2>4
<1>3. ASSUME NEW p \in Requests,
             \/ Served(p) \/ ConfirmScan(p) \/ RemoveCommit(p)
             \/ \E d \in Docs : Begins(p, d)
      PROVE  records' \subseteq records
    BY <1>3 DEF Served, ConfirmScan, RemoveCommit, Begins, documentVars
<1>4. ASSUME Idles PROVE records' \subseteq records
    BY <1>4 DEF Idles
<1> QED
    BY <1>1, <1>2, <1>3, <1>4, StepKinds

LEMMA WaitingStep ==
    ASSUME Exclusive = TRUE
    PROVE  WaitingInv /\ [Next]_vars => WaitingInv'
BY TypeStep, OneRequestStep, ScanStep, OrphanStep DEF WaitingInv

LEMMA WaitingInit == Init => WaitingInv
BY TypeInit DEF Init, WaitingInv, OneRequestPerDocument, ScanIsCurrent, NoOrphanRecords,
   InFlight, ActivePcs, ExtractPcs, ConfirmPcs, WritingPcs

(* A client that waits for its answers leaves no record behind when it     *)
(* deletes a document, whatever fails and whenever the server crashes.     *)
THEOREM SerialLeavesNoOrphans ==
    ASSUME Exclusive = TRUE
    PROVE  Spec => []NoOrphanRecords
<1>1. WaitingInv => NoOrphanRecords
    BY DEF WaitingInv
<1> QED
    BY <1>1, WaitingInit, WaitingStep, PTL DEF Spec

LEMMA SerialInvariant ==
    ASSUME Exclusive = TRUE, Canonical
    PROVE  Spec => []SerialInv
<1>1. Init => SerialInv
    BY WaitingInit DEF Init, SerialInv, NoDoubleImport
<1>2. SerialInv /\ [Next]_vars => SerialInv'
    BY WaitingStep, DoubleImportStep DEF SerialInv, WaitingInv
<1> QED
    BY <1>1, <1>2, PTL DEF Spec

(* It imports every activity of a document at most once, through rollbacks,*)
(* retries, deletions and re-extractions, as long as storage returns       *)
(* contents unchanged.                                                     *)
THEOREM SerialImportsOnce ==
    ASSUME Exclusive = TRUE, Canonical
    PROVE  Spec => []NoDoubleImport
<1>1. SerialInv => NoDoubleImport
    BY DEF SerialInv
<1> QED
    BY <1>1, SerialInvariant, PTL

(* A confirmation never adds what the document has, be it the same table   *)
(* row or its rowless predecessor.                                         *)
THEOREM SerialKeepsLegacyIdentity ==
    ASSUME Exclusive = TRUE
    PROVE  Spec => LegacyIdentityKept
<1> DEFINE Adds == \A r \in records' \ records, o \in records :
                      o.doc = r.doc => StoredKey(o.of) \notin {RecordKey(r.of), FallbackKey(r.of)}
<1>1. ASSUME WaitingInv, [Next]_vars PROVE Adds
    <2>1. ASSUME NEW p \in Requests, ConfirmCommit(p),
                 NEW r \in records' \ records, NEW o \in records, o.doc = r.doc
          PROVE  StoredKey(o.of) \notin {RecordKey(r.of), FallbackKey(r.of)}
        <3>1. PICK a \in ToCreate(payload[p], ImportedKeys(p)) :
                  r = [doc |-> target[p], by |-> p, of |-> a]
            BY <2>1 DEF ConfirmCommit
        <3>2. ~ Covered(a, ImportedKeys(p))
            BY <3>1 DEF ToCreate
        <3>3. o \in scan[p]
            BY <1>1, <2>1, <3>1 DEF WaitingInv, ScanIsCurrent, ConfirmCommit, RecordsOf
        <3>4. StoredKey(o.of) \in ImportedKeys(p)
            BY <3>3 DEF ImportedKeys, StoredKeys
        <3> QED
            BY <3>1, <3>2, <3>4 DEF Covered
    <2>2. ASSUME NEW p \in Requests,
                 \/ Served(p) \/ ConfirmScan(p) \/ RemoveCommit(p)
                 \/ \E d \in Docs : Begins(p, d)
          PROVE  records' \subseteq records
        BY <2>2 DEF Served, ConfirmScan, RemoveCommit, Begins, documentVars
    <2>3. ASSUME Idles PROVE records' \subseteq records
        BY <2>3 DEF Idles
    <2> QED
        BY <1>1, <2>1, <2>2, <2>3, StepKinds DEF WaitingInv
<1>2. WaitingInv /\ [Next]_vars => [Adds]_vars
    BY <1>1
<1>3. Spec => [][Adds]_vars
    BY <1>2, WaitingInit, WaitingStep, PTL DEF Spec
<1> QED
    BY <1>3 DEF LegacyIdentityKept

-----------------------------------------------------------------------------
(* Who settles PROCESSING.  A request in one of these steps will write a   *)
(* status.                                                                 *)
Unsettled == {"started", "calling", "settling", "failing"}

(* No document loses its worker in a step of p that starts no extraction,  *)
(* if p goes on, or settles, or leaves a malformed JSON file.              *)
LEMMA WorkerKept ==
    ASSUME TypeOK, ProcessingHasWorker, NEW p \in Requests,
           \A q \in Requests : q # p => pc'[q] = pc[q] /\ target'[q] = target[q],
           \A d \in Docs :
              status'[d] = "PROCESSING" =>
                 status[d] = "PROCESSING" /\ kind'[d] = kind[d] /\ hash'[d] = hash[d],
           pc[p] \in Unsettled =>
              \/ pc'[p] \in Unsettled /\ target'[p] = target[p]
              \/ status'[target[p]] # "PROCESSING"
              \/ kind[target[p]] = "json" /\ hash[target[p]] \in Malformed
    PROVE  ProcessingHasWorker'
<1> USE DEF Unsettled, ExtractPcs, WritingPcs
<1> SUFFICES ASSUME NEW d \in Docs, status'[d] = "PROCESSING",
                    ~ (kind'[d] = "json" /\ hash'[d] \in Malformed)
             PROVE  \E q \in Requests : pc'[q] \in Unsettled /\ target'[q] = d
    BY DEF ProcessingHasWorker
<1>1. PICK q \in Requests : pc[q] \in Unsettled /\ target[q] = d
    BY DEF ProcessingHasWorker
<1>2. CASE q = p
    BY <1>1, <1>2
<1>3. CASE q # p
    BY <1>1, <1>3
<1> QED
    BY <1>2, <1>3

LEMMA WorkerStep ==
    ASSUME Faults = FALSE, Crashes = FALSE
    PROVE  TypeOK /\ ProcessingHasWorker /\ [Next]_vars => ProcessingHasWorker'
<1> SUFFICES ASSUME TypeOK, ProcessingHasWorker, [Next]_vars PROVE ProcessingHasWorker'
    OBVIOUS
<1> USE DEF TypeOK, InFlight, ActivePcs, ExtractPcs, ConfirmPcs, WritingPcs, DocumentStatus,
           documentVars, requestVars, End, GoTo, SetStatus, Live, Unsettled
<1>1. ASSUME NEW p \in Requests, Uploading(p) PROVE ProcessingHasWorker'
    <2>1. ASSUME NEW h \in Hashes, UploadRefused(p, h) PROVE ProcessingHasWorker'
        BY <2>1, WorkerKept DEF UploadRefused
    <2>2. ASSUME NEW d \in Docs, NEW h \in Hashes, NEW k \in Kinds, NEW c \in BOOLEAN,
                 UploadCheck(p, d, h, k, c)
          PROVE  ProcessingHasWorker'
        BY <2>2, WorkerKept DEF UploadCheck
    <2>3. ASSUME UploadCreate(p) PROVE ProcessingHasWorker'
        BY <2>3, WorkerKept DEF UploadCreate
    <2> QED
        BY <1>1, <2>1, <2>2, <2>3 DEF Uploading
<1>2. ASSUME NEW p \in Requests, NEW d \in Docs, ExtractStart(p, d) PROVE ProcessingHasWorker'
    <2>1. pc'[p] \in Unsettled /\ target'[p] = d
        BY <1>2 DEF ExtractStart
    <2> SUFFICES ASSUME NEW e \in Docs, e # d, status'[e] = "PROCESSING",
                        ~ (kind'[e] = "json" /\ hash'[e] \in Malformed)
                 PROVE  \E q \in Requests : pc'[q] \in Unsettled /\ target'[q] = e
        BY <2>1 DEF ProcessingHasWorker
    <2>2. PICK q \in Requests : pc[q] \in Unsettled /\ target[q] = e
        BY <1>2 DEF ExtractStart, ProcessingHasWorker
    <2> QED
        BY <1>2, <2>2 DEF ExtractStart
<1>3. ASSUME NEW p \in Requests, Extracting(p) PROVE ProcessingHasWorker'
    <2>1. ASSUME ExtractFileMissing(p) PROVE ProcessingHasWorker'
        BY <2>1, WorkerKept DEF ExtractFileMissing
    <2>2. ASSUME \/ ExtractParse(p) \/ ExtractUnreadable(p) \/ ExtractCall(p)
                 \/ \E result \in ProviderResults : ExtractAnswer(p, result)
                 \/ ExtractProviderError(p)
          PROVE  ProcessingHasWorker'
        <3>1. pc'[p] \in Unsettled /\ UNCHANGED <<target, status, kind, hash>>
            BY <2>2 DEF ExtractParse, ExtractUnreadable, ExtractCall, ExtractAnswer,
               ExtractProviderError
        <3>2. \A q \in Requests : q # p => pc'[q] = pc[q]
            BY <2>2 DEF ExtractParse, ExtractUnreadable, ExtractCall, ExtractAnswer,
               ExtractProviderError
        <3> QED
            BY <3>1, <3>2, WorkerKept
    <2>3. ASSUME ExtractMalformedJson(p) PROVE ProcessingHasWorker'
        BY <2>3, WorkerKept DEF ExtractMalformedJson
    <2>4. ASSUME ExtractSettle(p) PROVE ProcessingHasWorker'
        BY <2>4, WorkerKept DEF ExtractSettle
    <2>5. ASSUME ExtractSave(p) \/ ExtractLog(p) PROVE ProcessingHasWorker'
        <3>1. /\ pc[p] \notin Unsettled /\ UNCHANGED <<target, status, kind, hash>>
              /\ \A q \in Requests : q # p => pc'[q] = pc[q]
            BY <2>5 DEF ExtractSave, ExtractLog
        <3> QED
            BY <3>1, WorkerKept
    <2>6. ASSUME ExtractFail(p) PROVE ProcessingHasWorker'
        <3>1. target[p] \in Docs
            BY <2>6 DEF ExtractFail
        <3> QED
            BY <2>6, <3>1, WorkerKept DEF ExtractFail
    <2>7. ASSUME ExtractGone(p) PROVE ProcessingHasWorker'
        BY <2>7, WorkerKept DEF ExtractGone
    <2> QED
        BY <1>3, <2>1, <2>2, <2>3, <2>4, <2>5, <2>6, <2>7 DEF Extracting, ExtractFault
<1>4. ASSUME NEW p \in Requests, Confirming(p) PROVE ProcessingHasWorker'
    <2>1. /\ pc[p] \notin Unsettled /\ UNCHANGED <<kind, hash>>
          /\ \A q \in Requests : q # p => pc'[q] = pc[q] /\ target'[q] = target[q]
        BY <1>4 DEF Confirming, ConfirmRead, ConfirmScan, ConfirmCommit, ConfirmAbort
    <2>2. \A d \in Docs : status'[d] = "PROCESSING" => status[d] = "PROCESSING"
        <3>1. ASSUME ConfirmCommit(p)
              PROVE  \A d \in Docs : status'[d] = "PROCESSING" => status[d] = "PROCESSING"
            <4>1. StatusAfter(rows[p], KeysAfter(payload[p], ImportedKeys(p))) # "PROCESSING"
                BY DEF StatusAfter
            <4> QED
                BY <3>1, <4>1 DEF ConfirmCommit
        <3> QED
            BY <1>4, <3>1 DEF Confirming, ConfirmRead, ConfirmScan, ConfirmAbort
    <2> QED
        BY <2>1, <2>2, WorkerKept
<1>5. ASSUME NEW p \in Requests, Removing(p) PROVE ProcessingHasWorker'
    <2>1. /\ pc[p] \notin Unsettled /\ UNCHANGED <<kind, hash>>
          /\ \A q \in Requests : q # p => pc'[q] = pc[q] /\ target'[q] = target[q]
        BY <1>5 DEF Removing, RemoveScan, RemoveCommit, RemoveAbort
    <2>2. \A d \in Docs : status'[d] = "PROCESSING" => status[d] = "PROCESSING"
        BY <1>5 DEF Removing, RemoveScan, RemoveCommit, RemoveAbort
    <2> QED
        BY <2>1, <2>2, WorkerKept
<1>6. ASSUME \/ \E d \in Docs : FileLost(d)
             \/ \E r \in records : DeleteRecord(r)
             \/ UNCHANGED vars
      PROVE  ProcessingHasWorker'
    <2>1. UNCHANGED <<status, kind, hash, pc, target>>
        BY <1>6 DEF FileLost, DeleteRecord, vars
    <2> QED
        BY <2>1 DEF ProcessingHasWorker
<1> QED
    BY <1>1, <1>2, <1>3, <1>4, <1>5, <1>6 DEF Next, Crash

(* Unless a statement is rejected or the server stops, a document that     *)
(* says PROCESSING has a request that will settle it, or is a malformed    *)
(* JSON file: whatever else is asked of it meanwhile.                      *)
THEOREM SomebodySettles ==
    ASSUME Faults = FALSE, Crashes = FALSE
    PROVE  Spec => []ProcessingHasWorker
<1>1. Init => ProcessingHasWorker
    BY DEF Init, ProcessingHasWorker
<1> QED
    BY <1>1, TypeInit, TypeStep, WorkerStep, PTL DEF Spec

-----------------------------------------------------------------------------
(* Uploads of one client at a time.  The documents there are, and the one  *)
(* that is about to be.                                                    *)
Coming(d) == \E p \in Requests : pc[p] = "uploading" /\ target[p] = d
Taken(d) == Live(d) \/ Coming(d)

ConsentInv ==
    /\ \A p, q \in Requests : pc[p] = "uploading" /\ pc[q] = "uploading" => p = q
    /\ \A d, e \in Docs :
          Taken(d) /\ Taken(e) /\ d # e /\ hash[d] = hash[e] => kept[d] \/ kept[e]

(* Only an upload that passes its check takes an id.                       *)
LEMMA NothingElseTaken ==
    ASSUME TypeOK, [Next]_vars,
           ~ \E p \in Requests, d \in Docs, h \in Hashes, k \in Kinds, c \in BOOLEAN :
                UploadCheck(p, d, h, k, c)
    PROVE  /\ UNCHANGED <<hash, kept>>
           /\ \A p \in Requests : pc'[p] = "uploading" => pc[p] = "uploading"
           /\ \A d \in Docs : Taken(d)' => Taken(d)
<1> DEFINE Kept == /\ UNCHANGED <<hash, kept>>
                   /\ \A p \in Requests :
                         pc'[p] = "uploading" => pc[p] = "uploading" /\ target'[p] = target[p]
                   /\ \A d \in Docs : Live(d)' => Taken(d)
<1> USE DEF TypeOK, InFlight, ActivePcs, ExtractPcs, ConfirmPcs, WritingPcs, DocumentStatus,
           documentVars, requestVars, End, GoTo, SetStatus, Live, Taken
<1>1. ASSUME NEW p \in Requests, Uploading(p) PROVE Kept
    <2>1. ASSUME NEW h \in Hashes, UploadRefused(p, h) PROVE Kept
        BY <2>1 DEF UploadRefused
    <2>2. ASSUME UploadCreate(p) PROVE Kept
        <3>1. target[p] \in Docs /\ Coming(target[p])
            BY <2>2 DEF UploadCreate, Coming
        <3> QED
            BY <2>2, <3>1 DEF UploadCreate
    <2> QED
        BY <1>1, <2>1, <2>2 DEF Uploading
<1>2. ASSUME NEW p \in Requests, NEW d \in Docs, ExtractStart(p, d) PROVE Kept
    BY <1>2 DEF ExtractStart
<1>3. ASSUME NEW p \in Requests, Extracting(p) PROVE Kept
    <2>1. pc'[p] # "uploading" /\ \A q \in Requests : q # p => pc'[q] = pc[q]
        BY <1>3 DEF Extracting, ExtractFileMissing, ExtractParse, ExtractUnreadable,
           ExtractMalformedJson, ExtractCall, ExtractAnswer, ExtractProviderError,
           ExtractSettle, ExtractSave, ExtractLog, ExtractFail, ExtractGone, ExtractFault
    <2>2. UNCHANGED <<hash, kept, target>>
        BY <1>3 DEF Extracting, ExtractFileMissing, ExtractParse, ExtractUnreadable,
           ExtractMalformedJson, ExtractCall, ExtractAnswer, ExtractProviderError,
           ExtractSettle, ExtractSave, ExtractLog, ExtractFail, ExtractGone, ExtractFault
    <2>3. UNCHANGED status \/ \E s \in DocumentStatus : SetStatus(target[p], s)
        BY <1>3 DEF Extracting, ExtractFileMissing, ExtractParse, ExtractUnreadable,
           ExtractMalformedJson, ExtractCall, ExtractAnswer, ExtractProviderError,
           ExtractSettle, ExtractSave, ExtractLog, ExtractFail, ExtractGone, ExtractFault
    <2>4. \A d \in Docs : Live(d)' => Live(d)
        BY <2>3
    <2> QED
        BY <2>1, <2>2, <2>4
<1>4. ASSUME NEW p \in Requests, Confirming(p) PROVE Kept
    <2>1. ASSUME ConfirmCommit(p) PROVE Kept
        <3>1. \A d \in Docs : Live(d)' => Live(d)
            BY <2>1 DEF ConfirmCommit
        <3> QED
            BY <2>1, <3>1 DEF ConfirmCommit
    <2> QED
        BY <1>4, <2>1 DEF Confirming, ConfirmRead, ConfirmScan, ConfirmAbort
<1>5. ASSUME NEW p \in Requests, Removing(p) PROVE Kept
    BY <1>5 DEF Removing, RemoveScan, RemoveCommit, RemoveAbort
<1>6. ASSUME \/ \E d \in Docs : FileLost(d)
             \/ \E r \in records : DeleteRecord(r)
             \/ Crash
             \/ UNCHANGED vars
      PROVE  Kept
    BY <1>6 DEF FileLost, DeleteRecord, Crash, vars
<1>7. Kept
    BY <1>1, <1>2, <1>3, <1>4, <1>5, <1>6 DEF Next
<1>8. \A d \in Docs : Coming(d)' => Coming(d)
    BY <1>7 DEF Coming
<1> QED
    BY <1>7, <1>8

LEMMA ConsentStep ==
    ASSUME Exclusive = TRUE
    PROVE  TypeOK /\ ConsentInv /\ [Next]_vars => ConsentInv'
<1> SUFFICES ASSUME TypeOK, ConsentInv, [Next]_vars PROVE ConsentInv'
    OBVIOUS
<1>1. ASSUME NEW p \in Requests, NEW d \in Docs, NEW h \in Hashes, NEW k \in Kinds,
             NEW c \in BOOLEAN, UploadCheck(p, d, h, k, c)
      PROVE  ConsentInv'
    <2>1. \A q \in Requests : pc[q] # "uploading"
        BY <1>1 DEF UploadCheck
    <2>2. /\ pc' = [pc EXCEPT ![p] = "uploading"] /\ target' = [target EXCEPT ![p] = d]
          /\ UNCHANGED status
        BY <1>1 DEF UploadCheck, GoTo
    <2>3. \A e \in Docs : e # d => hash'[e] = hash[e] /\ kept'[e] = kept[e]
        BY <1>1 DEF UploadCheck, TypeOK
    <2>4. hash'[d] = h /\ kept'[d] = c
        BY <1>1 DEF UploadCheck, TypeOK
    <2>5. \A e \in Docs : e # d /\ Taken(e)' => Live(e)
        BY <2>1, <2>2 DEF Taken, Coming, Live, TypeOK
    <2>6. \A e \in Docs : e # d /\ Taken(e)' /\ hash'[e] = h => c
        BY <1>1, <2>3, <2>5 DEF UploadCheck, Duplicates
    <2>7. \A q, r \in Requests : pc'[q] = "uploading" /\ pc'[r] = "uploading" => q = r
        BY <2>1, <2>2 DEF TypeOK
    <2> SUFFICES ASSUME NEW e \in Docs, NEW f \in Docs,
                        Taken(e)', Taken(f)', e # f, hash'[e] = hash'[f]
                 PROVE  kept'[e] \/ kept'[f]
        BY <2>7 DEF ConsentInv
    <2>8. CASE e = d
        BY <2>4, <2>6, <2>8
    <2>9. CASE f = d
        BY <2>4, <2>6, <2>9
    <2>10. CASE e # d /\ f # d
        BY <2>3, <2>5, <2>10 DEF ConsentInv, Taken
    <2> QED
        BY <2>8, <2>9, <2>10
<1>2. ASSUME ~ \E p \in Requests, d \in Docs, h \in Hashes, k \in Kinds, c \in BOOLEAN :
                  UploadCheck(p, d, h, k, c)
      PROVE  ConsentInv'
    <2>1. UNCHANGED <<hash, kept>>
        BY <1>2, NothingElseTaken
    <2>2. \A p \in Requests : pc'[p] = "uploading" => pc[p] = "uploading"
        BY <1>2, NothingElseTaken
    <2>3. \A d \in Docs : Taken(d)' => Taken(d)
        BY <1>2, NothingElseTaken
    <2> QED
        BY <2>1, <2>2, <2>3 DEF ConsentInv
<1> QED
    BY <1>1, <1>2

(* Of several documents with the same bytes all but one were kept on       *)
(* purpose, as long as uploads do not overlap: whatever becomes of them.   *)
THEOREM SerialUploadsNeedConsent ==
    ASSUME Exclusive = TRUE
    PROVE  Spec => []DuplicateNeedsConsent
<1>1. Init => ConsentInv
    BY DEF Init, ConsentInv, Taken, Coming, Live, DocumentStatus
<1>2. ConsentInv => DuplicateNeedsConsent
    BY DEF ConsentInv, DuplicateNeedsConsent, Taken
<1> QED
    BY <1>1, <1>2, TypeInit, TypeStep, ConsentStep, PTL DEF Spec

-----------------------------------------------------------------------------
(* What a confirmation of a waiting client has read of its document, rows  *)
(* and records, is what the document has, and an extraction about to       *)
(* replace the rows has reopened it.                                       *)
ReadsCurrent(p) ==
    /\ pc[p] \in ConfirmPcs => rows[p] = extraction[target[p]]
    /\ pc[p] \in {"scanned", "removing"} => scan[p] \subseteq RecordsOf(target[p])
    /\ pc[p] = "saving" => status[target[p]] # "IMPORTED"

CurrentInv == \A p \in Requests : ReadsCurrent(p)

(* A request about d disturbs nobody who is about another document.        *)
LEMMA OthersCurrent ==
    ASSUME TypeOK, CurrentInv, NEW p \in Requests, NEW d \in Docs,
           \A q \in Requests : q # p /\ InFlight(q) => target[q] # d,
           \A q \in Requests :
              q # p => /\ pc'[q] = pc[q] /\ target'[q] = target[q]
                       /\ rows'[q] = rows[q] /\ scan'[q] = scan[q],
           \A e \in Docs : e # d => status'[e] = status[e] /\ extraction'[e] = extraction[e],
           \A r \in records : r.doc # d => r \in records',
           ReadsCurrent(p)'
    PROVE  CurrentInv'
<1> SUFFICES ASSUME NEW q \in Requests, q # p PROVE ReadsCurrent(q)'
    BY DEF CurrentInv
<1>1. ReadsCurrent(q)
    BY DEF CurrentInv
<1>2. InFlight(q) => target[q] \in Docs /\ target[q] # d
    BY DEF TypeOK
<1>3. ASSUME pc[q] \in ConfirmPcs PROVE rows'[q] = extraction'[target'[q]]
    BY <1>1, <1>2, <1>3 DEF ReadsCurrent, InFlight, ActivePcs
<1>4. ASSUME pc[q] \in {"scanned", "removing"} PROVE scan'[q] \subseteq {r \in records' : r.doc = target'[q]}
    <2>1. scan[q] \subseteq RecordsOf(target[q]) /\ target[q] # d
        BY <1>1, <1>2, <1>4 DEF ReadsCurrent, InFlight, ActivePcs, ConfirmPcs
    <2> QED
        BY <2>1 DEF RecordsOf
<1>5. ASSUME pc[q] = "saving" PROVE status'[target'[q]] # "IMPORTED"
    BY <1>1, <1>2, <1>5 DEF ReadsCurrent, InFlight, ActivePcs, ExtractPcs, WritingPcs
<1> QED
    BY <1>3, <1>4, <1>5 DEF ReadsCurrent, RecordsOf

LEMMA CurrentStep ==
    ASSUME Exclusive = TRUE
    PROVE  TypeOK /\ OneRequestPerDocument /\ CurrentInv /\ [Next]_vars => CurrentInv'
<1> SUFFICES ASSUME TypeOK, OneRequestPerDocument, CurrentInv, [Next]_vars PROVE CurrentInv'
    OBVIOUS
<1>0. ASSUME NEW p \in Requests, pc[p] \in ActivePcs
      PROVE  /\ target[p] \in Docs
             /\ \A q \in Requests : q # p /\ InFlight(q) => target[q] # target[p]
    BY <1>0 DEF OneRequestPerDocument, InFlight, TypeOK
<1> USE DEF ActivePcs, ExtractPcs, ConfirmPcs, WritingPcs, DocumentStatus,
           documentVars, requestVars, End, GoTo, SetStatus, Live
<1>1. ASSUME NEW p \in Requests, Uploading(p) PROVE CurrentInv'
    <2>1. ASSUME NEW h \in Hashes, UploadRefused(p, h) PROVE CurrentInv'
        BY <2>1 DEF UploadRefused, CurrentInv, ReadsCurrent, RecordsOf, TypeOK
    <2>2. ASSUME NEW d \in Docs, NEW h \in Hashes, NEW k \in Kinds, NEW c \in BOOLEAN,
                 UploadCheck(p, d, h, k, c)
          PROVE  CurrentInv'
        BY <2>2 DEF UploadCheck, CurrentInv, ReadsCurrent, RecordsOf, TypeOK
    <2>3. ASSUME UploadCreate(p) PROVE CurrentInv'
        <3>1. ReadsCurrent(p)'
            BY <2>3 DEF UploadCreate, ReadsCurrent, TypeOK
        <3>2. pc[p] \in ActivePcs
            BY <2>3 DEF UploadCreate
        <3> QED
            BY <1>0, <2>3, <3>1, <3>2, OthersCurrent DEF UploadCreate, TypeOK
    <2> QED
        BY <1>1, <2>1, <2>2, <2>3 DEF Uploading
<1>2. ASSUME NEW p \in Requests, NEW d \in Docs, ExtractStart(p, d) PROVE CurrentInv'
    <2>1. ReadsCurrent(p)'
        BY <1>2 DEF ExtractStart, ReadsCurrent, TypeOK
    <2>2. \A q \in Requests : q # p /\ InFlight(q) => target[q] # d
        BY <1>2 DEF ExtractStart, MayStart, Busy
    <2> QED
        BY <1>2, <2>1, <2>2, OthersCurrent DEF ExtractStart, TypeOK
<1>3. ASSUME NEW p \in Requests, Extracting(p) PROVE CurrentInv'
    <2>1. /\ pc[p] \in ActivePcs /\ UNCHANGED <<records, scan, target>>
          /\ \A q \in Requests : q # p => pc'[q] = pc[q] /\ rows'[q] = rows[q]
        BY <1>3 DEF Extracting, ExtractFileMissing, ExtractParse, ExtractUnreadable,
           ExtractMalformedJson, ExtractCall, ExtractAnswer, ExtractProviderError,
           ExtractSettle, ExtractSave, ExtractLog, ExtractFail, ExtractGone, ExtractFault, TypeOK
    <2>2. \A e \in Docs : e # target[p] => status'[e] = status[e]
        BY <1>3 DEF Extracting, ExtractFileMissing, ExtractParse, ExtractUnreadable,
           ExtractMalformedJson, ExtractCall, ExtractAnswer, ExtractProviderError,
           ExtractSettle, ExtractSave, ExtractLog, ExtractFail, ExtractGone, ExtractFault, TypeOK
    <2>3. \A e \in Docs : e # target[p] => extraction'[e] = extraction[e]
        BY <1>3 DEF Extracting, ExtractFileMissing, ExtractParse, ExtractUnreadable,
           ExtractMalformedJson, ExtractCall, ExtractAnswer, ExtractProviderError,
           ExtractSettle, ExtractSave, ExtractLog, ExtractFail, ExtractGone, ExtractFault, TypeOK
    <2>4. pc'[p] \in {"started", "calling", "settling", "logging", "failing", "done"}
          \/ ExtractSettle(p)
        BY <1>3 DEF Extracting, ExtractFileMissing, ExtractParse, ExtractUnreadable,
           ExtractMalformedJson, ExtractCall, ExtractAnswer, ExtractProviderError,
           ExtractSave, ExtractLog, ExtractFail, ExtractGone, ExtractFault, TypeOK
    <2>5. ASSUME ExtractSettle(p) PROVE pc'[p] = "saving" /\ status'[target'[p]] # "IMPORTED"
        <3>1. target[p] \in Docs
            BY <1>0, <2>1
        <3> QED
            BY <2>5, <3>1 DEF ExtractSettle, TypeOK
    <2>6. ReadsCurrent(p)'
        BY <2>4, <2>5 DEF ReadsCurrent
    <2> QED
        BY <1>0, <2>1, <2>2, <2>3, <2>6, OthersCurrent
<1>4. ASSUME NEW p \in Requests, Confirming(p) PROVE CurrentInv'
    <2>1. ASSUME NEW d \in Docs, NEW s \in Payloads, ConfirmRead(p, d, s) PROVE CurrentInv'
        <3>1. ReadsCurrent(p)'
            BY <2>1 DEF ConfirmRead, ReadsCurrent, TypeOK
        <3>2. \A q \in Requests : q # p /\ InFlight(q) => target[q] # d
            BY <2>1 DEF ConfirmRead, MayStart, Busy
        <3> QED
            BY <2>1, <3>1, <3>2, OthersCurrent DEF ConfirmRead, TypeOK
    <2>2. ASSUME ConfirmScan(p) PROVE CurrentInv'
        <3>1. ReadsCurrent(p)'
            BY <2>2 DEF ConfirmScan, ReadsCurrent, CurrentInv, RecordsOf, TypeOK
        <3>2. pc[p] \in ActivePcs
            BY <2>2 DEF ConfirmScan
        <3> QED
            BY <1>0, <2>2, <3>1, <3>2, OthersCurrent DEF ConfirmScan, TypeOK
    <2>3. ASSUME ConfirmCommit(p) PROVE CurrentInv'
        <3>1. ReadsCurrent(p)'
            BY <2>3 DEF ConfirmCommit, ReadsCurrent, TypeOK
        <3>2. pc[p] \in ActivePcs
            BY <2>3 DEF ConfirmCommit
        <3>3. \A e \in Docs : e # target[p] => status'[e] = status[e]
            BY <2>3 DEF ConfirmCommit
        <3>4. records \subseteq records'
            BY <2>3 DEF ConfirmCommit
        <3>5. \A q \in Requests : q # p => pc'[q] = pc[q] /\ rows'[q] = rows[q]
            BY <2>3 DEF ConfirmCommit, TypeOK
        <3>6. UNCHANGED <<extraction, target, scan>>
            BY <2>3 DEF ConfirmCommit
        <3> QED
            BY <1>0, <3>1, <3>2, <3>3, <3>4, <3>5, <3>6, OthersCurrent
    <2>4. ASSUME ConfirmAbort(p) PROVE CurrentInv'
        BY <2>4 DEF ConfirmAbort, CurrentInv, ReadsCurrent, RecordsOf, TypeOK
    <2> QED
        BY <1>4, <2>1, <2>2, <2>3, <2>4 DEF Confirming
<1>5. ASSUME NEW p \in Requests, Removing(p) PROVE CurrentInv'
    <2>1. ASSUME NEW d \in Docs, RemoveScan(p, d) PROVE CurrentInv'
        <3>1. ReadsCurrent(p)'
            BY <2>1 DEF RemoveScan, ReadsCurrent, RecordsOf, TypeOK
        <3>2. \A q \in Requests : q # p /\ InFlight(q) => target[q] # d
            BY <2>1 DEF RemoveScan, MayStart, Busy
        <3> QED
            BY <2>1, <3>1, <3>2, OthersCurrent DEF RemoveScan, TypeOK
    <2>2. ASSUME RemoveCommit(p) PROVE CurrentInv'
        <3>1. ReadsCurrent(p)'
            BY <2>2 DEF RemoveCommit, ReadsCurrent, TypeOK
        <3>2. pc[p] \in ActivePcs
            BY <2>2 DEF RemoveCommit
        <3>3. scan[p] \subseteq RecordsOf(target[p])
            BY <2>2 DEF RemoveCommit, CurrentInv, ReadsCurrent
        <3>4. \A r \in records : r.doc # target[p] => r \in records'
            BY <2>2, <3>3 DEF RemoveCommit, RecordsOf
        <3> QED
            BY <1>0, <2>2, <3>1, <3>2, <3>4, OthersCurrent DEF RemoveCommit, TypeOK
    <2>3. ASSUME RemoveAbort(p) PROVE CurrentInv'
        BY <2>3 DEF RemoveAbort, CurrentInv, ReadsCurrent, RecordsOf, TypeOK
    <2> QED
        BY <1>5, <2>1, <2>2, <2>3 DEF Removing
<1>6. ASSUME NEW r \in records, DeleteRecord(r) PROVE CurrentInv'
    <2>1. \A q \in Requests : InFlight(q) => target[q] # r.doc
        BY <1>6 DEF DeleteRecord, MayStart, Busy
    <2>2. \A q \in Requests : pc[q] \in {"scanned", "removing"} =>
              scan[q] \subseteq {o \in records' : o.doc = target[q]}
        BY <1>6, <2>1 DEF DeleteRecord, RecordsOf, CurrentInv, ReadsCurrent, InFlight
    <2> QED
        BY <1>6, <2>2 DEF DeleteRecord, CurrentInv, ReadsCurrent, RecordsOf
<1>7. ASSUME NEW d \in Docs, FileLost(d) PROVE CurrentInv'
    BY <1>7 DEF FileLost, CurrentInv, ReadsCurrent, RecordsOf
<1>8. ASSUME Crash PROVE CurrentInv'
    BY <1>8 DEF Crash, CurrentInv, ReadsCurrent, InFlight
<1>9. ASSUME UNCHANGED vars PROVE CurrentInv'
    BY <1>9 DEF vars, CurrentInv, ReadsCurrent, RecordsOf
<1> QED
    BY <1>1, <1>2, <1>3, <1>4, <1>5, <1>6, <1>7, <1>8, <1>9 DEF Next

(* Nothing becomes hidden while records are only added, rows stay, and the *)
(* document is not declared IMPORTED.                                      *)
LEMMA StaysShown ==
    ASSUME NEW d \in Docs, records \subseteq records',
           status'[d] = "IMPORTED" => status[d] = "IMPORTED" /\ extraction'[d] = extraction[d],
           Hidden(d)'
    PROVE  Hidden(d)
<1> DEFINE K == StoredKeys(RecordsOf(d))
           L == StoredKeys({r \in records' : r.doc = d})
<1>1. status'[d] = "IMPORTED" /\ Unresolved(extraction'[d], L) # {}
    BY DEF Hidden, RecordsOf, StoredKeys
<1>2. PICK a \in extraction'[d] : ~ Covered(a, L)
    BY <1>1 DEF Unresolved
<1>3. K \subseteq L
    BY DEF StoredKeys, RecordsOf
<1>4. ~ Covered(a, K)
    BY <1>2, <1>3 DEF Covered
<1> QED
    BY <1>1, <1>2, <1>4 DEF Hidden, Unresolved

(* A confirmation that says IMPORTED has left no row without a record.     *)
LEMMA ImportedIsResolved ==
    ASSUME TypeOK, CurrentInv, Canonical, NEW p \in Requests, ConfirmCommit(p),
           NEW d \in Docs, d = target[p], status'[d] = "IMPORTED"
    PROVE  ~ Hidden(d)'
<1> DEFINE K == KeysAfter(payload[p], ImportedKeys(p))
           L == StoredKeys({r \in records' : r.doc = d})
<1>1. pc[p] = "scanned" /\ Live(d)
    BY DEF ConfirmCommit, TypeOK, InFlight, ActivePcs, ConfirmPcs
<1>2. rows[p] = extraction[d] /\ scan[p] \subseteq RecordsOf(d)
    BY <1>1 DEF CurrentInv, ReadsCurrent, ConfirmPcs
<1>3. Unresolved(rows[p], K) = {}
    BY <1>1 DEF ConfirmCommit, SetStatus, StatusAfter, TypeOK
<1>4. records \subseteq records'
    BY DEF ConfirmCommit
<1>5. ImportedKeys(p) \subseteq L
    BY <1>2, <1>4 DEF ImportedKeys, StoredKeys, RecordsOf
<1>6. ASSUME NEW a \in ToCreate(payload[p], ImportedKeys(p)) PROVE RecordKey(a) \in L
    <2>1. [doc |-> d, by |-> p, of |-> a] \in records'
        BY DEF ConfirmCommit
    <2>2. a \in Activity
        BY ToCreateType DEF TypeOK
    <2>3. StoredKey(a) = RecordKey(a)
        BY <2>2 DEF Canonical, Activity, StoredKey, RecordKey
    <2> QED
        BY <2>1, <2>3 DEF StoredKeys
<1>7. K \subseteq L
    BY <1>5, <1>6 DEF KeysAfter
<1>8. \A a \in rows[p] : Covered(a, K) => Covered(a, L)
    BY <1>7 DEF Covered
<1>9. \A a \in extraction[d] : Covered(a, L)
    BY <1>2, <1>3, <1>8 DEF Unresolved
<1>10. target'[p] = d /\ extraction' = extraction
    BY DEF ConfirmCommit
<1>11. StoredKeys(RecordsOf(d))' = L
    BY <1>10 DEF StoredKeys, RecordsOf
<1>12. Unresolved(extraction[d], L) = {}
    BY <1>9 DEF Unresolved
<1> QED
    BY <1>10, <1>11, <1>12 DEF Hidden

(* A document of a waiting client never comes to be IMPORTED with rows     *)
(* that have no record, unless a record is deleted: through partial        *)
(* imports, re-extractions, rollbacks and crashes.                         *)
THEOREM SerialHidesNothing ==
    ASSUME Exclusive = TRUE, Canonical
    PROVE  Spec => ImportedMeansResolved
<1> DEFINE Shows == \A d \in Docs : Hidden(d)' /\ ~ Hidden(d) => records \ records' # {}
<1>1. ASSUME TypeOK, CurrentInv, [Next]_vars PROVE Shows
    <2> SUFFICES ASSUME NEW d \in Docs, Hidden(d)', ~ Hidden(d), records \subseteq records'
                 PROVE  FALSE
        OBVIOUS
    <2>1. status'[d] = "IMPORTED"
        BY DEF Hidden
    <2>2. ~ (status[d] = "IMPORTED" /\ extraction'[d] = extraction[d])
        BY StaysShown
    <2> USE <1>1 DEF TypeOK, documentVars, requestVars, SetStatus
    <2>3. ASSUME NEW p \in Requests, ConfirmCommit(p) PROVE FALSE
        <3>1. target[p] = d
            BY <2>1, <2>2, <2>3 DEF ConfirmCommit
        <3> QED
            BY <2>1, <2>3, <3>1, ImportedIsResolved
    <2>4. ASSUME NEW p \in Requests, Uploading(p) PROVE FALSE
        BY <2>1, <2>2, <2>4 DEF Uploading, UploadRefused, UploadCheck, UploadCreate
    <2>5. ASSUME NEW p \in Requests, NEW e \in Docs, ExtractStart(p, e) PROVE FALSE
        BY <2>1, <2>2, <2>5 DEF ExtractStart
    <2>6. ASSUME NEW p \in Requests, Extracting(p) PROVE FALSE
        <3>1. ASSUME ExtractSave(p) PROVE FALSE
            <4>1. target[p] = d
                BY <2>1, <2>2, <3>1 DEF ExtractSave
            <4>2. status[target[p]] # "IMPORTED" /\ UNCHANGED status
                BY <3>1 DEF ExtractSave, CurrentInv, ReadsCurrent
            <4> QED
                BY <2>1, <4>1, <4>2
        <3> QED
            BY <2>1, <2>2, <2>6, <3>1 DEF Extracting, ExtractFileMissing, ExtractParse,
               ExtractUnreadable, ExtractMalformedJson, ExtractCall, ExtractAnswer,
               ExtractProviderError, ExtractSettle, ExtractLog, ExtractFail, ExtractGone,
               ExtractFault
    <2>7. ASSUME NEW p \in Requests,
                 \/ \E e \in Docs, s \in Payloads : ConfirmRead(p, e, s)
                 \/ ConfirmScan(p) \/ ConfirmAbort(p)
          PROVE  FALSE
        BY <2>1, <2>2, <2>7 DEF ConfirmRead, ConfirmScan, ConfirmAbort
    <2>8. ASSUME NEW p \in Requests, Removing(p) PROVE FALSE
        BY <2>1, <2>2, <2>8 DEF Removing, RemoveScan, RemoveCommit, RemoveAbort
    <2>9. ASSUME \/ \E e \in Docs : FileLost(e)
                 \/ \E r \in records : DeleteRecord(r)
                 \/ Crash
                 \/ UNCHANGED vars
          PROVE  FALSE
        BY <2>1, <2>2, <2>9 DEF FileLost, DeleteRecord, Crash, vars
    <2> QED
        BY <1>1, <2>3, <2>4, <2>5, <2>6, <2>7, <2>8, <2>9 DEF Next, Confirming
<1>2. Init => CurrentInv
    BY DEF Init, CurrentInv, ReadsCurrent, ConfirmPcs
<1>3. TypeOK /\ CurrentInv /\ [Next]_vars => [Shows]_vars
    BY <1>1
<1>4. WaitingInv => TypeOK /\ OneRequestPerDocument
    BY DEF WaitingInv
<1>5. Spec => [][Shows]_vars
    BY <1>2, <1>3, <1>4, WaitingInit, WaitingStep, CurrentStep, PTL DEF Spec
<1> QED
    BY <1>5 DEF ImportedMeansResolved

-----------------------------------------------------------------------------
(* DocumentImport implements ImportOnce.  An upload is of a document that  *)
(* is not there yet.                                                       *)
UploadsNew == \A p \in Requests : pc[p] = "uploading" => status[target[p]] = "none"

(* A step that gives a document a status other than IMPORTED, and no more. *)
Restates ==
    /\ UNCHANGED <<extraction, records>>
    /\ \E d \in Docs, s \in DocumentStatus \ {"IMPORTED"} :
          Live(d) /\ status' = [status EXCEPT ![d] = s]

Unseen == UNCHANGED <<status, extraction, records>>

LEMMA DocumentSteps ==
    ASSUME TypeOK, [Next]_vars
    PROVE  \/ Unseen \/ Restates
           \/ \E p \in Requests :
                 UploadCreate(p) \/ ExtractSave(p) \/ ConfirmCommit(p) \/ RemoveCommit(p)
           \/ \E r \in records : DeleteRecord(r)
<1> USE DEF Unseen, documentVars, requestVars, vars
<1>1. ASSUME NEW p \in Requests, Uploading(p) PROVE Unseen \/ UploadCreate(p)
    BY <1>1 DEF Uploading, UploadRefused, UploadCheck
<1>2. ASSUME NEW p \in Requests, NEW d \in Docs, ExtractStart(p, d) PROVE Restates
    BY <1>2 DEF ExtractStart, Restates, DocumentStatus
<1>3. ASSUME NEW p \in Requests, Extracting(p) PROVE Unseen \/ Restates \/ ExtractSave(p)
    <2>1. ASSUME NEW s \in DocumentStatus \ {"IMPORTED"}, SetStatus(target[p], s),
                 UNCHANGED <<extraction, records>>, InFlight(p)
          PROVE  Unseen \/ Restates
        <3>1. target[p] \in Docs
            BY <2>1 DEF TypeOK
        <3> QED
            BY <2>1, <3>1 DEF SetStatus, Restates
    <2>2. ASSUME ExtractFileMissing(p) \/ ExtractSettle(p) \/ ExtractFail(p)
          PROVE  Unseen \/ Restates
        <3>1. InFlight(p) /\ UNCHANGED <<extraction, records>>
            BY <2>2 DEF ExtractFileMissing, ExtractSettle, ExtractFail, InFlight, ActivePcs,
               ExtractPcs, WritingPcs
        <3>2. \E s \in DocumentStatus \ {"IMPORTED"} : SetStatus(target[p], s)
            BY <2>2 DEF ExtractFileMissing, ExtractSettle, ExtractFail, DocumentStatus
        <3> QED
            BY <2>1, <3>1, <3>2
    <2>3. ASSUME ~ ExtractFileMissing(p), ~ ExtractSettle(p), ~ ExtractFail(p), ~ ExtractSave(p)
          PROVE  Unseen
        BY <1>3, <2>3 DEF Extracting, ExtractParse, ExtractUnreadable, ExtractMalformedJson,
           ExtractCall, ExtractAnswer, ExtractProviderError, ExtractLog, ExtractGone, ExtractFault
    <2> QED
        BY <2>2, <2>3
<1>4. ASSUME NEW p \in Requests, Confirming(p) PROVE Unseen \/ ConfirmCommit(p)
    BY <1>4 DEF Confirming, ConfirmRead, ConfirmScan, ConfirmAbort
<1>5. ASSUME NEW p \in Requests, Removing(p) PROVE Unseen \/ RemoveCommit(p)
    BY <1>5 DEF Removing, RemoveScan, RemoveAbort
<1>6. ASSUME (\E d \in Docs : FileLost(d)) \/ Crash \/ UNCHANGED vars PROVE Unseen
    BY <1>6 DEF FileLost, Crash
<1> QED
    BY <1>1, <1>2, <1>3, <1>4, <1>5, <1>6 DEF Next

LEMMA UploadsStep == TypeOK /\ OneRequestPerDocument /\ UploadsNew /\ [Next]_vars => UploadsNew'
<1> SUFFICES ASSUME TypeOK, OneRequestPerDocument, UploadsNew, [Next]_vars,
                    NEW q \in Requests, pc'[q] = "uploading"
             PROVE  status'[target'[q]] = "none"
    BY DEF UploadsNew
<1>1. ASSUME NEW p \in Requests, NEW d \in Docs, NEW h \in Hashes, NEW k \in Kinds,
             NEW c \in BOOLEAN, UploadCheck(p, d, h, k, c)
      PROVE  status'[target'[q]] = "none"
    BY <1>1 DEF UploadCheck, GoTo, UploadsNew, TypeOK
<1>2. ASSUME ~ \E p \in Requests, d \in Docs, h \in Hashes, k \in Kinds, c \in BOOLEAN :
                  UploadCheck(p, d, h, k, c)
      PROVE  status'[target'[q]] = "none"
    <2>1. pc[q] = "uploading"
        BY <1>2, NothingElseTaken
    <2>2. target'[q] = target[q]
        BY <2>1, StepKinds DEF Served, Begins, ConfirmScan, ConfirmCommit, RemoveCommit, Idles, TypeOK
    <2>3. status[target[q]] = "none" /\ target[q] \in Docs /\ ~ Live(target[q])
        BY <2>1 DEF UploadsNew, TypeOK, InFlight, ActivePcs, Live, DocumentStatus
    <2>4. ASSUME NEW p \in Requests, UploadCreate(p) PROVE status'[target[q]] = "none"
        <3>1. p # q
            BY <2>4 DEF UploadCreate, End, TypeOK
        <3>2. target[p] # target[q]
            BY <2>1, <2>4, <3>1 DEF UploadCreate, OneRequestPerDocument, InFlight, ActivePcs
        <3> QED
            BY <2>3, <2>4, <3>2 DEF UploadCreate, TypeOK
    <2>5. ASSUME NEW p \in Requests, ConfirmCommit(p) \/ RemoveCommit(p) \/ ExtractSave(p)
          PROVE  status'[target[q]] = "none"
        BY <2>3, <2>5 DEF ConfirmCommit, RemoveCommit, ExtractSave, SetStatus, TypeOK
    <2>6. ASSUME Unseen \/ Restates \/ \E r \in records : DeleteRecord(r)
          PROVE  status'[target[q]] = "none"
        BY <2>3, <2>6 DEF Unseen, Restates, DeleteRecord, TypeOK
    <2> QED
        BY <2>2, <2>4, <2>5, <2>6, DocumentSteps
<1> QED
    BY <1>1, <1>2

(* What the importer counts as imported when it commits is what the        *)
(* document then has.                                                      *)
LEMMA CommitKnowsKeys ==
    ASSUME TypeOK, ScanIsCurrent, CurrentInv, Canonical, NEW p \in Requests, ConfirmCommit(p)
    PROVE  /\ rows[p] = extraction[target[p]]
           /\ KeysAfter(payload[p], ImportedKeys(p))
                = {StoredKey(r.of) : r \in {o \in records' : o.doc = target[p]}}
<1> DEFINE d == target[p]
           C == ToCreate(payload[p], ImportedKeys(p))
           new == {[doc |-> d, by |-> p, of |-> a] : a \in C}
<1>1. pc[p] = "scanned"
    BY DEF ConfirmCommit
<1>2. rows[p] = extraction[d] /\ scan[p] = RecordsOf(d)
    BY <1>1 DEF CurrentInv, ReadsCurrent, ScanIsCurrent, ConfirmPcs
<1>3. records' = records \cup new
    BY DEF ConfirmCommit
<1>4. ASSUME NEW a \in C PROVE StoredKey(a) = RecordKey(a)
    <2>1. a \in Activity
        BY ToCreateType DEF TypeOK
    <2> QED
        BY <2>1 DEF Canonical, Activity, StoredKey, RecordKey
<1>5. {o \in records' : o.doc = d} = scan[p] \cup new
    BY <1>2, <1>3 DEF RecordsOf
<1>6. {StoredKey(r.of) : r \in new} = {RecordKey(a) : a \in C}
    <2>1. \A r \in new : \E a \in C : StoredKey(r.of) = RecordKey(a)
        BY <1>4
    <2>2. ASSUME NEW a \in C PROVE \E r \in new : StoredKey(r.of) = RecordKey(a)
        <3>1. [doc |-> d, by |-> p, of |-> a] \in new /\ [doc |-> d, by |-> p, of |-> a].of = a
            OBVIOUS
        <3> QED
            BY <1>4, <3>1
    <2> HIDE DEF C, new
    <2> QED
        BY <2>1, <2>2
<1>7. {StoredKey(r.of) : r \in scan[p] \cup new}
          = ImportedKeys(p) \cup {StoredKey(r.of) : r \in new}
    BY DEF ImportedKeys, StoredKeys
<1> QED
    BY <1>2, <1>5, <1>6, <1>7 DEF KeysAfter

LEMMA CommitKeepsPromise ==
    ASSUME TypeOK, ScanIsCurrent, CurrentInv, Canonical, NEW p \in Requests, ConfirmCommit(p)
    PROVE  Promise!Next
<1> DEFINE d == target[p]
           new == records' \ records
           keys == KeysAfter(payload[p], ImportedKeys(p))
<1>0. pc[p] = "scanned" /\ d \in Docs /\ Live(d)
    BY DEF ConfirmCommit, TypeOK, InFlight, ActivePcs, ConfirmPcs
<1>1. Promise!There(d)
    BY <1>0 DEF Promise!There, Stage, Live, DocumentStatus
<1>2. new \subseteq Record /\ records' = records \cup new
    BY TypeStep DEF ConfirmCommit, TypeOK, Next, Confirming
<1>3. ASSUME NEW r \in new
      PROVE  /\ r.doc = d
             /\ \A o \in records : o.doc = d => ~ Promise!StandsFor(o.of, r.of)
             /\ \A other \in new :
                   [a \in Activity |-> StoredKey(a)][other.of] = [a \in Activity |-> StoredKey(a)][r.of]
                      => other = r
    <2>1. /\ r.doc = d /\ r.of \in Activity
          /\ \A x \in new : x.doc = d /\ x.of \in Activity
        BY CreatedIsNew
    <2>2. ASSUME NEW o \in records, o.doc = d PROVE ~ Promise!StandsFor(o.of, r.of)
        <3>1. PICK a \in ToCreate(payload[p], ImportedKeys(p)) :
                  r = [doc |-> d, by |-> p, of |-> a]
            BY DEF ConfirmCommit
        <3>2. ~ Covered(a, ImportedKeys(p)) /\ r.of = a
            BY <3>1 DEF ToCreate
        <3>3. StoredKey(o.of) \in ImportedKeys(p)
            BY <1>0, <2>2 DEF ScanIsCurrent, RecordsOf, ImportedKeys, StoredKeys
        <3>4. o.of \in Activity /\ StoredKey(a) = RecordKey(a)
            BY <2>1, <3>2 DEF TypeOK, Record, Canonical, Activity, StoredKey, RecordKey
        <3> QED
            BY <2>1, <3>2, <3>3, <3>4 DEF Promise!StandsFor, Covered
    <2>3. ASSUME NEW other \in new, StoredKey(other.of) = StoredKey(r.of) PROVE other = r
        BY <2>1, <2>3, CreatedOnce DEF SameRecord
    <2> QED
        BY <2>1, <2>2, <2>3
<1>4. Promise!AllResolved(d, records') <=> Unresolved(extraction[d], keys) = {}
    <2>1. keys = {StoredKey(r.of) : r \in {o \in records' : o.doc = d}}
        BY CommitKnowsKeys
    <2>2. \A r \in records' : r.of \in Activity
        BY <1>2 DEF TypeOK, Record
    <2>3. ASSUME NEW a \in extraction[d]
          PROVE  Covered(a, keys) <=> \E r \in records' : r.doc = d /\ Promise!StandsFor(r.of, a)
        <3>1. a \in Activity /\ FallbackKey(a) = FallbackKey(a)
            BY <1>0 DEF TypeOK
        <3>2. StoredKey(a) = RecordKey(a)
            BY <3>1 DEF Canonical, Activity, StoredKey, RecordKey
        <3>3. \A r \in records' :
                 Promise!StandsFor(r.of, a) <=> StoredKey(r.of) \in {RecordKey(a), FallbackKey(a)}
            BY <2>2, <3>1, <3>2 DEF Promise!StandsFor
        <3> HIDE DEF keys
        <3> QED
            BY <2>1, <3>3 DEF Covered
    <2> QED
        BY <2>3 DEF Promise!AllResolved, Unresolved
<1>5. status' = [status EXCEPT ![d] = IF Promise!AllResolved(d, records')
                                      THEN "IMPORTED" ELSE "REVIEW_REQUIRED"]
    BY <1>0, <1>4, CommitKnowsKeys DEF ConfirmCommit, SetStatus, StatusAfter
<1>6. [e \in Docs |-> Stage(e)]' =
          [[e \in Docs |-> Stage(e)] EXCEPT
              ![d] = IF Promise!AllResolved(d, records') THEN "finished" ELSE "open"]
    BY <1>0, <1>5 DEF Stage, TypeOK
<1>7. extraction' = extraction
    BY DEF ConfirmCommit
<1> HIDE DEF new
<1>8. Promise!Import(d, new)
    BY <1>1, <1>2, <1>3, <1>6, <1>7 DEF Promise!Import
<1> QED
    BY <1>0, <1>8 DEF Promise!Next, new

LEMMA PromiseStep ==
    ASSUME TypeOK, ScanIsCurrent, CurrentInv, UploadsNew, Canonical, [Next]_vars
    PROVE  [Promise!Next]_(Promise!onceVars)
<1>1. ASSUME Unseen PROVE UNCHANGED Promise!onceVars
    BY <1>1 DEF Unseen, Promise!onceVars, Stage
<1>2. ASSUME Restates PROVE Promise!Next \/ UNCHANGED Promise!onceVars
    <2>1. PICK d \in Docs, s \in DocumentStatus \ {"IMPORTED"} :
              Live(d) /\ status' = [status EXCEPT ![d] = s]
        BY <1>2 DEF Restates
    <2>2. Stage(d) \in {"open", "finished"}
        BY <2>1 DEF Stage, Live, DocumentStatus
    <2>3. [e \in Docs |-> Stage(e)]' = [[e \in Docs |-> Stage(e)] EXCEPT ![d] = "open"]
        BY <2>1 DEF Stage, DocumentStatus, TypeOK
    <2>4. UNCHANGED <<extraction, records>>
        BY <1>2 DEF Restates
    <2>5. CASE Stage(d) = "finished"
        BY <2>3, <2>4, <2>5 DEF Promise!Next, Promise!Reopen
    <2>6. CASE Stage(d) = "open"
        BY <2>3, <2>4, <2>6 DEF Promise!onceVars
    <2> QED
        BY <2>2, <2>5, <2>6
<1>3. ASSUME NEW p \in Requests, UploadCreate(p) PROVE Promise!Next
    <2>1. target[p] \in Docs /\ status[target[p]] = "none"
        BY <1>3 DEF UploadCreate, UploadsNew, TypeOK, InFlight, ActivePcs
    <2>2. [e \in Docs |-> Stage(e)]' = [[e \in Docs |-> Stage(e)] EXCEPT ![target[p]] = "open"]
        BY <1>3, <2>1 DEF UploadCreate, Stage, TypeOK
    <2> QED
        BY <1>3, <2>1, <2>2 DEF UploadCreate, Stage, Promise!Next, Promise!Upload
<1>4. ASSUME NEW p \in Requests, ExtractSave(p) PROVE Promise!Next
    <2>1. target[p] \in Docs /\ status[target[p]] # "IMPORTED" /\ Live(target[p])
        BY <1>4 DEF ExtractSave, CurrentInv, ReadsCurrent, TypeOK, InFlight, ActivePcs,
           ExtractPcs, WritingPcs
    <2>2. Stage(target[p]) = "open"
        BY <2>1 DEF Stage, Live, DocumentStatus
    <2>3. UNCHANGED <<status, records>> /\ rows[p] \in SUBSET Activity
          /\ extraction' = [extraction EXCEPT ![target[p]] = rows[p]]
        BY <1>4 DEF ExtractSave, TypeOK
    <2> QED
        BY <2>1, <2>2, <2>3 DEF Promise!Next, Promise!Extract, Stage
<1>5. ASSUME NEW p \in Requests, ConfirmCommit(p) PROVE Promise!Next
    BY <1>5, CommitKeepsPromise
<1>6. ASSUME NEW p \in Requests, RemoveCommit(p) PROVE Promise!Next
    <2>1. pc[p] = "removing" /\ target[p] \in Docs /\ Live(target[p])
        BY <1>6 DEF RemoveCommit, TypeOK, InFlight, ActivePcs
    <2>2. scan[p] = RecordsOf(target[p])
        BY <2>1 DEF ScanIsCurrent, CurrentInv, ReadsCurrent
    <2>3. records' = {r \in records : r.doc # target[p]}
        BY <1>6, <2>2 DEF RemoveCommit, RecordsOf
    <2>4. [e \in Docs |-> Stage(e)]' = [[e \in Docs |-> Stage(e)] EXCEPT ![target[p]] = "gone"]
        BY <1>6, <2>1 DEF RemoveCommit, Stage, TypeOK
    <2>5. Promise!There(target[p])
        BY <2>1 DEF Promise!There, Stage, Live, DocumentStatus
    <2>6. extraction' = [extraction EXCEPT ![target[p]] = {}]
        BY <1>6 DEF RemoveCommit
    <2> QED
        BY <2>1, <2>3, <2>4, <2>5, <2>6 DEF Promise!Next, Promise!Discard
<1>7. ASSUME NEW r \in records, DeleteRecord(r) PROVE Promise!Next
    BY <1>7 DEF DeleteRecord, Promise!Next, Promise!Forget, Stage
<1> QED
    BY <1>1, <1>2, <1>3, <1>4, <1>5, <1>6, <1>7, DocumentSteps

(* Uploads, extractions, confirmations and deletions of a client that      *)
(* waits for its answers implement ImportOnce: whatever fails or crashes   *)
(* between their steps, each activity gets one record, a finished document *)
(* has one for each of its rows, and records leave with their document.    *)
THEOREM PromiseImplemented ==
    ASSUME Exclusive = TRUE, Canonical
    PROVE  Spec => PromiseKept
<1> DEFINE Inv == WaitingInv /\ CurrentInv /\ UploadsNew
<1>1. Init => Promise!Init
    BY DEF Init, Promise!Init, Stage
<1>2. Init => Inv
    BY WaitingInit DEF Init, CurrentInv, ReadsCurrent, UploadsNew, ConfirmPcs
<1>3. Inv /\ [Next]_vars => Inv'
    BY WaitingStep, CurrentStep, UploadsStep DEF WaitingInv
<1>4. Inv /\ [Next]_vars => [Promise!Next]_(Promise!onceVars)
    BY PromiseStep DEF WaitingInv
<1> HIDE DEF Inv
<1> QED
    BY <1>1, <1>2, <1>3, <1>4, PTL DEF Spec, PromiseKept, Promise!Spec
=============================================================================
