--------------------------- MODULE DocumentImport ---------------------------
(***************************************************************************)
(* The life of an uploaded document: upload, extraction, confirmation,     *)
(* deletion (DocumentsService and DocumentExtractionService), and the      *)
(* deletion of single activity records (ActivityDataService).              *)
(*                                                                         *)
(* The server is one Node process: requests interleave wherever a handler  *)
(* awaits.  An action is the code of one request between two awaits whose  *)
(* order matters to somebody else.  A Prisma transaction runs READ         *)
(* COMMITTED: it is an action for what it reads and one for its commit.    *)
(* One organization is modelled; every query filters by organization.      *)
(***************************************************************************)
EXTENDS ImportIdentity

CONSTANTS
    Requests,         \* HTTP requests; each is made once
    Docs,             \* document ids (cuid), each given to one upload
    NoDoc,
    Hashes,           \* SHA-256 of a file's bytes
    NoHash,
    Kinds,            \* what the file name makes of it, see AllKinds
    FileRows,         \* FileRows[h]: the rows a table parser finds in the bytes
    Malformed,        \* the hashes whose bytes no table parser accepts
    ProviderResults,  \* the row sets the extraction model may answer with
    Invalid,          \* contents normalizeActivityForImport rejects
    Payloads,         \* the activity lists clients confirm
    Exclusive,        \* TRUE: clients wait for the answer about a document
                      \* before they send another request about it
    Faults,           \* TRUE: a database write or a tracking call may fail
    Crashes           \* TRUE: the server may restart

AllKinds == {"provider", "table", "json", "unsupported"}

ASSUME DocumentAssumption ==
    /\ NoDoc \notin Docs /\ NoHash \notin Hashes
    /\ Kinds \subseteq AllKinds
    /\ FileRows \in [Hashes -> SUBSET Activity]
    /\ Malformed \subseteq Hashes
    /\ ProviderResults \subseteq SUBSET [row : {NoRow}, content : Contents]
    /\ Invalid \subseteq Contents
    /\ Payloads \subseteq Seq(Activity)
    /\ Exclusive \in BOOLEAN /\ Faults \in BOOLEAN /\ Crashes \in BOOLEAN

VARIABLES
    status,      \* Document.status; "none" before and "deleted" after the row exists
    hash,        \* Document.fileHash
    kind,        \* the format its file name and MIME type announce
    kept,        \* whether it was uploaded with allowDuplicate
    file,        \* whether its bytes are still on the server's disk
    extraction,  \* DocumentExtraction.extractedRows ({}: no row, or an empty one)
    records,     \* the ActivityData rows whose sourceDocumentId is a document
    pc,          \* where each request is
    target,      \* the document it is about
    rows,        \* the extraction rows it holds in memory
    payload,     \* the activities it confirms
    scan         \* the records its transaction has read

documentVars == <<status, hash, kind, kept, file, extraction, records>>
requestVars == <<pc, target, rows, payload, scan>>
vars == <<documentVars, requestVars>>

DocumentStatus == {"UPLOADED", "PROCESSING", "REVIEW_REQUIRED", "NO_DATA_FOUND",
                   "EXTRACTION_FAILED", "FILE_MISSING", "IMPORTED"}

WritingPcs == {"settling", "saving", "logging"}
ExtractPcs == {"started", "calling", "failing"} \cup WritingPcs
ConfirmPcs == {"confirming", "scanned"}
ActivePcs == {"uploading", "removing"} \cup ExtractPcs \cup ConfirmPcs

(* A record as stored: who created it, from which confirmed activity.      *)
Record == [doc : Docs, by : Requests, of : Activity]

RecordsOf(d) == {r \in records : r.doc = d}
StoredKeys(R) == {StoredKey(r.of) : r \in R}

Live(d) == status[d] \in DocumentStatus
InFlight(p) == pc[p] \in ActivePcs
Busy(d) == \E p \in Requests : InFlight(p) /\ target[p] = d
MayStart(d) == Exclusive => ~ Busy(d)

Init ==
    /\ status = [d \in Docs |-> "none"]
    /\ hash = [d \in Docs |-> NoHash]
    /\ kind = [d \in Docs |-> "none"]
    /\ kept = [d \in Docs |-> FALSE]
    /\ file = [d \in Docs |-> FALSE]
    /\ extraction = [d \in Docs |-> {}]
    /\ records = {}
    /\ pc = [p \in Requests |-> "idle"]
    /\ target = [p \in Requests |-> NoDoc]
    /\ rows = [p \in Requests |-> {}]
    /\ payload = [p \in Requests |-> << >>]
    /\ scan = [p \in Requests |-> {}]

(* The request is answered, whatever the answer is.                        *)
End(p) ==
    /\ pc' = [pc EXCEPT ![p] = "done"]
    /\ rows' = [rows EXCEPT ![p] = {}]
    /\ payload' = [payload EXCEPT ![p] = << >>]

GoTo(p, step) ==
    /\ pc' = [pc EXCEPT ![p] = step]
    /\ UNCHANGED <<rows, payload>>

(* document.update rejects when the row is gone, and then writes nothing.  *)
SetStatus(d, s) == status' = IF Live(d) THEN [status EXCEPT ![d] = s] ELSE status

-----------------------------------------------------------------------------
(* DocumentsService.upload: hash the file, look for a document with that   *)
(* hash, then create.  The id is reserved at the check, so that what was   *)
(* uploaded is known; the row exists from UploadCreate on.                 *)

(* (Mistake: only documents nobody has worked on yet are compared.)        *)
Duplicates_Unprocessed(h) == {e \in Docs : status[e] = "UPLOADED" /\ hash[e] = h}

Duplicates(h) == {e \in Docs : Live(e) /\ hash[e] = h}

UploadRefused(p, h) ==
    /\ pc[p] = "idle"
    /\ Duplicates(h) # {}
    /\ End(p)
    /\ UNCHANGED <<documentVars, target, scan>>

UploadCheck(p, d, h, k, allowDuplicate) ==
    /\ pc[p] = "idle"
    /\ status[d] = "none" /\ hash[d] = NoHash
    /\ Exclusive => \A q \in Requests : pc[q] # "uploading"
    /\ Duplicates(h) = {} \/ allowDuplicate
    /\ hash' = [hash EXCEPT ![d] = h]
    /\ kind' = [kind EXCEPT ![d] = k]
    /\ kept' = [kept EXCEPT ![d] = allowDuplicate]
    /\ file' = [file EXCEPT ![d] = TRUE]
    /\ target' = [target EXCEPT ![p] = d]
    /\ GoTo(p, "uploading")
    /\ UNCHANGED <<status, extraction, records, scan>>

UploadCreate(p) ==
    /\ pc[p] = "uploading"
    /\ status' = [status EXCEPT ![target[p]] = "UPLOADED"]
    /\ End(p)
    /\ UNCHANGED <<hash, kind, kept, file, extraction, records, target, scan>>

(* Render's disk does not survive a deployment; nothing puts a file back.  *)
FileLost(d) ==
    /\ Live(d) /\ file[d]
    /\ file' = [file EXCEPT ![d] = FALSE]
    /\ UNCHANGED <<status, hash, kind, kept, extraction, records, requestVars>>

-----------------------------------------------------------------------------
(* DocumentExtractionService.extract                                       *)

(* Any document may be extracted, whatever its status.                     *)
ExtractStart(p, d) ==
    /\ pc[p] = "idle"
    /\ Live(d) /\ MayStart(d)
    /\ status' = [status EXCEPT ![d] = "PROCESSING"]
    /\ target' = [target EXCEPT ![p] = d]
    /\ GoTo(p, "started")
    /\ UNCHANGED <<hash, kind, kept, file, extraction, records, scan>>

(* access(absolutePath) or readFile fails: FILE_MISSING, 404.              *)
ExtractFileMissing(p) ==
    /\ pc[p] = "started"
    /\ kind[target[p]] # "unsupported"
    /\ ~ file[target[p]]
    /\ SetStatus(target[p], "FILE_MISSING")
    /\ End(p)
    /\ UNCHANGED <<hash, kind, kept, file, extraction, records, target, scan>>

(* The rows a parser finds.  Only the spreadsheet parser numbers them.     *)
ParsedRows(d) ==
    IF kind[d] = "table" THEN FileRows[hash[d]]
    ELSE {WithoutRow(a) : a \in FileRows[hash[d]]}

(* A table or a JSON file is parsed here and now.                          *)
ExtractParse(p) ==
    /\ pc[p] = "started"
    /\ file[target[p]]
    /\ kind[target[p]] \in {"table", "json"}
    /\ hash[target[p]] \notin Malformed
    /\ rows' = [rows EXCEPT ![p] = ParsedRows(target[p])]
    /\ pc' = [pc EXCEPT ![p] = "settling"]
    /\ UNCHANGED <<documentVars, target, payload, scan>>

(* (Mistake: the error is answered without settling the status.)           *)
ExtractUnreadable_Unsettled(p) ==
    /\ pc[p] = "started"
    /\ kind[target[p]] = "unsupported"
    /\ End(p)
    /\ UNCHANGED <<documentVars, target, scan>>

(* validateSupportedFile and parseSpreadsheetActivityRows throw inside the *)
(* try block, whose catch is ExtractFail.                                  *)
ExtractUnreadable(p) ==
    /\ pc[p] = "started"
    /\ \/ kind[target[p]] = "unsupported"
       \/ /\ kind[target[p]] = "table"
          /\ file[target[p]]
          /\ hash[target[p]] \in Malformed
    /\ GoTo(p, "failing")
    /\ UNCHANGED <<documentVars, target, scan>>

(* parseJsonActivityPayload throws in an async function whose promise is   *)
(* returned, not awaited: the catch block does not see it.                 *)
ExtractMalformedJson(p) ==
    /\ pc[p] = "started"
    /\ kind[target[p]] = "json"
    /\ file[target[p]]
    /\ hash[target[p]] \in Malformed
    /\ End(p)
    /\ UNCHANGED <<documentVars, target, scan>>

(* Everything else goes to the extraction model.                           *)
ExtractCall(p) ==
    /\ pc[p] = "started"
    /\ kind[target[p]] = "provider"
    /\ file[target[p]]
    /\ GoTo(p, "calling")
    /\ UNCHANGED <<documentVars, target, scan>>

ExtractAnswer(p, result) ==
    /\ pc[p] = "calling"
    /\ rows' = [rows EXCEPT ![p] = result]
    /\ pc' = [pc EXCEPT ![p] = "settling"]
    /\ UNCHANGED <<documentVars, target, payload, scan>>

(* The provider answers with an error, or with something that is not JSON. *)
ExtractProviderError(p) ==
    /\ pc[p] = "calling"
    /\ GoTo(p, "failing")
    /\ UNCHANGED <<documentVars, target, scan>>

(* (Mistake: a status no uploaded document has.)                           *)
ExtractSettle_Processed(p) ==
    /\ pc[p] = "settling"
    /\ Live(target[p])
    /\ SetStatus(target[p], "PROCESSED")
    /\ GoTo(p, "saving")
    /\ UNCHANGED <<hash, kind, kept, file, extraction, records, target, scan>>

ExtractSettle(p) ==
    /\ pc[p] = "settling"
    /\ Live(target[p])
    /\ SetStatus(target[p], IF rows[p] # {} THEN "REVIEW_REQUIRED" ELSE "NO_DATA_FOUND")
    /\ GoTo(p, "saving")
    /\ UNCHANGED <<hash, kind, kept, file, extraction, records, target, scan>>

(* saveExtractionResult: one extraction per document, replaced each time.  *)
ExtractSave(p) ==
    /\ pc[p] = "saving"
    /\ Live(target[p])
    /\ extraction' = [extraction EXCEPT ![target[p]] = rows[p]]
    /\ GoTo(p, "logging")
    /\ UNCHANGED <<status, hash, kind, kept, file, records, target, scan>>

(* The audit log and the activity tracking; then the answer.               *)
ExtractLog(p) ==
    /\ pc[p] = "logging"
    /\ End(p)
    /\ UNCHANGED <<documentVars, target, scan>>

(* The catch block.                                                        *)
ExtractFail(p) ==
    /\ pc[p] = "failing"
    /\ SetStatus(target[p], "EXTRACTION_FAILED")
    /\ End(p)
    /\ UNCHANGED <<hash, kind, kept, file, extraction, records, target, scan>>

(* The document was deleted meanwhile: the update rejects, the one of the  *)
(* catch block too, and the request ends having written nothing.           *)
ExtractGone(p) ==
    /\ pc[p] \in {"settling", "saving"}
    /\ ~ Live(target[p])
    /\ End(p)
    /\ UNCHANGED <<documentVars, target, scan>>

(* A read, a write or a tracking call of extract rejects.  The catch block *)
(* turns it into a failed extraction, except before the try block, inside  *)
(* the un-awaited extraction of a table or a JSON file, and in the catch   *)
(* block itself: there the request just ends.                              *)
ExtractFault(p) ==
    /\ Faults
    /\ \/ /\ pc[p] = "started" \/ (pc[p] \in WritingPcs /\ kind[target[p]] = "provider")
          /\ GoTo(p, "failing")
       \/ /\ pc[p] \in {"started", "failing"}
             \/ (pc[p] \in WritingPcs /\ kind[target[p]] # "provider")
          /\ End(p)
    /\ UNCHANGED <<documentVars, target, scan>>

-----------------------------------------------------------------------------
(* DocumentExtractionService.confirmImport                                 *)

Importable(s) == \A n \in DOMAIN s : s[n].content \notin Invalid

(* The document and its extraction are read BEFORE the transaction; an     *)
(* activity that does not validate ends the request here, with no effect.  *)
ConfirmRead(p, d, s) ==
    /\ pc[p] = "idle"
    /\ Live(d) /\ MayStart(d)
    /\ Importable(s)
    /\ target' = [target EXCEPT ![p] = d]
    /\ rows' = [rows EXCEPT ![p] = extraction[d]]
    /\ payload' = [payload EXCEPT ![p] = s]
    /\ pc' = [pc EXCEPT ![p] = "confirming"]
    /\ UNCHANGED <<documentVars, scan>>

(* The transaction reads the records the document already has.  It locks   *)
(* nothing.                                                                *)
ConfirmScan(p) ==
    /\ pc[p] = "confirming"
    /\ scan' = [scan EXCEPT ![p] = RecordsOf(target[p])]
    /\ GoTo(p, "scanned")
    /\ UNCHANGED <<documentVars, target>>

ImportedKeys(p) == StoredKeys(scan[p])

(* It creates what is new and settles the document's status.  A record of  *)
(* a deleted document violates its foreign key, and the update of a        *)
(* deleted document rejects: see ConfirmAbort.                             *)
ConfirmCommit(p) ==
    /\ pc[p] = "scanned"
    /\ Live(target[p])
    /\ records' = records \cup
         {[doc |-> target[p], by |-> p, of |-> a] : a \in ToCreate(payload[p], ImportedKeys(p))}
    /\ SetStatus(target[p], StatusAfter(rows[p], KeysAfter(payload[p], ImportedKeys(p))))
    /\ End(p)
    /\ UNCHANGED <<hash, kind, kept, file, extraction, target, scan>>

(* Rolled back: a conflict, a constraint, the pool (10 s) or the           *)
(* transaction timeout (60 s).                                             *)
ConfirmAbort(p) ==
    /\ pc[p] \in ConfirmPcs
    /\ End(p)
    /\ UNCHANGED <<documentVars, target, scan>>

-----------------------------------------------------------------------------
(* DocumentsService.remove, one transaction: the records found are deleted,*)
(* then the document with its extraction.  The file stays on disk.         *)

RemoveScan(p, d) ==
    /\ pc[p] = "idle"
    /\ Live(d) /\ MayStart(d)
    /\ target' = [target EXCEPT ![p] = d]
    /\ scan' = [scan EXCEPT ![p] = RecordsOf(d)]
    /\ GoTo(p, "removing")
    /\ UNCHANGED documentVars

(* (Mistake: the records are left to the foreign key, which is SET NULL.)  *)
RemoveCommit_KeepsRecords(p) ==
    /\ pc[p] = "removing"
    /\ Live(target[p])
    /\ extraction' = [extraction EXCEPT ![target[p]] = {}]
    /\ status' = [status EXCEPT ![target[p]] = "deleted"]
    /\ End(p)
    /\ UNCHANGED <<hash, kind, kept, file, records, target, scan>>

RemoveCommit(p) ==
    /\ pc[p] = "removing"
    /\ Live(target[p])
    /\ records' = records \ scan[p]
    /\ extraction' = [extraction EXCEPT ![target[p]] = {}]
    /\ status' = [status EXCEPT ![target[p]] = "deleted"]
    /\ End(p)
    /\ UNCHANGED <<hash, kind, kept, file, target, scan>>

(* A second deletion of the same document, or a failing statement.         *)
RemoveAbort(p) ==
    /\ pc[p] = "removing"
    /\ End(p)
    /\ UNCHANGED <<documentVars, target, scan>>

(* ActivityDataService.remove, bulkDelete: a user deletes a record.        *)
DeleteRecord(r) ==
    /\ r \in records
    /\ MayStart(r.doc)
    /\ records' = records \ {r}
    /\ UNCHANGED <<status, hash, kind, kept, file, extraction, requestVars>>

-----------------------------------------------------------------------------
(* The process stops: requests die where they are, transactions that did   *)
(* not commit are rolled back, the database and the files remain.          *)
Crash ==
    /\ Crashes
    /\ \E p \in Requests : InFlight(p)
    /\ pc' = [p \in Requests |-> IF InFlight(p) THEN "done" ELSE pc[p]]
    /\ rows' = [p \in Requests |-> {}]
    /\ payload' = [p \in Requests |-> << >>]
    /\ UNCHANGED <<documentVars, target, scan>>

Extracting(p) ==
    \/ ExtractFileMissing(p) \/ ExtractParse(p) \/ ExtractUnreadable(p)
    \/ ExtractMalformedJson(p) \/ ExtractCall(p)
    \/ \E result \in ProviderResults : ExtractAnswer(p, result)
    \/ ExtractProviderError(p) \/ ExtractSettle(p) \/ ExtractSave(p)
    \/ ExtractLog(p) \/ ExtractFail(p) \/ ExtractGone(p) \/ ExtractFault(p)

Uploading(p) ==
    \/ \E h \in Hashes : UploadRefused(p, h)
    \/ \E d \in Docs, h \in Hashes, k \in Kinds, c \in BOOLEAN : UploadCheck(p, d, h, k, c)
    \/ UploadCreate(p)

Confirming(p) ==
    \/ \E d \in Docs, s \in Payloads : ConfirmRead(p, d, s)
    \/ ConfirmScan(p) \/ ConfirmCommit(p) \/ ConfirmAbort(p)

Removing(p) ==
    \/ \E d \in Docs : RemoveScan(p, d)
    \/ RemoveCommit(p) \/ RemoveAbort(p)

Next ==
    \/ \E p \in Requests :
          \/ Uploading(p)
          \/ \E d \in Docs : ExtractStart(p, d)
          \/ Extracting(p) \/ Confirming(p) \/ Removing(p)
    \/ \E d \in Docs : FileLost(d)
    \/ \E r \in records : DeleteRecord(r)
    \/ Crash

Spec == Init /\ [][Next]_vars

(* A request that is being served goes on: the event loop is fair, and the *)
(* OpenAI client gives up on its own after its default timeout.  Nobody is *)
(* obliged to send a request.                                              *)
Fairness == \A p \in Requests : WF_vars(Extracting(p))

FairSpec == Spec /\ Fairness
-----------------------------------------------------------------------------
TypeOK ==
    /\ status \in [Docs -> DocumentStatus \cup {"none", "deleted"}]
    /\ hash \in [Docs -> Hashes \cup {NoHash}]
    /\ kind \in [Docs -> Kinds \cup {"none"}]
    /\ kept \in [Docs -> BOOLEAN]
    /\ file \in [Docs -> BOOLEAN]
    /\ extraction \in [Docs -> SUBSET Activity]
    /\ records \subseteq Record
    /\ pc \in [Requests -> {"idle", "done"} \cup ActivePcs]
    /\ target \in [Requests -> Docs \cup {NoDoc}]
    /\ rows \in [Requests -> SUBSET Activity]
    /\ payload \in [Requests -> Seq(Activity)]
    /\ scan \in [Requests -> SUBSET Record]
    /\ \A d \in Docs : status[d] # "none" => hash[d] \in Hashes
    /\ \A p \in Requests :
          InFlight(p) => target[p] \in Docs /\ hash[target[p]] \in Hashes

-----------------------------------------------------------------------------
(* Two records are the same one when the importer would give them the same *)
(* key if it read them back.                                               *)
SameRecord(r1, r2) == r1.doc = r2.doc /\ StoredKey(r1.of) = StoredKey(r2.of)

(* confirmImport imports an activity of a document once: whatever is       *)
(* confirmed, repeated, retried after a crash or re-extracted, no two      *)
(* records of a document have one key.                                     *)
NoDoubleImport == \A r1, r2 \in records : SameRecord(r1, r2) => r1 = r2

(* What is left of it when clients do not wait: two copies come from two   *)
(* confirmations neither of which had seen the record of the other, so     *)
(* only from overlapping transactions, never from a repetition.            *)
DuplicatesOnlyFromOverlap ==
    \A r1, r2 \in records :
        SameRecord(r1, r2) /\ r1 # r2 => r1.by # r2.by /\ r1 \notin scan[r2.by]

(* "Retain their existing content identity": a confirmation never adds a   *)
(* table row whose rowless predecessor the document already has, nor a     *)
(* record under a key that is taken.  (A part of PromiseKept.)             *)
LegacyIdentityKept ==
    [][\A r \in records' \ records, o \in records :
          o.doc = r.doc => StoredKey(o.of) \notin {RecordKey(r.of), FallbackKey(r.of)}]_vars

(* Deleting a document deletes its records (DocumentsService.remove), so a *)
(* record's source document exists.                                        *)
NoOrphanRecords == \A r \in records : Live(r.doc)

Hidden(d) ==
    /\ status[d] = "IMPORTED"
    /\ Unresolved(extraction[d], StoredKeys(RecordsOf(d))) # {}

(* "A partial import must keep those unresolved rows reachable": a document*)
(* does not come to be IMPORTED with extracted rows that have no record,   *)
(* unless the user deletes the record afterwards.                          *)
ImportedMeansResolved ==
    [][\A d \in Docs : Hidden(d)' /\ ~ Hidden(d) => records \ records' # {}]_vars

(* A document that says PROCESSING is being processed by some request that *)
(* will settle it -- except a malformed JSON file, which extract leaves    *)
(* in PROCESSING when it has already answered.                             *)
ProcessingHasWorker ==
    \A d \in Docs :
        status[d] = "PROCESSING" =>
            \/ \E p \in Requests : pc[p] \in ExtractPcs \ {"saving", "logging"} /\ target[p] = d
            \/ kind[d] = "json" /\ hash[d] \in Malformed

(* upload refuses bytes that are there already: of several documents with  *)
(* one hash all but one were kept on purpose.                              *)
DuplicateNeedsConsent ==
    \A d, e \in Docs :
        Live(d) /\ Live(e) /\ d # e /\ hash[d] = hash[e] => kept[d] \/ kept[e]

(* An extraction ends: no document stays in PROCESSING, malformed JSON     *)
(* files excepted, whatever the provider answers.                          *)
ProcessingSettles ==
    \A d \in Docs :
        (status[d] = "PROCESSING" /\ ~ (kind[d] = "json" /\ hash[d] \in Malformed))
            ~> status[d] # "PROCESSING"

(* The status a document shows of its import.                              *)
Stage(d) ==
    CASE status[d] = "none" -> "none"
      [] status[d] = "deleted" -> "gone"
      [] status[d] = "IMPORTED" -> "finished"
      [] OTHER -> "open"

(* All of this together: uploads, extractions, confirmations and deletions *)
(* of clients that wait, with everything that fails between their steps,   *)
(* amount to the steps of ImportOnce.                                      *)
Promise == INSTANCE ImportOnce WITH
    stage <- [d \in Docs |-> Stage(d)],
    found <- extraction,
    Key <- [a \in Activity |-> StoredKey(a)],
    ContentKey <- [a \in Activity |-> FallbackKey(a)]

PromiseKept == Promise!Spec

-----------------------------------------------------------------------------
(* The inductive strengthening of DuplicatesOnlyFromOverlap: a record is   *)
(* seen, by anybody, only once the request that created it is over.        *)

Canonical == \A c \in Contents : Stored[c] = c

CreatorIsDone ==
    /\ \A r \in records : pc[r.by] = "done"
    /\ \A p \in Requests : \A r \in scan[p] : pc[r.by] = "done"

OverlapInv == TypeOK /\ CreatorIsDone /\ DuplicatesOnlyFromOverlap

(* ... and of what holds when clients wait: no two requests are about one  *)
(* document, so what a transaction has read is still everything there is.  *)

OneRequestPerDocument ==
    \A p, q \in Requests :
        InFlight(p) /\ InFlight(q) /\ p # q => target[p] # target[q]

ScanIsCurrent ==
    \A p \in Requests :
        pc[p] \in {"scanned", "removing"} => RecordsOf(target[p]) \subseteq scan[p]

WaitingInv ==
    TypeOK /\ OneRequestPerDocument /\ ScanIsCurrent /\ NoOrphanRecords

SerialInv == WaitingInv /\ NoDoubleImport

=============================================================================
