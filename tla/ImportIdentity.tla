--------------------------- MODULE ImportIdentity ---------------------------
(***************************************************************************)
(* What makes two activity records of one document "the same record".      *)
(*                                                                         *)
(* src/document-extraction/document-extraction.service.ts gives every      *)
(* activity of a document a record key (buildImportActivityRecordKey):     *)
(* the physical source row when the activity has one, otherwise its        *)
(* content (reference, type, date, quantity, unit).  A confirmation merges *)
(* the confirmed activities by that key (mergeImportActivities) and skips  *)
(* those whose key, or whose content key, the document already has.        *)
(*                                                                         *)
(* This module states the outcome of that code declaratively, without      *)
(* loops; ImportLoop runs the loops themselves and TLC compares the two.   *)
(***************************************************************************)
EXTENDS Integers, Sequences

CONSTANTS
    SourceRows,  \* the row numbers of an uploaded table
    NoRow,       \* the source row of an activity that has none
    Contents,    \* the values of the content fields a key is built from
    Stored       \* Stored[c]: what c reads back as once PostgreSQL has stored it
                 \* (quantity rounded to Decimal(18,4), date to its UTC day)

ASSUME NoRowAssumption == NoRow \notin SourceRows

ASSUME StoredAssumption ==
    /\ Stored \in [Contents -> Contents]
    /\ \A c \in Contents : Stored[Stored[c]] = Stored[c]

Activity == [row : SourceRows \cup {NoRow}, content : Contents]

Keys == ({"row"} \X SourceRows) \cup ({"content"} \X Contents)

(* buildImportActivityRecordKey; the document id every key starts with is   *)
(* left out, because keys are only compared within one document.           *)
RecordKey(a) ==
    IF a.row = NoRow THEN <<"content", a.content>> ELSE <<"row", a.row>>

(* The same function called with { ...normalized, sourceRow: null }.       *)
WithoutRow(a) == [row |-> NoRow, content |-> a.content]
FallbackKey(a) == RecordKey(WithoutRow(a))

(* The key the importer computes for a record it reads back from storage.  *)
StoredKey(a) ==
    IF a.row = NoRow THEN <<"content", Stored[a.content]>> ELSE <<"row", a.row>>

(* Mistakes the properties catch are written next to the definition they   *)
(* replace: here, one of the two lookups dropped.                          *)
Covered_RowOnly(a, keys) == RecordKey(a) \in keys
Covered_ContentOnly(a, keys) == FallbackKey(a) \in keys

(* importedKeys.has(key) || importedKeys.has(fallbackKey)                  *)
Covered(a, keys) == RecordKey(a) \in keys \/ FallbackKey(a) \in keys

-----------------------------------------------------------------------------
(* mergeImportActivities fills a JavaScript Map: of the activities with    *)
(* one key the LAST survives, at the place where the key FIRST appeared.   *)

Merged(s) ==
    {s[i] : i \in {j \in DOMAIN s :
                     \A k \in DOMAIN s : k > j => RecordKey(s[k]) # RecordKey(s[j])}}

AppearsBefore(s, b, a) ==
    \E i \in DOMAIN s :
        /\ RecordKey(s[i]) = RecordKey(b)
        /\ \A j \in 1..i : RecordKey(s[j]) # RecordKey(a)

(* (Mistake: what the document already has is not looked up.)              *)
ToCreate_Blind(s, keys) == Merged(s)

(* The activities the loop of confirmImport creates from request s when    *)
(* the document already has the given keys.  A survivor with a source row  *)
(* is also skipped when a rowless survivor of equal content is created     *)
(* before it, because the loop adds the keys of what it creates.           *)
ToCreate(s, keys) ==
    {a \in Merged(s) :
        /\ ~ Covered(a, keys)
        /\ \A b \in Merged(s) :
              (b.row = NoRow /\ a.row # NoRow /\ b.content = a.content)
                  => ~ AppearsBefore(s, b, a)}

(* importedKeys after the loop.                                            *)
KeysAfter(s, keys) == keys \cup {RecordKey(a) : a \in ToCreate(s, keys)}

(* The extraction rows still without a record: remainingExtractedCount     *)
(* counts them.                                                            *)
Unresolved(rows, keys) == {a \in rows : ~ Covered(a, keys)}

(* (Mistake: the status of every confirmed document before partial imports.)*)
StatusAfter_Imported(rows, keys) == "IMPORTED"

(* documentStatus: a partial import stays reviewable.                      *)
StatusAfter(rows, keys) ==
    IF Unresolved(rows, keys) # {} THEN "REVIEW_REQUIRED" ELSE "IMPORTED"
=============================================================================
