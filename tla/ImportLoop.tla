----------------------------- MODULE ImportLoop -----------------------------
(***************************************************************************)
(* The body of one confirmImport transaction, loop iteration by loop       *)
(* iteration: fill the Map, walk over it creating what is new, count the   *)
(* extraction rows that are left, choose the document's status.            *)
(* It is sequential; the question is whether ImportIdentity, which         *)
(* DocumentImport uses as one atomic step, says what these loops compute.  *)
(***************************************************************************)
EXTENDS ImportIdentity

CONSTANTS
    MaxLen,        \* bound: activities in one confirmation
    ExtractedSets  \* the extractions a document may have when it is confirmed

ASSUME LoopAssumption ==
    /\ MaxLen \in Nat
    /\ ExtractedSets \subseteq SUBSET Activity

VARIABLES
    activities,    \* the confirmed activities, in the order of the request
    existing,      \* the keys of the records the document already has
    extracted,     \* the document's extraction rows
    merged,        \* the Map, as the sequence of its values in key order
    i,             \* index of the loop that is running
    importedKeys,
    created,       \* the activities created, in order
    docStatus,     \* the status written, "none" before
    pc

vars == <<activities, existing, extracted, merged, i, importedKeys, created, docStatus, pc>>

(* Record keys read from the database are canonical ones.                  *)
StoredKeys == {StoredKey(a) : a \in Activity}

Init ==
    /\ activities \in UNION {[1..n -> Activity] : n \in 0..MaxLen}
    /\ existing \in SUBSET StoredKeys
    /\ extracted \in ExtractedSets
    /\ merged = << >>
    /\ i = 1
    /\ importedKeys = existing
    /\ created = << >>
    /\ docStatus = "none"
    /\ pc = "merge"

SlotOf(a) == {m \in DOMAIN merged : RecordKey(merged[m]) = RecordKey(a)}

(* (Mistake: the first activity of a key wins.)                            *)
Merge_FirstWins ==
    /\ pc = "merge"
    /\ i <= Len(activities)
    /\ merged' = IF SlotOf(activities[i]) = {}
                 THEN Append(merged, activities[i]) ELSE merged
    /\ i' = i + 1
    /\ UNCHANGED <<activities, existing, extracted, importedKeys, created, docStatus, pc>>

(* merged.set(key, activity): a key that is there keeps its place.         *)
Merge ==
    /\ pc = "merge"
    /\ i <= Len(activities)
    /\ merged' = IF SlotOf(activities[i]) = {}
                 THEN Append(merged, activities[i])
                 ELSE [m \in DOMAIN merged |->
                         IF m \in SlotOf(activities[i]) THEN activities[i] ELSE merged[m]]
    /\ i' = i + 1
    /\ UNCHANGED <<activities, existing, extracted, importedKeys, created, docStatus, pc>>

MergeDone ==
    /\ pc = "merge"
    /\ i > Len(activities)
    /\ pc' = "import"
    /\ i' = 1
    /\ UNCHANGED <<activities, existing, extracted, merged, importedKeys, created, docStatus>>

(* continue: the record, or its rowless predecessor, is already there.     *)
SkipImported ==
    /\ pc = "import"
    /\ i <= Len(merged)
    /\ Covered(merged[i], importedKeys)
    /\ i' = i + 1
    /\ UNCHANGED <<activities, existing, extracted, merged, importedKeys, created, docStatus, pc>>

(* (Mistake: the content of what is created is taken as imported, too.)    *)
CreateRecord_TakesContent ==
    /\ pc = "import"
    /\ i <= Len(merged)
    /\ ~ Covered(merged[i], importedKeys)
    /\ created' = Append(created, merged[i])
    /\ importedKeys' = importedKeys \cup {RecordKey(merged[i]), FallbackKey(merged[i])}
    /\ i' = i + 1
    /\ UNCHANGED <<activities, existing, extracted, merged, docStatus, pc>>

CreateRecord ==
    /\ pc = "import"
    /\ i <= Len(merged)
    /\ ~ Covered(merged[i], importedKeys)
    /\ created' = Append(created, merged[i])
    /\ importedKeys' = importedKeys \cup {RecordKey(merged[i])}
    /\ i' = i + 1
    /\ UNCHANGED <<activities, existing, extracted, merged, docStatus, pc>>

WriteStatus ==
    /\ pc = "import"
    /\ i > Len(merged)
    /\ docStatus' = StatusAfter(extracted, importedKeys)
    /\ pc' = "done"
    /\ UNCHANGED <<activities, existing, extracted, merged, i, importedKeys, created>>

Next == Merge \/ MergeDone \/ SkipImported \/ CreateRecord \/ WriteStatus

Spec == Init /\ [][Next]_vars

-----------------------------------------------------------------------------
CreatedSet == {created[n] : n \in DOMAIN created}

(* The loops compute what ImportIdentity says: the Map keeps the last      *)
(* activity of every key, the records created are ToCreate, none of them   *)
(* twice, and the keys known afterwards are KeysAfter.                     *)
LoopComputesToCreate ==
    pc = "done" =>
        /\ {merged[n] : n \in DOMAIN merged} = Merged(activities)
        /\ CreatedSet = ToCreate(activities, existing)
        /\ \A m, n \in DOMAIN created :
              m # n => RecordKey(created[m]) # RecordKey(created[n])
        /\ importedKeys = KeysAfter(activities, existing)
        /\ docStatus = StatusAfter(extracted, KeysAfter(activities, existing))

(* Nothing that was confirmed is lost: the last version of every confirmed *)
(* activity has a record under its own key, and only a rowless record of   *)
(* the same content may stand for a table row -- not another table row     *)
(* "whose activity values happen to be equal".                             *)
NothingConfirmedIsLost ==
    pc = "done" =>
        LET recorded == existing \cup {RecordKey(a) : a \in CreatedSet}
        IN  \A a \in Merged(activities) : Covered(a, recorded)

(* Confirming the very same request again, after the database has stored   *)
(* what the first one created, creates nothing -- as long as storage       *)
(* returns the contents it was given.                                      *)
ConfirmIsIdempotent ==
    pc = "done" =>
        ToCreate(activities, existing \cup {StoredKey(a) : a \in CreatedSet}) = {}
=============================================================================
