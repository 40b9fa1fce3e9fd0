----------------------------- MODULE ImportOnce -----------------------------
(***************************************************************************)
(* What importing documents promises, without requests or transactions: an *)
(* activity of a document has one record, or an earlier record stands for  *)
(* it; a document is finished when every row found in it has one; records  *)
(* leave with their document.                                              *)
(***************************************************************************)
CONSTANTS
    Docs,
    Record,      \* the records there can be: of which document, from which activity
    Key,         \* Key[a]: what tells the record of activity a from others
    ContentKey   \* ContentKey[a]: the key it would have without its source row

VARIABLES
    stage,       \* "none" before, "open", "finished" and "gone" after the document
    found,       \* the activities found in it
    records

onceVars == <<stage, found, records>>

(* A record of activity o is, or stands for, the record of activity a.     *)
StandsFor(o, a) == Key[o] \in {Key[a], ContentKey[a]}

AllResolved(d, R) == \A a \in found[d] : \E r \in R : r.doc = d /\ StandsFor(r.of, a)

There(d) == stage[d] \in {"open", "finished"}

Init ==
    /\ stage = [d \in Docs |-> "none"]
    /\ found = [d \in Docs |-> {}]
    /\ records = {}

(* A document comes once.                                                  *)
Upload(d) ==
    /\ stage[d] = "none"
    /\ stage' = [stage EXCEPT ![d] = "open"]
    /\ UNCHANGED <<found, records>>

(* It is looked at again ...                                               *)
Reopen(d) ==
    /\ stage[d] = "finished"
    /\ stage' = [stage EXCEPT ![d] = "open"]
    /\ UNCHANGED <<found, records>>

(* ... and only then other rows are found in it.                           *)
Extract(d) ==
    /\ stage[d] = "open"
    /\ UNCHANGED <<stage, records>>
    /\ \E rows \in SUBSET DOMAIN Key : found' = [found EXCEPT ![d] = rows]

(* Records are added for activities that no record of the document stands  *)
(* for, one for each key; what is then left decides whether the document   *)
(* is finished.                                                            *)
Import(d, new) ==
    /\ There(d)
    /\ new \subseteq Record
    /\ \A r \in new :
          /\ r.doc = d
          /\ \A o \in records : o.doc = d => ~ StandsFor(o.of, r.of)
          /\ \A other \in new : Key[other.of] = Key[r.of] => other = r
    /\ records' = records \cup new
    /\ stage' = [stage EXCEPT ![d] = IF AllResolved(d, records') THEN "finished" ELSE "open"]
    /\ UNCHANGED found

Discard(d) ==
    /\ There(d)
    /\ records' = {r \in records : r.doc # d}
    /\ stage' = [stage EXCEPT ![d] = "gone"]
    /\ found' = [found EXCEPT ![d] = {}]

(* A user deletes a record by itself; its document stays as it is.         *)
Forget(r) ==
    /\ records' = records \ {r}
    /\ UNCHANGED <<stage, found>>

Next ==
    \/ \E d \in Docs :
          Upload(d) \/ Reopen(d) \/ Extract(d) \/ Import(d, records' \ records) \/ Discard(d)
    \/ \E r \in records : Forget(r)

Spec == Init /\ [][Next]_onceVars
=============================================================================
