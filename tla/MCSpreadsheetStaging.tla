------------------------ MODULE MCSpreadsheetStaging ------------------------
(* SpreadsheetStaging for TLC: a workbook of two rows, on one sheet, where *)
(* the listing has row 11 before row 2, or on two sheets that number their *)
(* rows alike.                                                             *)
EXTENDS SpreadsheetStaging, TLC, FiniteSets

CONSTANTS good, noProvince, blank

MCContents == {good, noProvince, blank}
MCStored == [c \in MCContents |-> c]
MCEvaluation == [c \in MCContents |-> IF c = good THEN "READY" ELSE "NEEDS_REVIEW"]

MCOneSheet == {1}
MCTwoSheets == {1, 2}
MCTwoRows == {2, 11}
MCOneRow == {2}

Ready(c) == [status |-> "READY", content |-> c]
ToReview(c) == [status |-> "NEEDS_REVIEW", content |-> c]

MCLength == Cardinality(Slots)
MCListed ==
    [s \in Slots |->
        Cardinality({t \in Slots : t = s \/ t[2] > s[2] \/ (t[2] = s[2] /\ t[1] < s[1])})]

FirstSlot == CHOOSE s \in Slots : \A t \in Slots : ~ Before(t, s)

AsListed(rowSets) == {[rows |-> f, order |-> Listed] : f \in rowSets}
AnyOrder(rowSets) == {[rows |-> f, order |-> o] : f \in rowSets, o \in Orders}

AllReady == [s \in Slots |-> Ready(good)]
AllGood == [s \in Slots |-> good]

(* Everything ready; one row blank; one row without its province; a part.  *)
MCSaves ==
    AnyOrder({AllReady}) \cup
    AsListed({[s \in Slots |-> IF s = FirstSlot THEN Ready(good) ELSE ToReview(blank)],
              [s \in Slots |-> IF s = FirstSlot THEN ToReview(noProvince) ELSE Ready(good)],
              [s \in {FirstSlot} |-> Ready(good)]})

(* What is ready; everything; one row; a row that turns out to lack its    *)
(* province.                                                               *)
MCConfirms ==
    AnyOrder({AllGood}) \cup
    AsListed({<< >>,
              [s \in Slots \ {FirstSlot} |-> good],
              [s \in {FirstSlot} |-> noProvince]})

(* For runs with many overlaps.                                            *)
MCFewSaves ==
    AsListed({AllReady,
              [s \in Slots |-> IF s = FirstSlot THEN Ready(good) ELSE ToReview(blank)]})
MCFewConfirms == AsListed({<< >>, AllGood, [s \in Slots \ {FirstSlot} |-> good]})

Symmetry == Permutations(Requests)
=============================================================================
