---------------------------- MODULE MCImportLoop ----------------------------
(* ImportLoop for TLC: two table rows, two contents, every request of up   *)
(* to MaxLen activities against every set of keys already imported.        *)
EXTENDS ImportLoop

CONSTANTS r2, r3, a, b

MCSourceRows == {r2, r3}
MCContents == {a, b}

(* Storage gives back what it was given.                                   *)
MCStoredExactly == [c \in MCContents |-> c]

(* b is a quantity with more decimals than Decimal(18,4) keeps, or a date  *)
(* not written as YYYY-MM-DD; it reads back as a.                          *)
MCStoredRounded == [c \in MCContents |-> a]

(* A table with two equal rows, and the rowless extraction of an invoice.  *)
MCExtractedSets == {{[row |-> r2, content |-> a], [row |-> r3, content |-> a]},
                    {[row |-> NoRow, content |-> b]}}
=============================================================================
