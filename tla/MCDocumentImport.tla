-------------------------- MODULE MCDocumentImport --------------------------
(* DocumentImport for TLC: a table with two physical rows of equal content,*)
(* the rowless rows a provider reads, a correction of a row, and the       *)
(* requests that mix them.                                                 *)
EXTENDS DocumentImport, TLC

CONSTANTS r2, r3, a, b, h1, h2

MCSourceRows == {r2, r3}
MCContents == {a, b}
MCStored == [c \in MCContents |-> c]

Row(r, c) == [row |-> r, content |-> c]
Rowless(c) == [row |-> NoRow, content |-> c]

MCOneHash == {h1}
MCTwoHashes == {h1, h2}
MCNoneMalformed == {}
MCSecondMalformed == {h2}
MCFileRows == [h \in Hashes |-> {Row(r2, a), Row(r3, a)}]

MCProviderResults == {{}, {Rowless(a), Rowless(b)}}
MCOneProviderResult == {{Rowless(a), Rowless(b)}}

(* A waiting client: an old rowless row, and both rows of the table.  What *)
(* other requests a confirmation may carry is MCImportLoop's question.     *)
MCWaitingPayloads == {<<Rowless(a)>>, <<Row(r2, a), Row(r3, a)>>}

(* For the runs about overlapping requests: one activity, or both rows.    *)
MCFewPayloads == {<<Row(r2, a)>>, <<Row(r2, a), Row(r3, a)>>}

Symmetry == Permutations(Requests) \cup Permutations(Docs)
=============================================================================
