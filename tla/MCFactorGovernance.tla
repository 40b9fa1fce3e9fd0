------------------------- MODULE MCFactorGovernance -------------------------
(* FactorGovernance for TLC: a factor with a verified version of 2025 and  *)
(* a draft that may replace it, a source of each kind, and the same place  *)
(* written with a null region and with an empty one.                       *)
EXTENDS FactorGovernance, TLC

CONSTANTS canada, blank, alberta, undated, c1, c2, gov, other, fresh

MCSlots == {canada, blank, alberta, undated}
MCCanon == [s \in MCSlots |-> IF s = blank THEN canada ELSE s]
MCPlaced == {canada, blank, alberta}
MCYear == [s \in MCSlots |-> IF s = undated THEN 2026 ELSE 2025]
MCRecency == [s \in MCSlots |-> IF s = undated THEN 2 ELSE 1]

Version(status, n, content, source) ==
    [status |-> status, verified |-> status = "VERIFIED", label |-> <<2025, n>>,
     content |-> content, slot |-> canada, source |-> source]

MCSeededVersions ==
    [v \in Versions |->
        CASE v = 1 -> Version("VERIFIED", 1, c1, gov)
          [] v = 2 -> Version("DRAFT", 2, c2, gov)
          [] OTHER -> NoVersion]

MCSeededSources ==
    [s \in Sources |->
        CASE s = gov   -> [active |-> TRUE, official |-> TRUE, standing |-> "government"]
          [] s = other -> [active |-> TRUE, official |-> FALSE, standing |-> "documented"]
          [] OTHER     -> NoSource]

MCNewVersions == {[slot |-> blank], [slot |-> alberta], [source |-> other, label |-> <<2025, 2>>]}
MCEdits == {[content |-> c1], [slot |-> undated], [source |-> other]}
MCPatches == {[active |-> FALSE], [official |-> TRUE], [standing |-> "undocumented"]}

Symmetry == Permutations(Requests)
=============================================================================
