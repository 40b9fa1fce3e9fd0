-------------------------- MODULE MCPilotReviewers --------------------------
(* PilotReviewers for TLC: one e-mail address, the sample workspace and    *)
(* another one, a sample of two records.                                   *)
EXTENDS PilotReviewers, TLC

CONSTANTS blank, standard, mine, Mine, sample, other

MCBoundaries == {blank, standard, mine, Mine}
MCComplete == {standard, mine, Mine, blank}
MCFolded == [b \in MCBoundaries |-> IF b = Mine THEN mine ELSE b]
MCSaves == {[name |-> sample, boundary |-> mine, version |-> 1, review |-> TRUE],
            [name |-> sample, boundary |-> Mine, version |-> 0, review |-> FALSE],
            [name |-> sample, boundary |-> standard, version |-> 0, review |-> FALSE],
            [name |-> sample, boundary |-> blank, version |-> 2, review |-> TRUE],
            [name |-> other, boundary |-> mine, version |-> 0, review |-> FALSE]}

Symmetry == Permutations(Requests) \cup Permutations(Workspaces) \cup Permutations(Items)
=============================================================================
