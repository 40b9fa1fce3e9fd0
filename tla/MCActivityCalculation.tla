------------------------ MODULE MCActivityCalculation ------------------------
(* ActivityCalculation for TLC: electricity of a facility in one province, *)
(* and of another province (the record's own, or its organization's), for  *)
(* which the library may lack a factor.                                    *)
EXTENDS ActivityCalculation, TLC

CONSTANTS ab, bc, f1, f2

MCInputs == {ab, bc}
MCRelocated == [i \in MCInputs |-> bc]
MCUnhoused == MCRelocated
MCLibraries == {[i \in MCInputs |-> IF i = ab THEN f1 ELSE f2],
                [i \in MCInputs |-> IF i = ab THEN f1 ELSE NoFactor]}
MCScopes == {Records}

Symmetry == Permutations(Requests)
=============================================================================
