-------------------------- MODULE CalculationLedger --------------------------
(***************************************************************************)
(* What the calculation of activity records promises, without saying how:  *)
(* the calculations of a record are numbered one after the other, and      *)
(* every one of them is entered in the history of the record together with *)
(* the result it replaces.                                                 *)
(***************************************************************************)
EXTENDS Naturals, Sequences

CONSTANTS
    Records,
    Results      \* what a calculation may come to

VARIABLES
    version,     \* the number of the calculation a record shows; 0: no calculation
    current,     \* the result it shows
    history      \* the calculations that followed the first one, in their order

ledgerVars == <<version, current, history>>

Init ==
    /\ version = [r \in Records |-> 0]
    /\ current \in [Records -> Results]
    /\ history = [r \in Records |-> << >>]

(* The first calculation comes with the record.                            *)
Register(r, new) ==
    /\ version[r] = 0
    /\ version' = [version EXCEPT ![r] = 1]
    /\ current' = [current EXCEPT ![r] = new]
    /\ UNCHANGED history

Recalculate(r, new) ==
    /\ version[r] > 0
    /\ version' = [version EXCEPT ![r] = @ + 1]
    /\ current' = [current EXCEPT ![r] = new]
    /\ history' = [history EXCEPT ![r] =
          Append(@, [version |-> version'[r], old |-> current[r], new |-> new])]

Next == \E r \in Records, new \in Results : Register(r, new) \/ Recalculate(r, new)

Spec == Init /\ [][Next]_ledgerVars
=============================================================================
