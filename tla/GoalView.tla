------------------------------ MODULE GoalView ------------------------------
(***************************************************************************)
(* What the querier promises the viewer: each request opens a newer        *)
(* generation, and what is shown is only ever replaced by an answer of the *)
(* newest one, at most once per query.                                     *)
(***************************************************************************)
EXTENDS Naturals

CONSTANT Kind
VARIABLES latest,     \* generations opened
          shown       \* per kind of query, the generation shown

Init == latest = 0 /\ shown = [k \in Kind |-> 0]

Ask == latest' = latest + 1 /\ UNCHANGED shown

Show(k) == /\ shown[k] < latest
           /\ shown' = [shown EXCEPT ![k] = latest]
           /\ UNCHANGED latest

Spec == Init /\ [][Ask \/ \E k \in Kind : Show(k)]_<<latest, shown>>
============================================================================
