------------------------------- MODULE MCPlan -------------------------------
(* Instances of Plan for TLC.                                              *)
EXTENDS Plan

Ids3 == <<2, 3, 1>>
Ids4 == <<1, 2, 3, 4>>
Ids7 == <<1, 2, 3, 4, 5, 6, 7>>
Swapped == <<2, 1>>

\* One problem: four tasks, of which the third depends on the first and on the
\* second, which depends on the first, and the fourth on the third.
Diamond ==
    /\ dep = <<0, 0, 1, 0, 3, 2, 6>>
    /\ Init
    /\ task = <<1, 1, 2, 2, 3, 3, 4>>
    /\ scored = Points
DiamondSpec == Diamond /\ [][Next]_vars

\* Every testpoint counts for the score.
ScoredSpec == Init /\ scored = Points /\ [][Next]_vars

\* The dependencies go round in a circle.
RECURSIVE Ancestors(_, _)
Ancestors(S, n) ==
    IF n = 0 THEN S ELSE Ancestors({Target(i) : i \in {i \in S : dep[i] # 0}}, n - 1)
Looped == \E i \in Points, n \in 1..Len(Ids) : Ancestors({i}, n) = {i}

\* Message of synthesize_scores: "Loop detected in dependent_on relations".
LoopDetectedIsLoop == phase = "loop detected" => Looped
=============================================================================
