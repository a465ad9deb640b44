------------------------------- MODULE Judging -------------------------------
(***************************************************************************)
(* What the judge service promises of the runs of a submission, without    *)
(* saying how they are kept, cancelled or reported (the handlers and       *)
(* run_judge of scheduler2/main.py).                                       *)
(*                                                                         *)
(* A run begins when every run of the submission before it is over, so     *)
(* there is one at a time.  Once judging has begun it ends in one way      *)
(* only: its result is handed over, and then the run is done.  Only a run  *)
(* that was not begun to be judged is dropped, and only a stop of the      *)
(* scheduler loses what was begun.  What was handed over stays so.         *)
(***************************************************************************)
EXTENDS Naturals

CONSTANTS Submissions, MaxRuns

VARIABLES
    stage,   \* of each run
    handed   \* runs whose result was handed over

vars == <<stage, handed>>

Runs == Submissions \X (1..MaxRuns)
Gone == {"done", "lost"}

Init ==
    /\ stage = [r \in Runs |-> "new"]
    /\ handed = {}

\* Runs are registered, the next of each submission that has none.
Begin(S) ==
    /\ \A r \in S, q \in Runs :
          q[1] = r[1] => IF q[2] < r[2] THEN stage[q] \in Gone ELSE stage[q] = "new"
    /\ stage' = [r \in Runs |-> IF r \in S THEN "queued" ELSE stage[r]]
    /\ UNCHANGED handed

Move(r, from, to) ==
    /\ stage[r] = from
    /\ stage' = [stage EXCEPT ![r] = to]

Judge(r) == Move(r, "queued", "judging") /\ UNCHANGED handed
Drop(r) == Move(r, "queued", "lost") /\ UNCHANGED handed
HandOver(r) == Move(r, "judging", "reported") /\ handed' = handed \union {r}
End(r) == Move(r, "reported", "done") /\ UNCHANGED handed

\* The scheduler stops; what was being sent is given up.
Stop ==
    /\ stage' = [r \in Runs |-> IF stage[r] \in {"queued", "judging", "reported"} THEN "lost" ELSE stage[r]]
    /\ UNCHANGED handed

Next ==
    \/ \E S \in SUBSET Runs : Begin(S)
    \/ \E r \in Runs : Judge(r) \/ Drop(r) \/ HandOver(r) \/ End(r)
    \/ Stop

Spec == Init /\ [][Next]_vars
=============================================================================
