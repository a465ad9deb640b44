------------------------------ MODULE MCJudge ------------------------------
(* Instances of Judge for TLC.                                             *)
EXTENDS Judge

\* What the steps and the safety properties depend on: not which result a run
\* holds, which status a record shows, so long as it is there, the updates of it
\* that are still on their way, or how often a request was sent, while all are of
\* their type.
View ==
    <<{s \in Submissions : status[s] = "absent"}, lang, posting, run, cancel, registryVars,
      ctx, [r \in Runs |-> <<req[r].kind, req[r].left, req[r].args>>], s3Vars,
      told, strayed, outside, TypeOK>>
=============================================================================
