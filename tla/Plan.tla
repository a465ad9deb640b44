-------------------------------- MODULE Plan --------------------------------
(***************************************************************************)
(* From the testpoints of a problem to the verdict on a submission: how    *)
(* parse_testpoints groups them into tasks (scheduler2/plan/generate.py),  *)
(* and how run_judge_tasks starts the tasks, skips what depends on a       *)
(* failed testpoint, and what synthesize_scores makes of the results       *)
(* (scheduler2/plan/execute.py).  What a runner answers to a task is       *)
(* judge_task of judger2/task.py; how it is reached is Dispatch.           *)
(*                                                                         *)
(* A testpoint is its position in Details.  The configurations of all      *)
(* problems of that many testpoints are the initial states.                *)
(***************************************************************************)
EXTENDS Naturals, FiniteSets, Sequences, FiniteSetsExt

CONSTANT Ids   \* ID of each testpoint, in the order of Details

ASSUME PlanAssumption == Ids \in Seq(Nat \ {0}) /\ IsInjective(Ids)

Points == 1..Len(Ids)

VARIABLES
    dep,      \* Dependency of each testpoint: an ID, or 0
    task,     \* the task of the plan that each testpoint is in
    dependents,  \* dependents of each task
    scored,   \* testpoints of the score groups, ctx.plan.score
    left,     \* record.task.testpoints of each task
    depOn,    \* dependent_on of each testpoint: one of Points, 0 (None) or Unsatisfied
    results,  \* ctx.results
    starts,   \* how often each task was started
    running,  \* tasks_running: <<task, start>>
    batch,    \* done: those that the loop has yet to go through
    pending,  \* dependents: tasks to look at after that
    phase     \* of run_judge_tasks and synthesize_scores

plan == <<dep, task, dependents, scored>>
records == <<left, depOn>>
vars == <<plan, records, results, starts, running, batch, pending, phase>>

Unsatisfied == Len(Ids) + 1

Final == {"accepted", "wrong_answer", "skipped", "system_error"}
\* "none": the testpoint is no key of ctx.results.
Result == Final \union {"none", "judging"}

-----------------------------------------------------------------------------
(* parse_testpoints and generate_dependents                                *)

\* DiskLimit of a testpoint: absent or negative, which opens a task, zero or
\* positive.  Only a positive one makes tasks hold several testpoints.
DiskLimit == {"new", "zero", "positive"}
Grouped(disk) == \E i \in Points : disk[i] = "positive"

\* The task that testpoint i goes to.
TaskOf(disk, i) ==
    IF Grouped(disk) THEN Cardinality({k \in 1..i : k = 1 \/ disk[k] = "new"}) ELSE i

Tasks == {task[i] : i \in Points}
Members(t) == {i \in Points : task[i] = t}

\* The testpoint that has the ID of the dependency.
Target(i) == IF dep[i] = 0 THEN 0 ELSE CHOOSE k \in Points : Ids[k] = dep[i]

\* Tasks that task t depends on.  Only a testpoint that is alone in its task
\* makes it depend on itself.
Dependencies(disk, t) ==
    {task[Target(i)] : i \in {i \in Members(t) : dep[i] # 0 /\ (Grouped(disk) => task[Target(i)] # t)}}

\* The plan of a problem that is not refused: dependencies exist and, when tasks
\* are grouped, come first.
ParseTestpoints(disk) ==
    /\ dep \in [Points -> {0} \union {Ids[i] : i \in Points}]
    /\ task = [i \in Points |-> TaskOf(disk, i)]
    /\ Grouped(disk) => \A i \in Points : dep[i] # 0 => Target(i) <= i
    /\ dependents = [t \in Tasks |-> {u \in Tasks : t \in Dependencies(disk, u)}]

-----------------------------------------------------------------------------
(* remove_skipped_testpoints_from_task                                     *)

\* The judge records and the results.
State == [left : [Tasks -> SUBSET Points], depOn : [Points -> 0..Unsatisfied],
          results : [Points -> Result]]

\* One pass over the testpoints S of a task: those that depend on an unaccepted
\* testpoint are removed and count as unaccepted themselves.
Removed(st, S, unaccepted) ==
    LET gone[n \in 0..Len(Ids)] ==
            IF n = 0 THEN {}
            ELSE IF n \in S /\ st.depOn[n] \in unaccepted \union gone[n - 1]
                 THEN gone[n - 1] \union {n} ELSE gone[n - 1]
    IN  gone[Len(Ids)]

\* Task t without the testpoints `gone`.
Dropped(st, t, accepted, gone) ==
    [left |-> [st.left EXCEPT ![t] = @ \ gone],
     depOn |-> [i \in Points |->
         IF i \in gone THEN Unsatisfied
         ELSE IF i \in st.left[t] /\ st.depOn[i] \in accepted THEN 0 ELSE st.depOn[i]],
     results |-> [i \in Points |-> IF i \in gone THEN "skipped" ELSE st.results[i]]]

\* How deep the calls go at most: each either goes on to the next of at most
\* Len(Ids) tasks, or has removed one of at most Len(Ids) testpoints.
Depth == (Len(Ids) + 1) * (Len(Ids) + 1)

\* A call: the tasks it has yet to go through, and what they may depend on.
Call == [depth : 0..Depth, st : State, todo : SUBSET Tasks,
         accepted : SUBSET Points, unaccepted : SUBSET Points]

CallOn(st, todo, accepted, unaccepted, depth) ==
    [depth |-> depth, st |-> st, todo |-> todo, accepted |-> accepted, unaccepted |-> unaccepted]

\* The first of the tasks, those that depend on what was removed from it, and
\* then the other tasks; `calls` has the outcome of every deeper call.
FirstAndRest(c, calls) ==
    LET t == Min(c.todo)
        gone == Removed(c.st, c.st.left[t], c.unaccepted)
        here == Dropped(c.st, t, c.accepted, gone)
        below == IF gone = {} THEN here
                 ELSE calls[CallOn(here, dependents[t], {}, gone, c.depth - 1)]
    IN  calls[CallOn(below, c.todo \ {t}, c.accepted, c.unaccepted \union gone, c.depth - 1)]

RemoveSkipped(st, todo, accepted, unaccepted) ==
    LET calls[c \in Call] ==
            IF c.todo = {} \/ c.depth = 0 THEN c.st ELSE FirstAndRest(c, calls)
    IN  calls[CallOn(st, todo, accepted, unaccepted, Depth)]

-----------------------------------------------------------------------------
(* run_judge_tasks                                                         *)

\* Every dependency is settled, or is in the task itself.
DependenciesSatisfied(t) ==
    \A i \in left[t] : depOn[i] \in {0, Unsatisfied} \union left[t]

\* What judge_task may answer: the testpoints in order, those that depend on a
\* failed one skipped, one that depends on itself in error.  An exception in a
\* testpoint is a system error of that testpoint.
Answers(t) ==
    {v \in [left[t] -> Final] : \A i \in left[t] :
        IF depOn[i] = i THEN v[i] = "system_error"
        ELSE IF depOn[i] \in left[t] /\ v[depOn[i]] # "accepted" THEN v[i] = "skipped"
        ELSE v[i] # "skipped"}

\* Mutant of StartReady: the loop is left only when no task is ready, so that it
\* waits for nothing when those that are ready have no testpoints.
StartReadyNoBreak(ready) ==
    LET go == {t \in ready : left[t] # {}}
    IN  /\ starts' = [t \in Tasks |-> starts[t] + (IF t \in go THEN 1 ELSE 0)]
        /\ running' = running \union {<<t, starts[t] + 1>> : t \in go}
        /\ phase' = IF ready = {} /\ running' = {} THEN "synthesize" ELSE "wait"

\* Start those of the tasks `ready` that have testpoints; the loop ends when no
\* task is running.
StartReady(ready) ==
    LET go == {t \in ready : left[t] # {}}
    IN  /\ starts' = [t \in Tasks |-> starts[t] + (IF t \in go THEN 1 ELSE 0)]
        /\ running' = running \union {<<t, starts[t] + 1>> : t \in go}
        /\ phase' = IF running' = {} THEN "synthesize" ELSE "wait"

Begin ==
    /\ phase = "begin"
    /\ StartReady({t \in Tasks : DependenciesSatisfied(t)})
    /\ UNCHANGED <<plan, records, results, batch, pending>>

\* onprogress of a running task: started.
OnStarted(x) ==
    /\ phase = "wait"
    /\ x \in running
    /\ results' = [i \in Points |->
          IF i \in left[x[1]] /\ results[i] = "none" THEN "judging" ELSE results[i]]
    /\ UNCHANGED <<plan, records, starts, running, batch, pending, phase>>

\* Mutant of OnProgress: it replaces results that are already known.
OnProgressAlways(x) ==
    /\ phase = "wait"
    /\ x \in running
    /\ \E v \in Answers(x[1]), n \in left[x[1]] :
          results' = [i \in Points |-> IF i \in left[x[1]] /\ i <= n THEN v[i] ELSE results[i]]
    /\ UNCHANGED <<plan, records, starts, running, batch, pending, phase>>

\* ... and progress: the first testpoints of an answer, which an attempt that is
\* then retried may have sent.
OnProgress(x) ==
    /\ phase = "wait"
    /\ x \in running
    /\ \E v \in Answers(x[1]), n \in left[x[1]] :
          results' = [i \in Points |->
              IF i \in left[x[1]] /\ i <= n /\ results[i] \in {"none", "judging"}
              THEN v[i] ELSE results[i]]
    /\ UNCHANGED <<plan, records, starts, running, batch, pending, phase>>

\* wait() returns; several tasks may be done.
Wake ==
    /\ phase = "wait"
    /\ \E done \in SUBSET running \ {{}} :
          /\ batch' = done
          /\ running' = running \ done
    /\ phase' = "done"
    /\ UNCHANGED <<plan, records, results, starts, pending>>

\* Mutant of Record: all the testpoints of a finished task count as failed.
RecordAllFailed(t, over, accepted) ==
    LET st == RemoveSkipped(
                  [left |-> left, depOn |-> depOn,
                   results |-> [i \in Points |-> IF i \in DOMAIN over THEN over[i] ELSE results[i]]],
                  dependents[t], {}, left[t])
    IN  /\ left' = st.left
        /\ depOn' = st.depOn
        /\ results' = st.results

\* Mutant of Record: all the testpoints of a finished task count as passed.
RecordAllPassed(t, over, accepted) ==
    LET st == RemoveSkipped(
                  [left |-> left, depOn |-> depOn,
                   results |-> [i \in Points |-> IF i \in DOMAIN over THEN over[i] ELSE results[i]]],
                  dependents[t], left[t], {})
    IN  /\ left' = st.left
        /\ depOn' = st.depOn
        /\ results' = st.results

\* The answer of task t is recorded, and what depends on it settled.  `over`
\* are the results the answer overwrites.
Record(t, over, accepted) ==
    LET st == RemoveSkipped(
                  [left |-> left, depOn |-> depOn,
                   results |-> [i \in Points |-> IF i \in DOMAIN over THEN over[i] ELSE results[i]]],
                  dependents[t], accepted, left[t] \ accepted)
    IN  /\ left' = st.left
        /\ depOn' = st.depOn
        /\ results' = st.results

\* The loop goes on to one of the tasks that are done.
TakeDone(x) ==
    /\ phase = "done"
    /\ x \in batch
    /\ batch' = batch \ {x}
    /\ pending' = pending \union dependents[x[1]]
    /\ UNCHANGED <<starts, running, phase>>

\* A task is done with an answer, or with an exception, which makes all the
\* testpoints its plan has system errors.
Settle(x) ==
    /\ TakeDone(x)
    /\ UNCHANGED plan
    /\ \/ \E v \in Answers(x[1]) : Record(x[1], v, {i \in left[x[1]] : v[i] = "accepted"})
       \/ Record(x[1], [i \in Members(x[1]) |-> "system_error"], {})

\* Mutant of NextRound: every task is looked at, not only the dependents.
NextRoundAll ==
    /\ phase = "done"
    /\ batch = {}
    /\ StartReady({t \in Tasks : DependenciesSatisfied(t)})
    /\ pending' = {}
    /\ UNCHANGED <<plan, records, results, batch>>

\* The next round of the loop.
NextRound ==
    /\ phase = "done"
    /\ batch = {}
    /\ StartReady({t \in pending : DependenciesSatisfied(t)})
    /\ pending' = {}
    /\ UNCHANGED <<plan, records, results, batch>>

\* Mutant of Synthesize: a testpoint without a result makes the verdict pending.
SynthesizePending ==
    /\ phase = "synthesize"
    /\ phase' = IF \E i \in scored : results[i] = "none" THEN "pending"
                ELSE IF \E i \in scored : results[i] = "system_error" THEN "system_error"
                ELSE IF \E i \in scored : results[i] # "accepted" THEN "rejected"
                ELSE "accepted"
    /\ UNCHANGED <<plan, records, results, starts, running, batch, pending>>

\* Mutant of Synthesize: a testpoint without a result counts as failed.
SynthesizeUnchecked ==
    /\ phase = "synthesize"
    /\ phase' = IF \E i \in scored : results[i] = "system_error" THEN "system_error"
                ELSE IF \E i \in scored : results[i] # "accepted" THEN "rejected"
                ELSE "accepted"
    /\ UNCHANGED <<plan, records, results, starts, running, batch, pending>>

\* synthesize_scores goes over the testpoints of the score groups only; one without
\* a result is taken for part of a loop.
Synthesize ==
    /\ phase = "synthesize"
    /\ phase' = IF \E i \in scored : results[i] = "none" THEN "loop detected"
                ELSE IF \E i \in scored : results[i] = "system_error" THEN "system_error"
                ELSE IF \E i \in scored : results[i] # "accepted" THEN "rejected"
                ELSE "accepted"
    /\ UNCHANGED <<plan, records, results, starts, running, batch, pending>>

\* The run is cancelled in update_status or in wait(), and cancels its tasks.
Cancel ==
    /\ phase \in {"begin", "wait"}
    /\ running' = {}
    /\ phase' = "aborted"
    /\ UNCHANGED <<plan, records, results, starts, batch, pending>>

-----------------------------------------------------------------------------
Init ==
    /\ \E disk \in [Points -> DiskLimit] : ParseTestpoints(disk)
    /\ scored \in SUBSET Points \ {{}}
    /\ left = [t \in Tasks |-> Members(t)]
    /\ depOn = [i \in Points |-> Target(i)]
    /\ results = [i \in Points |-> "none"]
    /\ starts = [t \in Tasks |-> 0]
    /\ running = {}
    /\ batch = {}
    /\ pending = {}
    /\ phase = "begin"

Next ==
    \/ Begin \/ Wake \/ NextRound \/ Synthesize \/ Cancel
    \/ \E x \in batch : Settle(x)
    \/ \E x \in running : OnStarted(x) \/ OnProgress(x)

Spec == Init /\ [][Next]_vars

\* Every task ends (Dispatch, EveryJobSettles) and the coroutine goes on; what
\* the step makes of the results does not matter.
LoopStep == Begin \/ Wake \/ (\E x \in batch : TakeDone(x)) \/ NextRound \/ Synthesize
FairSpec == Spec /\ WF_<<starts, running, batch, pending, phase>>(LoopStep)

Judged == {"accepted", "rejected", "system_error"}
Verdicts == Judged \union {"loop detected", "aborted"}

-----------------------------------------------------------------------------
(* Properties                                                              *)

\* Type invariant.
TypeOK ==
    /\ scored \subseteq Points
    /\ left \in [Tasks -> SUBSET Points]
    /\ depOn \in [Points -> 0..Unsatisfied]
    /\ results \in [Points -> Result]
    /\ starts \in [Tasks -> Nat]
    /\ running \subseteq Tasks \X (Nat \ {0})
    /\ batch \subseteq Tasks \X (Nat \ {0})
    /\ pending \subseteq Tasks
    /\ phase \in {"begin", "wait", "done", "synthesize"} \union Verdicts

\* No task was started a second time.
Once == \A t \in Tasks : starts[t] <= 1

\* docs/user/admin/data-format.md: a testpoint is judged only once the one it
\* depends on has passed.  In every verdict, the dependency of a testpoint that
\* was run is accepted.
RunIfPassed ==
    phase \in Judged =>
        \A i \in Points :
            dep[i] # 0 /\ results[i] \in {"accepted", "wrong_answer"} =>
                results[Target(i)] = "accepted"

\* ... unless a task was started twice: an answer of its second run may contradict
\* the first, on which its dependents were started.
DependencyPassed == Once => RunIfPassed

\* No more is skipped than must be: unless a task was started twice, what a
\* skipped testpoint depends on failed or was itself skipped, through all the
\* tasks in between.
SkippedForCause ==
    Once /\ phase \in Judged =>
        \A i \in Points :
            results[i] = "skipped" =>
                dep[i] # 0 /\ results[Target(i)] \in Final \ {"accepted"}

\* A verdict leaves no testpoint that counts for the score waiting, and none at all
\* under way.
VerdictIsFinal ==
    phase \in Judged =>
        /\ \A i \in scored : results[i] \in Final
        /\ \A i \in Points : results[i] # "judging"

\* Where no task depends on two others, a task is started once, whichever order
\* the tasks end in and however many at a time.
Tree == \A t \in Tasks : Cardinality({u \in Tasks : t \in dependents[u]}) <= 1
StartedOnce == Tree => Once

\* get_partial_result shows a testpoint that has a result with one ever after, and
\* with another only when a run of its own task ends: the answer may differ from
\* what an attempt that was then retried has reported.  Neither a report nor what
\* becomes of other tasks changes it.
ResultsStay ==
    [][\A i \in Points : results[i] \in Final =>
          /\ results'[i] \in Final
          /\ results'[i] # results[i] => \E x \in batch \ batch' : x[1] = task[i]]_vars

\* Judging comes to an end.
Ends == <>(phase \in Verdicts)

\* docs/user/admin/data-format.md: Dependency is the place of the testpoint in
\* Details, not its ID.  In every verdict, the testpoint at that place passed if
\* the one that names it was run.
DependencyIsPosition ==
    phase \in Judged =>
        \A i \in Points :
            dep[i] # 0 /\ results[i] \in {"accepted", "wrong_answer"} =>
                results[dep[i]] = "accepted"

=============================================================================
