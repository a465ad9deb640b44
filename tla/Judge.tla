-------------------------------- MODULE Judge --------------------------------
(***************************************************************************)
(* The life of a submission: its record in the web server's database       *)
(* (web/manager/judge.py, the scheduler's callbacks in web/web.py), the    *)
(* judge service of the scheduler that runs it (scheduler2/main.py,        *)
(* execute_plan of scheduler2/plan/execute.py) and the requests by which   *)
(* the scheduler updates the record (make_request of scheduler2/util.py).  *)
(*                                                                         *)
(* One instance is one problem: problems share no state here.  A run is    *)
(* one judge task (asyncio.Task of run_judge) of a submission, numbered in *)
(* the order of registration.  A step is the code between two awaits; a    *)
(* cancelled task takes its CancelledError at the await it is at.          *)
(***************************************************************************)
EXTENDS Naturals, FiniteSets

CONSTANTS
    Submissions,    \* submissions to the problem
    MaxRuns,        \* bound: runs of a submission
    MaxUpdates,     \* bound: update_problem handlers at a time
    RequestRetries, \* request_retries
    NetMayFail,     \* may a request to the web server, to the scheduler or to S3 fail?
    MayCrash        \* may the scheduler stop?

ASSUME JudgeAssumption ==
    /\ MaxRuns \in Nat
    /\ MaxUpdates \in Nat
    /\ RequestRetries \in Nat \ {0}
    /\ NetMayFail \in BOOLEAN
    /\ MayCrash \in BOOLEAN

Runs == Submissions \X (1..MaxRuns)

VARIABLES
    \* the web server
    status,   \* JudgeRecordV2.status
    lang,     \* JudgeRecordV2.language: a quiz, or code
    posting,  \* submissions committed, and not yet handed to the scheduler
    wire,     \* status updates whose sender was cancelled, on their way to the web server
    \* the scheduler
    run,      \* where a judge task is
    cancel,   \* tasks that were cancelled and have not yet taken their CancelledError
    res,      \* the result run_judge holds
    byId,     \* judge_tasks_from_submission_id: the number of the run, 0 if none
    byProblem,\* judge_tasks[problem_id], and the keys of judge_task_args
    update,   \* task_args of each update_problem in progress, or Idle
    ctx,      \* keys of ctx_from_submission
    req,      \* the make_request a run has in progress
    toClean,  \* files_to_clean of the context of a run, as far as it is not worked off
    \* S3
    files,    \* the files of submissions that are in the artifacts bucket
    calls,    \* S3 calls under way that no run waits for
    \* history
    told,     \* runs whose result was handled by the web server or given up
    gaveup,   \* numbers of requests sent by the make_requests that raised
    strayed,  \* files with a call that no run waited for, or that were not removed
    outside   \* submissions that left execute_plan before its try statement

webVars == <<status, lang, posting, wire>>
runVars == <<run, cancel, res>>
registryVars == <<byId, byProblem, update>>
s3Vars == <<toClean, files, calls>>
historyVars == <<told, gaveup, strayed, outside>>
vars == <<webVars, runVars, registryVars, ctx, req, s3Vars, historyVars>>

Langs == {"code", "quiz"}

InProgress == {"pending", "compiling", "judging"}
Results == {"verdict", "aborted", "error"}
Statuses == InProgress \union Results \union {"absent", "void", "system_error"}

\* Inside the try statement of execute_plan.
InTry == {"prepare", "compile", "announce", "judge"}
Live == InTry \union {"created", "plan", "quiz", "settle", "clean", "report"}
\* Ended by itself; cancelled in its report; before its first step; by a crash.
Over == {"ended", "cut", "unborn", "killed"}

\* A make_request: attempts left, requests sent, and what `args` holds.
NoReq == [kind |-> "none", left |-> 0, sent |-> 0, args |-> "body"]
Reqs == [kind : {"compiling", "judging", "result"}, left : 1..RequestRetries,
         sent : 0..RequestRetries, args : {"body", "log"}]

Idle == {<<>>}

\* The files of a submission in the artifacts bucket: its code, copied there by the
\* scheduler, and what it is compiled to, put there by a runner.
Names == {"code", "artifact"}
Calls == Submissions \X Names \X {"copy", "delete", "put"}

Sub(r) == r[1]
File(r, f) == <<Sub(r), f>>

-----------------------------------------------------------------------------
(* register_judge_task, and the done callback it adds                      *)

\* The number of the next run of a submission.
Fresh(s) == 1 + Cardinality({n \in 1..MaxRuns : run[<<s, n>>] # "new"})

\* A task for every submission of S.
Create(S) ==
    /\ \A s \in S : Fresh(s) <= MaxRuns
    /\ run' = [r \in Runs |-> IF Sub(r) \in S /\ r[2] = Fresh(Sub(r)) THEN "created" ELSE run[r]]
    /\ byId' = [s \in Submissions |-> IF s \in S THEN Fresh(s) ELSE byId[s]]
    /\ byProblem' = byProblem \union {<<s, Fresh(s)>> : s \in S}

\* Mutant of Register: a submission that is being judged is not skipped.
RegisterAnyway(S) == Create(S)

\* The submissions of S get a task each, but for those that have one.
Register(S) == Create({s \in S : byId[s] = 0})

\* The task is done: it leaves the dictionaries.
Unregister(r) ==
    /\ byId' = [byId EXCEPT ![Sub(r)] = 0]
    /\ byProblem' = byProblem \ {r}
    /\ UNCHANGED update

-----------------------------------------------------------------------------
(* Steps a run shares                                                      *)

\* The task is at an await, and is not to take a CancelledError there.
At(r, where) == run[r] = where /\ r \notin cancel

Goto(r, to) == run' = [run EXCEPT ![r] = to]
Request(r, kind) ==
    req' = [req EXCEPT ![r] = [kind |-> kind, left |-> RequestRetries, sent |-> 0, args |-> "body"]]
NoRequest(r) == req' = [req EXCEPT ![r] = NoReq]

\* run_judge sends the result it holds.
Report(r, result) ==
    /\ Goto(r, "report")
    /\ res' = [res EXCEPT ![r] = result]
    /\ Request(r, "result")

\* The files of `left` are still to be removed, by a run with this result.
Remove(r, left, result) ==
    /\ toClean' = [toClean EXCEPT ![r] = left]
    /\ IF left = {}
       THEN Report(r, result)
       ELSE Goto(r, "clean") /\ res' = [res EXCEPT ![r] = result] /\ NoRequest(r)

\* Mutant of Finally: the context is kept.
FinallyKeeping(r, left, result) == Remove(r, left, result) /\ UNCHANGED ctx

\* The try statement of execute_plan is left: its finally clause drops the
\* context and goes on to remove the files.
Finally(r, left, result) == Remove(r, left, result) /\ ctx' = ctx \ {Sub(r)}

\* An S3 call that the run no longer waits for.
Stray(r, f, op) ==
    /\ calls' = calls \union {<<Sub(r), f, op>>}
    /\ strayed' = strayed \union {File(r, f)}

\* The compile task is over for run_task.  A runner that was given up or told to
\* stop may be at it still: the signed URL it has is good for its upload.
LeaveRunner(r) ==
    \/ UNCHANGED <<calls, strayed>>
    \/ "artifact" \in toClean[r] /\ Stray(r, "artifact", "put")

-----------------------------------------------------------------------------
(* run_judge                                                               *)

Start(r) ==
    /\ At(r, "created")
    /\ Goto(r, "plan")
    /\ UNCHANGED <<webVars, cancel, res, registryVars, ctx, req, s3Vars, historyVars>>

\* The plan is read, or is not there; execute_plan makes a context.  A quiz is
\* judged at once, or refused: submission and problem must both be one.
ReadPlan(r) ==
    /\ At(r, "plan")
    /\ \/ Report(r, "error") /\ UNCHANGED <<ctx, outside>>
       \/ /\ Report(r, "error")
          /\ ctx' = ctx \union {Sub(r)}
          /\ outside' = outside \union {Sub(r)}
       \/ /\ lang[Sub(r)] = "quiz"
          /\ Goto(r, "quiz")
          /\ ctx' = ctx \union {Sub(r)}
          /\ outside' = outside \union {Sub(r)}
          /\ UNCHANGED <<res, req>>
       \/ /\ lang[Sub(r)] = "code"
          /\ Goto(r, "prepare")
          /\ ctx' = ctx \union {Sub(r)}
          /\ UNCHANGED <<res, req, outside>>
    /\ UNCHANGED <<webVars, cancel, registryVars, s3Vars, told, gaveup, strayed>>

\* The answers of a quiz are read and judged, outside any try statement.
JudgeQuiz(r) ==
    /\ At(r, "quiz")
    /\ \E result \in {"verdict", "error"} : Report(r, result)
    /\ UNCHANGED <<webVars, cancel, registryVars, ctx, s3Vars, historyVars>>

\* prepare_compile, get_judge_tasks and upload_code: what the context is to clean
\* depends on the plan and on the language.  The copy may fail, done or not.
Prepare(r) ==
    /\ At(r, "prepare")
    /\ \E K \in SUBSET Names :
          LET copied == files \union {File(r, f) : f \in K \ {"artifact"}}
          IN  \/ /\ Goto(r, "compile")
                 /\ toClean' = [toClean EXCEPT ![r] = K]
                 /\ files' = copied
                 /\ UNCHANGED <<res, ctx, req>>
              \/ Finally(r, K, "error") /\ files' \in {files, copied}
    /\ UNCHANGED <<webVars, cancel, registryVars, calls, historyVars>>

\* A runner has started to compile: onprogress updates the status.
CompileStarted(r) ==
    /\ At(r, "compile")
    /\ req[r] = NoReq
    /\ Request(r, "compiling")
    /\ UNCHANGED <<webVars, runVars, registryVars, ctx, s3Vars, historyVars>>

\* A runner uploads what it has compiled; its answer is yet to come.
RunnerUploads(r) ==
    /\ run[r] = "compile"
    /\ "artifact" \in toClean[r]
    /\ files' = files \union {File(r, "artifact")}
    /\ UNCHANGED <<webVars, runVars, registryVars, ctx, req, toClean, calls, historyVars>>

\* run_compile_task ends: compiled and uploaded, and run_judge_tasks updates the
\* status; or not compiled, or out of retries.
Compiled(r) ==
    /\ At(r, "compile")
    /\ req[r] = NoReq
    /\ \/ /\ Goto(r, "announce")
          /\ Request(r, "judging")
          /\ files' = files \union {File(r, f) : f \in toClean[r] \ {"code"}}
          /\ UNCHANGED <<res, ctx, toClean>>
       \/ \E result \in {"error", "aborted"} : Finally(r, toClean[r], result) /\ UNCHANGED files
    /\ LeaveRunner(r)
    /\ UNCHANGED <<webVars, cancel, registryVars, told, gaveup, outside>>

\* run_judge_tasks and synthesize_scores end.
Judged(r) ==
    /\ At(r, "judge")
    /\ \E result \in {"verdict", "error"} : Finally(r, toClean[r], result)
    /\ UNCHANGED <<webVars, cancel, registryVars, files, calls, historyVars>>

\* The second given to the abort signals is over.
Settle(r) ==
    /\ At(r, "settle")
    /\ Finally(r, toClean[r], "aborted")
    /\ UNCHANGED <<webVars, cancel, registryVars, files, calls, historyVars>>

\* Mutant of Clean: the loop ends with the first file.
CleanOne(r) ==
    /\ At(r, "clean")
    /\ \E f \in toClean[r] :
          Remove(r, {}, res[r]) /\ files' = files \ {File(r, f)}
    /\ UNCHANGED <<webVars, cancel, registryVars, ctx, calls, historyVars>>

\* A file is removed, or S3 fails and it stays.
Clean(r) ==
    /\ At(r, "clean")
    /\ \E f \in toClean[r] :
          /\ Remove(r, toClean[r] \ {f}, res[r])
          /\ \/ files' = files \ {File(r, f)} /\ UNCHANGED strayed
             \/ NetMayFail /\ strayed' = strayed \union {File(r, f)} /\ UNCHANGED files
    /\ UNCHANGED <<webVars, cancel, registryVars, ctx, calls, told, gaveup, outside>>

\* A call that no run waits for takes effect, or does not.
CallEnds(c) ==
    /\ c \in calls
    /\ calls' = calls \ {c}
    /\ LET file == <<c[1], c[2]>>
       IN  files' \in {files, IF c[3] = "delete" THEN files \ {file} ELSE files \union {file}}
    /\ UNCHANGED <<webVars, runVars, registryVars, ctx, req, toClean, historyVars>>

-----------------------------------------------------------------------------
(* make_request, and the handlers of the web server it calls               *)

\* set_status and set_result: the record is overwritten, whatever it holds.
Handle(r) ==
    /\ status' = [status EXCEPT ![Sub(r)] = IF req[r].kind = "result" THEN res[r] ELSE req[r].kind]
    /\ told' = told \union (IF req[r].kind = "result" THEN {r} ELSE {})

\* The awaited request is over and run_judge goes on; a result whose awaiter
\* was cancelled has nobody waiting for it.
Awaited(r) == run[r] = "report" /\ r \notin cancel
Ended(r) ==
    /\ NoRequest(r)
    /\ IF Awaited(r) THEN Goto(r, "ended") /\ Unregister(r) ELSE UNCHANGED <<run, registryVars>>
    /\ UNCHANGED <<res, ctx>>

\* The result is sent by a task of its own (shield); a status by the run itself.
Sending(r) == req[r] # NoReq /\ (req[r].kind = "result" \/ r \notin cancel)

\* The web server answers OK.
RequestOk(r) ==
    /\ Sending(r)
    /\ req[r].args = "body"
    /\ Handle(r)
    /\ \/ /\ req[r].kind = "compiling"
          /\ NoRequest(r)
          /\ UNCHANGED <<run, res, ctx, registryVars>>
       \/ /\ req[r].kind = "judging"
          /\ NoRequest(r)
          /\ Goto(r, "judge")
          /\ UNCHANGED <<res, ctx, registryVars>>
       \/ req[r].kind = "result" /\ Ended(r)
    /\ UNCHANGED <<lang, posting, wire, cancel, s3Vars, gaveup, strayed, outside>>

\* Mutant of RequestFails: one attempt too many.
RequestFailsAgain(r) ==
    /\ Sending(r)
    /\ \/ req[r].args = "body" /\ NetMayFail /\ (Handle(r) \/ UNCHANGED <<status, told>>)
       \/ req[r].args = "log" /\ UNCHANGED <<status, told>>
    /\ req' = [req EXCEPT ![r].left = @ - 1, ![r].args = "log"]
    /\ UNCHANGED <<lang, posting, wire, runVars, registryVars, ctx, s3Vars, gaveup, strayed, outside>>

\* An attempt raises: the web server does not answer, having handled the request
\* or not, or there is nothing it could be sent.  The except clause binds `args`
\* to the arguments of its log message; do_request reads `args` too, so the next
\* attempts call aiohttp with arguments it does not know.
RequestFails(r) ==
    /\ Sending(r)
    /\ \/ req[r].args = "body" /\ NetMayFail /\ (Handle(r) \/ UNCHANGED <<status, told>>)
       \/ req[r].args = "log" /\ UNCHANGED <<status, told>>
    /\ req[r].left > 1
    /\ req' = [req EXCEPT ![r].left = @ - 1,
                          ![r].sent = @ + (IF req[r].args = "body" THEN 1 ELSE 0),
                          ![r].args = "log"]
    /\ UNCHANGED <<lang, posting, wire, runVars, registryVars, ctx, s3Vars, gaveup, strayed, outside>>

\* The last attempt raises, and so does make_request.
RequestGivesUp(r) ==
    /\ Sending(r)
    /\ req[r].left = 1
    /\ \/ req[r].args = "body" /\ NetMayFail /\ (status' = status \/ Handle(r))
       \/ req[r].args = "log" /\ status' = status
    /\ gaveup' = gaveup \union {req[r].sent + (IF req[r].args = "body" THEN 1 ELSE 0)}
    /\ told' = told \union (IF req[r].kind = "result" THEN {r} ELSE {})
    /\ IF req[r].kind = "result"
       THEN Ended(r) /\ UNCHANGED <<toClean, calls, strayed>>
       ELSE /\ Finally(r, toClean[r], "error")
            /\ IF run[r] = "compile" THEN LeaveRunner(r) ELSE UNCHANGED <<calls, strayed>>
            /\ UNCHANGED registryVars
    /\ UNCHANGED <<lang, posting, wire, cancel, files, outside>>

\* A status update whose sender was cancelled is handled late, or never.
LateUpdate(w) ==
    /\ w \in wire
    /\ wire' = wire \ {w}
    /\ status' = [status EXCEPT ![w[1]] = w[2]] \/ UNCHANGED status
    /\ UNCHANGED <<lang, posting, runVars, registryVars, ctx, req, s3Vars, historyVars>>

-----------------------------------------------------------------------------
(* The CancelledError of a task                                            *)

\* Mutant of CutReport: the result is not shielded.
CutReportUnshielded(r) ==
    /\ run[r] = "report"
    /\ Goto(r, "cut")
    /\ NoRequest(r)
    /\ Unregister(r)
    /\ UNCHANGED <<res, ctx, toClean, calls, strayed, wire>>

\* In `await shield(task)`: run_judge returns, the request goes on.
CutReport(r) ==
    /\ run[r] = "report"
    /\ Goto(r, "cut")
    /\ Unregister(r)
    /\ UNCHANGED <<res, ctx, req, toClean, calls, strayed, wire>>

\* Before the first step of the task: run_judge does not run at all.
CutCreated(r) ==
    /\ run[r] = "created"
    /\ Goto(r, "unborn")
    /\ Unregister(r)
    /\ UNCHANGED <<res, ctx, req, toClean, calls, strayed, wire>>

\* Outside the try statement of execute_plan.
CutOutside(r) ==
    /\ run[r] \in {"plan", "quiz"}
    /\ Report(r, "aborted")
    /\ UNCHANGED <<registryVars, ctx, toClean, calls, strayed, wire>>

\* Mutant of CutTry: the CancelledError is swallowed.
CutTrySwallowed(r) ==
    /\ run[r] \in InTry
    /\ UNCHANGED <<run, req, wire, toClean, calls, strayed, res, ctx, registryVars>>

\* In it: the abort signals are given a second.  What the task was waiting for may
\* go on without it: a status update, the copy of the code in its thread, or the
\* upload of a runner.
CutTry(r) ==
    /\ run[r] \in InTry
    /\ Goto(r, "settle")
    /\ NoRequest(r)
    /\ \/ req[r] # NoReq /\ req[r].args = "body" /\ wire' = wire \union {<<Sub(r), req[r].kind>>}
       \/ UNCHANGED wire
    /\ CASE run[r] = "prepare" ->
              \E K \in SUBSET Names :
                 /\ toClean' = [toClean EXCEPT ![r] = K]
                 /\ IF "code" \in K THEN Stray(r, "code", "copy") ELSE UNCHANGED <<calls, strayed>>
         [] run[r] = "compile" -> LeaveRunner(r) /\ UNCHANGED toClean
         [] OTHER -> UNCHANGED <<toClean, calls, strayed>>
    /\ UNCHANGED <<res, ctx, registryVars>>

\* In the except and finally clauses; the value that was to be returned is lost,
\* and so are the removals that were still to be made.
CutSettle(r) ==
    /\ run[r] = "settle"
    /\ Finally(r, toClean[r], "aborted")
    /\ UNCHANGED <<registryVars, calls, strayed, wire>>

CutClean(r) ==
    /\ run[r] = "clean"
    /\ Report(r, "aborted")
    /\ \E f \in toClean[r] : calls' = calls \union {<<Sub(r), f, "delete">>}
    /\ strayed' = strayed \union {File(r, f) : f \in toClean[r]}
    /\ toClean' = [toClean EXCEPT ![r] = {}]
    /\ UNCHANGED <<registryVars, ctx, wire>>

Cancelled(r) ==
    /\ r \in cancel
    /\ cancel' = cancel \ {r}
    /\ \/ CutCreated(r) \/ CutOutside(r) \/ CutTry(r) \/ CutSettle(r) \/ CutClean(r)
       \/ CutReport(r)
    /\ UNCHANGED <<status, lang, posting, files, told, gaveup, outside>>

-----------------------------------------------------------------------------
(* The handlers of the scheduler, and the operations of the web server     *)

\* create_submission commits the record ...
CreateSubmission(s) ==
    /\ status[s] = "absent"
    /\ status' = [status EXCEPT ![s] = "pending"]
    /\ \E l \in Langs : lang' = [lang EXCEPT ![s] = l]
    /\ posting' = posting \union {s}
    /\ UNCHANGED <<wire, runVars, registryVars, ctx, req, s3Vars, historyVars>>

\* ... and schedule_judge calls the judge handler; without an answer, the record
\* says so, whether the handler has run or not.
ScheduleJudge(s) ==
    /\ \/ Register({s}) /\ UNCHANGED status
       \/ /\ NetMayFail
          /\ Register({s}) \/ UNCHANGED <<run, byId, byProblem>>
          /\ status' = [status EXCEPT ![s] = "system_error"]
    /\ posting' = posting \ {s}
    /\ UNCHANGED <<lang, wire, cancel, res, update, ctx, req, s3Vars, historyVars>>

Submit(s) == s \in posting /\ ScheduleJudge(s)

\* Of a record that is committed; its status is left as it is.
Rejudge(s) == status[s] # "absent" /\ s \notin posting /\ ScheduleJudge(s)

MarkVoid(s) ==
    /\ status[s] # "absent"
    /\ status' = [status EXCEPT ![s] = "void"]
    /\ UNCHANGED <<lang, posting, wire, runVars, registryVars, ctx, req, s3Vars, historyVars>>

\* The abort handler: task.cancel().  It finds nothing if s is not registered.
AbortJudge(s) ==
    /\ status[s] # "absent"
    /\ byId[s] # 0
    /\ cancel' = cancel \union {<<s, byId[s]>>}
    /\ UNCHANGED <<webVars, run, res, registryVars, ctx, req, s3Vars, historyVars>>

\* update_problem cancels the tasks of the problem and keeps their arguments ...
UpdateProblem(u) ==
    /\ update[u] = Idle
    /\ cancel' = cancel \union byProblem
    /\ update' = [update EXCEPT ![u] = {Sub(r) : r \in byProblem}]
    /\ UNCHANGED <<webVars, run, res, byId, byProblem, ctx, req, s3Vars, historyVars>>

\* ... and registers them again once the plan is made, or could not be.
UpdateDone(u) ==
    /\ update[u] # Idle
    /\ Register(update[u])
    /\ update' = [update EXCEPT ![u] = Idle]
    /\ UNCHANGED <<webVars, cancel, res, ctx, req, s3Vars, historyVars>>

\* The call a run may have under way: its own, or the upload of its runner.
UnderWay(r) ==
    CASE run[r] = "prepare" -> {<<Sub(r), "code", "copy">>}
      [] run[r] = "compile" -> {<<Sub(r), f, "put">> : f \in toClean[r] \ {"code"}}
      [] run[r] = "clean"   -> {<<Sub(r), f, "delete">> : f \in toClean[r]}
      [] OTHER -> {}

\* The scheduler stops, and starts with empty dictionaries.  What it had asked S3
\* for may be done yet, and a runner goes on with its task.
SchedulerRestart ==
    /\ MayCrash
    /\ run' = [r \in Runs |-> IF run[r] \in Live THEN "killed" ELSE run[r]]
    /\ cancel' = {}
    /\ byId' = [s \in Submissions |-> 0]
    /\ byProblem' = {}
    /\ update' = [u \in 1..MaxUpdates |-> Idle]
    /\ ctx' = {}
    /\ req' = [r \in Runs |-> NoReq]
    /\ toClean' = [r \in Runs |-> {}]
    /\ \E C \in SUBSET UNION {UnderWay(r) : r \in Runs} :
          /\ \A c, d \in C : c[1] = d[1] => c = d
          /\ calls' = calls \union C
          /\ strayed' = strayed \union files \union {<<c[1], c[2]>> : c \in C}
    /\ told' = told \union {r \in Runs : req[r].kind = "result"}
    /\ UNCHANGED <<webVars, res, files, gaveup, outside>>

-----------------------------------------------------------------------------
Init ==
    /\ status = [s \in Submissions |-> "absent"]
    /\ lang = [s \in Submissions |-> "code"]
    /\ posting = {}
    /\ wire = {}
    /\ run = [r \in Runs |-> "new"]
    /\ cancel = {}
    /\ res = [r \in Runs |-> "aborted"]
    /\ byId = [s \in Submissions |-> 0]
    /\ byProblem = {}
    /\ update = [u \in 1..MaxUpdates |-> Idle]
    /\ ctx = {}
    /\ req = [r \in Runs |-> NoReq]
    /\ toClean = [r \in Runs |-> {}]
    /\ files = {}
    /\ calls = {}
    /\ told = {}
    /\ gaveup = {}
    /\ strayed = {}
    /\ outside = {}

\* What a run does by itself once it is cancelled or has its result.
UnwindStep(r) ==
    \/ Settle(r) \/ Clean(r) \/ RequestOk(r) \/ RequestFails(r) \/ RequestGivesUp(r)
    \/ Cancelled(r)

RunStep(r) ==
    \/ Start(r) \/ ReadPlan(r) \/ JudgeQuiz(r) \/ Prepare(r) \/ CompileStarted(r)
    \/ RunnerUploads(r) \/ Compiled(r) \/ Judged(r) \/ UnwindStep(r)

WebStep(s) ==
    CreateSubmission(s) \/ Submit(s) \/ Rejudge(s) \/ MarkVoid(s) \/ AbortJudge(s)

Next ==
    \/ \E r \in Runs : RunStep(r)
    \/ \E s \in Submissions : WebStep(s)
    \/ \E w \in wire : LateUpdate(w)
    \/ \E c \in calls : CallEnds(c)
    \/ \E u \in 1..MaxUpdates : UpdateProblem(u) \/ UpdateDone(u)
    \/ SchedulerRestart

Spec == Init /\ [][Next]_vars

\* The event loop runs a coroutine that can run, and a request is answered or
\* fails.  Nothing is assumed of the runners or of the tasks they are given.
FairSpec == Spec /\ \A r \in Runs : WF_vars(UnwindStep(r))

-----------------------------------------------------------------------------
(* Properties                                                              *)

\* Type invariant.
TypeOK ==
    /\ status \in [Submissions -> Statuses]
    /\ lang \in [Submissions -> Langs]
    /\ posting \subseteq Submissions
    /\ wire \subseteq Submissions \X {"compiling", "judging"}
    /\ run \in [Runs -> Live \union Over \union {"new"}]
    /\ cancel \subseteq Runs
    /\ res \in [Runs -> Results]
    /\ byId \in [Submissions -> 0..MaxRuns]
    /\ byProblem \subseteq Runs
    /\ update \in [1..MaxUpdates -> (SUBSET Submissions) \union {Idle}]
    /\ ctx \subseteq Submissions
    /\ req \in [Runs -> Reqs \union {NoReq}]
    /\ toClean \in [Runs -> SUBSET Names]
    /\ files \subseteq Submissions \X Names
    /\ calls \subseteq Calls
    /\ told \subseteq Runs
    /\ gaveup \subseteq 0..RequestRetries
    /\ strayed \subseteq Submissions \X Names
    /\ outside \subseteq Submissions

\* The dictionaries agree with one another and with the tasks: whatever rejudges,
\* aborts and updates come in whatever order, a submission has one live run.
RegistryAgrees ==
    \A s \in Submissions, n \in 1..MaxRuns :
        /\ run[<<s, n>>] \in Live <=> byId[s] = n
        /\ run[<<s, n>>] \in Live <=> <<s, n>> \in byProblem

\* A run that has begun does not end without its result having been sent to the
\* web server, at whatever awaits it is cancelled, and however often.
ResultSent ==
    \A r \in Runs : run[r] \in {"ended", "cut"} => r \in told \/ req[r].kind = "result"

\* Results are not overtaken by later runs, but for that of a run cancelled while
\* it was being sent.
ResultsInOrder ==
    \A s \in Submissions, m, n \in 1..MaxRuns :
        m < n /\ run[<<s, n>>] # "new" /\ req[<<s, m>>] # NoReq => run[<<s, m>>] = "cut"

\* Files in the artifacts bucket are named after the submission, so runs of a
\* submission share them.  The code is there while a run is compiled and judged,
\* and the artifact once it is compiled, though earlier runs remove theirs, but for
\* a file with an S3 call that no run waited for.
CodeAvailable ==
    \A r \in Runs, f \in Names :
        /\ f \in toClean[r]
        /\ run[r] \in (IF f = "code" THEN InTry \ {"prepare"} ELSE {"announce", "judge"})
        => File(r, f) \in files \union strayed

\* While a submission has no run, a file of it is in the bucket only if it was
\* left there, that is, its removal failed or was not made (a cancelled clean-up,
\* a stop of the scheduler), or a call on it went on that no run waited for: a copy
\* or a removal whose run was cancelled, the upload of a runner that was given up
\* or told to stop.  Every other file is removed, whatever the result and wherever
\* execute_plan is left.
FilesRemoved ==
    \A s \in Submissions, f \in Names :
        byId[s] = 0 /\ <<s, f>> \in files => <<s, f>> \in strayed

\* get_partial_result has the context of every run of execute_plan, and no other
\* but of those that are judged, or refused, before its try statement.
ContextsExact ==
    \A s \in Submissions :
        LET inside == byId[s] # 0 /\ run[<<s, byId[s]>>] \in InTry \union {"settle"}
        IN /\ inside => s \in ctx
           /\ s \in ctx => inside \/ s \in outside

\* Where a run is, as Judging has it, and the runs whose result is being sent, was
\* handled or was given up.
Stage(where) ==
    CASE where = "new" -> "new"
      [] where = "created" -> "queued"
      [] where = "report" -> "reported"
      [] where \in {"ended", "cut"} -> "done"
      [] where \in {"unborn", "killed"} -> "lost"
      [] OTHER -> "judging"

Stages == [r \in Runs |-> Stage(run[r])]
Handed == {r \in Runs : r \in told \/ req[r].kind = "result"}

Promise == INSTANCE Judging WITH stage <- Stages, handed <- Handed

\* What the service promises of the runs of a submission (module Judging): one run
\* at a time, in order; run_judge, once begun, hands its result over before it is
\* done, at whatever awaits it is cancelled; and a result that was handed over is
\* sent until it is handled or given up, whatever becomes of the run.
RunsInOrder == Promise!Spec

\* A judge task that is cancelled ends, whatever it is waiting for, be it
\* cancelled again on the way or not, and runners answering or not.
AbortEnds == \A r \in Runs : r \in cancel ~> run[r] \in Over

\* Log message of make_request: a failed request is sent again, request_retries
\* times in all, before make_request gives it up.
RequestRetried == gaveup \subseteq {RequestRetries}

=============================================================================
