------------------------------ MODULE Dispatch ------------------------------
(***************************************************************************)
(* How one task travels from the scheduler to a runner and back: run_task  *)
(* of scheduler2/dispatch.py with its rate limiter (scheduler2/util.py)    *)
(* and its offline watcher (scheduler2/monitor.py), the task loop of a     *)
(* runner (judger2/main.py, judger2/task.py) and the Redis keys they share *)
(* (docs/dev/redis.md, commons/util.py).  One instance is one runner       *)
(* group: the groups share nothing but the rate limiter.                   *)
(*                                                                         *)
(* A job is one top-level call of run_task.  A retry is a nested call, so  *)
(* a job is a stack of frames, one per attempt; the attempt <<j, k>> is    *)
(* the frame of job j whose retries_left is k, and stands for its task id. *)
(* Steps are the stretches of code between two awaits.                     *)
(***************************************************************************)
EXTENDS Integers, Sequences, FiniteSets

CONSTANTS
    Jobs,            \* top-level run_task calls
    CompileJobs,     \* those awaited by run_compile_task rather than as a task of their own
    Runners,         \* runners of the group
    Groups,          \* rate limit groups (accounts)
    RateGroup,       \* Jobs -> Groups
    MaxConc,         \* task_concurrency_per_account
    Retries,         \* task_retries
    MaxProgress,     \* bound: progress messages of one attempt
    MayPassDeadline, \* may a status update be handled within a second of, or past, the deadline?
    RedisMayFail     \* may a Redis command raise?

ASSUME DispatchAssumption ==
    /\ IsFiniteSet(Jobs)
    /\ CompileJobs \subseteq Jobs
    /\ RateGroup \in [Jobs -> Groups]
    /\ MaxConc \in Nat \ {0}
    /\ Retries \in Nat
    /\ MaxProgress \in Nat
    /\ MayPassDeadline \in BOOLEAN
    /\ RedisMayFail \in BOOLEAN
    /\ Runners \intersect {"none", "offline", "broken"} = {}

Attempts == Jobs \X (0..Retries)
NoAttempt == <<>>

VARIABLES
    \* the scheduler
    pc,        \* where the innermost frame of a job is
    level,     \* retries_left of that frame
    budget,    \* whether the brpop of its wait has a timeout
    off,       \* its offline_task: none, the runner watched, or how that watcher ended
    sem,       \* value of the semaphore of each rate limit group
    taskinfo,  \* keys of taskinfo_from_task_id
    watch,     \* watch_tasks: what the watcher of each runner does, or how it ended
    \* Redis
    queue,     \* <group>-tasks, oldest first
    payload,   \* attempts whose task-task-<id> key exists
    progress,  \* task-progress-<id>, oldest first
    abort,     \* attempts whose task-abort-<id> key exists
    inprog,    \* in-progress-runner<id>
    fresh,     \* is heartbeat-runner<id> recent?
    \* the runners
    rpc,       \* where the task loop of a runner is
    cur,       \* its task_id
    steps,     \* progress messages it has sent for the task
    \* history
    waited     \* attempts whose wait loop was entered

schedVars == <<pc, level, budget, off, sem, taskinfo>>
redisVars == <<queue, payload, progress, abort>>
runnerVars == <<rpc, cur, steps>>
vars == <<schedVars, watch, redisVars, inprog, fresh, runnerVars, waited>>

\* Inside `async with rate_limiter.limit(...)`.
InLimit == {"payload", "enqueue", "wait", "callback", "sleep", "unwind"}
Open == InLimit \union {"limit"}
Settled == {"done", "failed", "cancelled"}
PC == {"idle"} \union Open \union Settled

\* Runner states in which the task has been taken off its payload key.
Executing == {"start", "run", "report"}
RPC == {"down", "poll", "claimed", "cleanup", "error", "nack"} \union Executing

Budgets == {"timed", "untimed", "negative"}

\* How the watcher of a runner ends: it has raised RunnerOfflineException, or
\* another exception.
Ended == {"offline", "broken"}

Messages == [type : {"started", "progress", "done", "error"}, from : Runners]

-----------------------------------------------------------------------------
(* Frames of a job.                                                        *)

Current(j) == <<j, level[j]>>

\* The frames on the stack of a job: those of the attempts it has given up,
\* around the innermost one.
OnStack(a) == pc[a[1]] \in Open /\ level[a[1]] <= a[2]
Frames(j) == {a \in Attempts : a[1] = j /\ OnStack(a)}

\* The frames that hold a permit: all but an innermost one still waiting for it.
HoldsPermit(a) == OnStack(a) /\ (a[2] = level[a[1]] => pc[a[1]] # "limit")
Holding(j) == {a \in Attempts : a[1] = j /\ HoldsPermit(a)}

Members(g) == {j \in Jobs : RateGroup[j] = g}
GroupHolding(g) == {a \in Attempts : RateGroup[a[1]] = g /\ HoldsPermit(a)}

\* Semaphore.__aexit__ of n frames at once.
Release(j, n) == sem' = [sem EXCEPT ![RateGroup[j]] = @ + n]

\* An attempt whose progress key is read.  The messages sent to any other
\* attempt are never read again and expire, so they are not kept.
Listening(a) == level[a[1]] = a[2] /\ pc[a[1]] \in {"wait", "callback"}

-----------------------------------------------------------------------------
(* The ways out of run_task.                                               *)

\* Mutants of Leave: only the innermost `async with` is left; only the entry of
\* the innermost frame is deleted.
LeaveOnePermit(j, how) ==
    /\ pc' = [pc EXCEPT ![j] = how]
    /\ Release(j, 1)
    /\ taskinfo' = taskinfo \ Frames(j)
    /\ progress' = [progress EXCEPT ![Current(j)] = <<>>]
    /\ off' = [off EXCEPT ![j] = "none"]
    /\ UNCHANGED <<level, budget>>

LeaveOneEntry(j, how) ==
    /\ pc' = [pc EXCEPT ![j] = how]
    /\ Release(j, Cardinality(Holding(j)))
    /\ taskinfo' = taskinfo \ {Current(j)}
    /\ progress' = [progress EXCEPT ![Current(j)] = <<>>]
    /\ off' = [off EXCEPT ![j] = "none"]
    /\ UNCHANGED <<level, budget>>

\* A return, or an exception other than CancelledError, leaves every frame of
\* the stack at once: no finally clause on the way awaits anything.
Leave(j, how) ==
    /\ pc' = [pc EXCEPT ![j] = how]
    /\ Release(j, Cardinality(Holding(j)))
    /\ taskinfo' = taskinfo \ Frames(j)
    /\ progress' = [progress EXCEPT ![Current(j)] = <<>>]
    /\ off' = [off EXCEPT ![j] = "none"]
    /\ UNCHANGED <<level, budget>>

\* retry(msg): give up when no retry is left, else sleep inside the frame.
Retry(j) ==
    IF level[j] = 0
    THEN Leave(j, "failed")
    ELSE /\ pc' = [pc EXCEPT ![j] = "sleep"]
         /\ off' = [off EXCEPT ![j] = "none"]
         /\ progress' = [progress EXCEPT ![Current(j)] = <<>>]
         /\ UNCHANGED <<level, budget, sem, taskinfo>>

\* Mutant of LeaveCancelled: the permit is not given back on cancellation.
LeaveCancelledKeeping(j, n) ==
    /\ IF level[j] = Retries
       THEN pc' = [pc EXCEPT ![j] = "cancelled"] /\ UNCHANGED level
       ELSE /\ pc' = [pc EXCEPT ![j] = "unwind"]
            /\ level' = [level EXCEPT ![j] = @ + 1]
    /\ taskinfo' = taskinfo \ {Current(j)}
    /\ off' = [off EXCEPT ![j] = "none"]
    /\ UNCHANGED <<budget, progress, sem>>

\* CancelledError leaves the innermost frame, which gives back n permits, and
\* reaches the frame around it (whose own except clause is then to run).
LeaveCancelled(j, n) ==
    /\ IF level[j] = Retries
       THEN pc' = [pc EXCEPT ![j] = "cancelled"] /\ UNCHANGED level
       ELSE /\ pc' = [pc EXCEPT ![j] = "unwind"]
            /\ level' = [level EXCEPT ![j] = @ + 1]
    /\ Release(j, n)
    /\ taskinfo' = taskinfo \ {Current(j)}
    /\ off' = [off EXCEPT ![j] = "none"]
    /\ UNCHANGED <<budget, progress>>

\* The effect of the Redis command a frame is awaiting.
PushedPayload(j) == payload' = payload \union {Current(j)} /\ UNCHANGED queue
PushedId(j) == queue' = Append(queue, Current(j)) /\ UNCHANGED payload

\* A command that was interrupted may or may not have reached the server.
InFlight(j) ==
    \/ pc[j] = "payload" /\ PushedPayload(j)
    \/ pc[j] = "enqueue" /\ PushedId(j)
    \/ UNCHANGED <<queue, payload>>

-----------------------------------------------------------------------------
(* run_task                                                                *)

\* A new frame: a task id, its entry in taskinfo_from_task_id.
Enter(j, k) ==
    /\ pc' = [pc EXCEPT ![j] = "limit"]
    /\ level' = [level EXCEPT ![j] = k]
    /\ taskinfo' = taskinfo \union {<<j, k>>}
    /\ UNCHANGED <<budget, off, sem, watch, redisVars, inprog, fresh, runnerVars, waited>>

RunTask(j) == pc[j] = "idle" /\ Enter(j, Retries)

\* Mutant of RunTaskAgain: the attempt is published again under its old id.
RunTaskAgainSameId(j) == pc[j] = "sleep" /\ Enter(j, level[j])

\* The sleep between attempts is over: run_task calls itself, still inside the
\* `async with` of the frame that failed.
RunTaskAgain(j) == pc[j] = "sleep" /\ Enter(j, level[j] - 1)

\* Mutant of AcquirePermit: the limit is not enforced.
AcquirePermitUnlimited(j) ==
    /\ pc[j] = "limit"
    /\ sem' = [sem EXCEPT ![RateGroup[j]] = @ - 1]
    /\ pc' = [pc EXCEPT ![j] = "payload"]
    /\ UNCHANGED <<level, budget, off, taskinfo, watch, redisVars, inprog, fresh, runnerVars, waited>>

AcquirePermit(j) ==
    /\ pc[j] = "limit"
    /\ sem[RateGroup[j]] > 0
    /\ sem' = [sem EXCEPT ![RateGroup[j]] = @ - 1]
    /\ pc' = [pc EXCEPT ![j] = "payload"]
    /\ UNCHANGED <<level, budget, off, taskinfo, watch, redisVars, inprog, fresh, runnerVars, waited>>

\* lpush of the serialized task, and its expiry.
PushPayload(j) ==
    /\ pc[j] = "payload"
    /\ PushedPayload(j)
    /\ pc' = [pc EXCEPT ![j] = "enqueue"]
    /\ UNCHANGED <<level, budget, off, sem, taskinfo, watch, progress, abort, inprog, fresh,
                   runnerVars, waited>>

\* lpush of the task id; the deadline is set and the wait loop entered.
Enqueue(j) ==
    /\ pc[j] = "enqueue"
    /\ PushedId(j)
    /\ pc' = [pc EXCEPT ![j] = "wait"]
    /\ budget' = [budget EXCEPT ![j] = "timed"]
    /\ waited' = waited \union {Current(j)}
    /\ UNCHANGED <<level, off, sem, taskinfo, watch, progress, abort, inprog, fresh, runnerVars>>

\* brpop(progress, int(task_timeout - time())): Redis reads 0 as "no timeout",
\* which int() yields from a second before to a second after the deadline, and
\* rejects a negative number.
Rearm(j) ==
    /\ pc' = [pc EXCEPT ![j] = "wait"]
    /\ \E b \in IF MayPassDeadline THEN Budgets ELSE {"timed"} :
          /\ budget[j] = "untimed" => b # "timed"
          /\ budget' = [budget EXCEPT ![j] = b]

\* Mutant of JoinWatcher: a job is not told that the watcher it joins has ended.
JoinWatcherBlindly(j, r) ==
    /\ off' = [off EXCEPT ![j] = r]
    /\ watch' = [watch EXCEPT ![r] = IF @ = "none" THEN "polling" ELSE @]

\* wait_until_offline: join the watcher of a runner, or start one.  One that has
\* ended and is still in watch_tasks ends the next wait at once.
JoinWatcher(j, r) ==
    /\ off' = [off EXCEPT ![j] = IF watch[r] \in Ended THEN watch[r] ELSE r]
    /\ watch' = [watch EXCEPT ![r] = IF @ = "none" THEN "polling" ELSE @]

\* Started: the runner is watched and onprogress called.  Only the onprogress
\* of a compile task awaits (update_status).
ReceiveStarted(j, m) ==
    /\ m.type = "started"
    /\ JoinWatcher(j, m.from)
    /\ IF j \in CompileJobs
       THEN pc' = [pc EXCEPT ![j] = "callback"] /\ UNCHANGED budget
       ELSE Rearm(j)
    /\ progress' = [progress EXCEPT ![Current(j)] = Tail(@)]
    /\ UNCHANGED <<level, sem, taskinfo>>

ReceiveProgress(j, m) ==
    /\ m.type = "progress"
    /\ Rearm(j)
    /\ progress' = [progress EXCEPT ![Current(j)] = Tail(@)]
    /\ UNCHANGED <<level, off, sem, taskinfo, watch>>

ReceiveDone(j, m) ==
    /\ m.type = "done"
    /\ Leave(j, "done")
    /\ UNCHANGED watch

ReceiveError(j, m) ==
    /\ m.type = "error"
    /\ Retry(j)
    /\ UNCHANGED watch

\* progress_task completes, and offline_task has not.
Receive(j) ==
    /\ pc[j] = "wait"
    /\ budget[j] # "negative"
    /\ off[j] \notin Ended
    /\ progress[Current(j)] # <<>>
    /\ LET m == Head(progress[Current(j)])
       IN ReceiveStarted(j, m) \/ ReceiveProgress(j, m) \/ ReceiveDone(j, m) \/ ReceiveError(j, m)
    /\ UNCHANGED <<queue, payload, abort, inprog, fresh, runnerVars, waited>>

\* offline_task raises: retry, whatever progress_task has read meanwhile.
RunnerOffline(j) ==
    /\ pc[j] = "wait"
    /\ off[j] = "offline"
    /\ Retry(j)
    /\ UNCHANGED <<watch, queue, payload, abort, inprog, fresh, runnerVars, waited>>

\* Mutant of TimedOut: only a task that a runner has started can time out.
TimedOutStarted(j) ==
    /\ pc[j] = "wait"
    /\ budget[j] = "timed"
    /\ off[j] \in Runners
    /\ progress[Current(j)] = <<>>
    /\ Retry(j)
    /\ UNCHANGED <<watch, queue, payload, abort, inprog, fresh, runnerVars, waited>>

\* brpop returns None.
TimedOut(j) ==
    /\ pc[j] = "wait"
    /\ budget[j] = "timed"
    /\ off[j] \notin Ended
    /\ progress[Current(j)] = <<>>
    /\ Retry(j)
    /\ UNCHANGED <<watch, queue, payload, abort, inprog, fresh, runnerVars, waited>>

\* update_status returns.
CallbackReturns(j) ==
    /\ pc[j] = "callback"
    /\ Rearm(j)
    /\ UNCHANGED <<level, off, sem, taskinfo, watch, redisVars, inprog, fresh, runnerVars, waited>>

\* An exception that is neither CancelledError nor RunnerOfflineException: a
\* Redis command, the watcher's own Redis command, a negative brpop timeout, or
\* update_status out of retries.  Nothing catches it, no abort is sent.
Raise(j) ==
    /\ \/ RedisMayFail /\ pc[j] \in {"payload", "enqueue", "wait", "unwind"}
       \/ pc[j] = "wait" /\ (budget[j] = "negative" \/ off[j] = "broken")
       \/ pc[j] = "callback"
    /\ InFlight(j)
    /\ Leave(j, "failed")
    /\ UNCHANGED <<watch, abort, inprog, fresh, runnerVars, waited>>

\* The caller cancels the job.  Before the wait loop no except clause runs for
\* the innermost frame; in it, the frame is left to PushAbort.
Cancel(j) ==
    /\ \/ pc[j] = "limit" /\ LeaveCancelled(j, 0)
       \/ pc[j] \in {"payload", "enqueue"} /\ LeaveCancelled(j, 1)
       \/ /\ pc[j] \in {"wait", "callback", "sleep"}
          /\ pc' = [pc EXCEPT ![j] = "unwind"]
          /\ progress' = [progress EXCEPT ![Current(j)] = <<>>]
          /\ off' = [off EXCEPT ![j] = "none"]
          /\ UNCHANGED <<level, budget, sem, taskinfo>>
    /\ InFlight(j)
    /\ UNCHANGED <<watch, abort, inprog, fresh, runnerVars, waited>>

\* Mutant of PushAbort: the frames around the innermost one send no abort.
PushAbortInnermost(j) ==
    /\ pc[j] = "unwind"
    /\ abort' = abort \union {Current(j)}
    /\ Leave(j, "cancelled")
    /\ UNCHANGED <<watch, queue, payload, inprog, fresh, runnerVars, waited>>

\* The except CancelledError clause of a frame.
PushAbort(j) ==
    /\ pc[j] = "unwind"
    /\ abort' = abort \union {Current(j)}
    /\ LeaveCancelled(j, 1)
    /\ UNCHANGED <<watch, queue, payload, inprog, fresh, runnerVars, waited>>

\* A second cancel interrupts that clause.  Only a compile task can meet it: a
\* judge task is cancelled once, by run_judge_tasks.
CancelAgain(j) ==
    /\ pc[j] = "unwind"
    /\ j \in CompileJobs
    /\ LeaveCancelled(j, 1)
    /\ UNCHANGED <<watch, queue, payload, abort, inprog, fresh, runnerVars, waited>>

-----------------------------------------------------------------------------
(* wait_until_offline: one task per runner, shared by the jobs it runs.    *)

\* Mutant of WatcherEnds: the watcher ends without a word to its jobs.
WatcherEndsSilently(r, how) ==
    /\ watch[r] = "polling"
    /\ watch' = [watch EXCEPT ![r] = how]
    /\ UNCHANGED <<schedVars, redisVars, inprog, fresh, runnerVars, waited>>

\* The watcher raises; every job that has joined it finds its offline_task done.
WatcherEnds(r, how) ==
    /\ watch[r] = "polling"
    /\ watch' = [watch EXCEPT ![r] = how]
    /\ off' = [j \in Jobs |-> IF off[j] = r THEN how ELSE off[j]]
    /\ UNCHANGED <<pc, level, budget, sem, taskinfo, redisVars, inprog, fresh, runnerVars, waited>>

\* RunnerOfflineException
WatcherFires(r) == ~fresh[r] /\ WatcherEnds(r, "offline")

\* Its Redis command raises.
WatcherFails(r) == RedisMayFail /\ WatcherEnds(r, "broken")

\* The done callback of the watcher, which the event loop runs some steps later.
WatcherRemoved(r) ==
    /\ watch[r] \in Ended
    /\ watch' = [watch EXCEPT ![r] = "none"]
    /\ UNCHANGED <<schedVars, redisVars, inprog, fresh, runnerVars, waited>>

-----------------------------------------------------------------------------
(* Keys that expire, and heartbeats.                                       *)

\* A payload outlives the timed wait of its attempt, never by more than the
\* timeout.
PayloadExpires(a) ==
    /\ a \in payload
    /\ ~(level[a[1]] = a[2] /\ pc[a[1]] \in {"payload", "enqueue"})
    /\ ~(Listening(a) /\ budget[a[1]] = "timed")
    /\ payload' = payload \ {a}
    /\ UNCHANGED <<schedVars, watch, queue, progress, abort, inprog, fresh, runnerVars, waited>>

\* Too many heartbeats are missing: the runner is down, or its `set` fails.
HeartbeatLapses(r) ==
    /\ fresh[r]
    /\ fresh' = [fresh EXCEPT ![r] = FALSE]
    /\ UNCHANGED <<schedVars, watch, redisVars, inprog, runnerVars, waited>>

Heartbeat(r) ==
    /\ rpc[r] # "down"
    /\ ~fresh[r]
    /\ fresh' = [fresh EXCEPT ![r] = TRUE]
    /\ UNCHANGED <<schedVars, watch, redisVars, inprog, runnerVars, waited>>

-----------------------------------------------------------------------------
(* poll_for_tasks of a runner                                              *)

Report(r, type) ==
    progress' = IF Listening(cur[r])
                THEN [progress EXCEPT ![cur[r]] = Append(@, [type |-> type, from |-> r])]
                ELSE progress

Goto(r, to) == rpc' = [rpc EXCEPT ![r] = to]

\* Mutant of RunnerStart: the list is kept.
RunnerStartKeeping(r) ==
    /\ rpc[r] = "down"
    /\ Goto(r, "poll")
    /\ UNCHANGED <<schedVars, watch, redisVars, inprog, fresh, cur, steps, waited>>

\* The process starts: the in-progress list of its last life is dropped.
RunnerStart(r) ==
    /\ rpc[r] = "down"
    /\ Goto(r, "poll")
    /\ inprog' = [inprog EXCEPT ![r] = {}]
    /\ UNCHANGED <<schedVars, watch, redisVars, fresh, cur, steps, waited>>

\* The process is killed (SIGTERM is not handled); Redis keeps its keys.
RunnerCrash(r) ==
    /\ rpc[r] # "down"
    /\ Goto(r, "down")
    /\ cur' = [cur EXCEPT ![r] = NoAttempt]
    /\ steps' = [steps EXCEPT ![r] = 0]
    /\ UNCHANGED <<schedVars, watch, redisVars, inprog, fresh, waited>>

\* brpoplpush
Claim(r) ==
    /\ rpc[r] = "poll"
    /\ queue # <<>>
    /\ queue' = Tail(queue)
    /\ cur' = [cur EXCEPT ![r] = Head(queue)]
    /\ inprog' = [inprog EXCEPT ![r] = @ \union {Head(queue)}]
    /\ Goto(r, "claimed")
    /\ UNCHANGED <<schedVars, watch, payload, progress, abort, fresh, steps, waited>>

\* brpoplpush takes effect and its answer is lost: the loop goes on without a
\* task id, and nothing removes the entry.
ClaimLost(r) ==
    /\ RedisMayFail
    /\ rpc[r] = "poll"
    /\ queue # <<>>
    /\ queue' = Tail(queue)
    /\ inprog' = [inprog EXCEPT ![r] = @ \union {Head(queue)}]
    /\ UNCHANGED <<schedVars, watch, payload, progress, abort, fresh, runnerVars, waited>>

\* rpop of the payload; a stale id is dropped without a word.
TakePayload(r) ==
    /\ rpc[r] = "claimed"
    /\ payload' = payload \ {cur[r]}
    /\ Goto(r, IF cur[r] \in payload THEN "start" ELSE "cleanup")
    /\ UNCHANGED <<schedVars, watch, queue, progress, abort, inprog, fresh, cur, steps, waited>>

ReportStarted(r) ==
    /\ rpc[r] = "start"
    /\ Report(r, "started")
    /\ Goto(r, "run")
    /\ UNCHANGED <<schedVars, watch, queue, payload, abort, inprog, fresh, cur, steps, waited>>

\* judge_task reports each testpoint it has judged.
ReportProgress(r) ==
    /\ rpc[r] = "run"
    /\ cur[r][1] \notin CompileJobs
    /\ steps[r] < MaxProgress
    /\ Report(r, "progress")
    /\ steps' = [steps EXCEPT ![r] = @ + 1]
    /\ UNCHANGED <<schedVars, watch, queue, payload, abort, inprog, fresh, rpc, cur, waited>>

\* aio_task returns.
Finish(r) ==
    /\ rpc[r] = "run"
    /\ Goto(r, "report")
    /\ UNCHANGED <<schedVars, watch, redisVars, inprog, fresh, cur, steps, waited>>

\* The abort poller reads a signal and cancels aio_task.  compile_task and
\* judge_task turn the cancellation into a result, unless it hits the coroutine
\* before its first step or in the push of a progress message.
ReceiveAbort(r) ==
    /\ rpc[r] = "run"
    /\ cur[r] \in abort
    /\ abort' = abort \ {cur[r]}
    /\ Goto(r, "report") \/ Goto(r, "cleanup")
    /\ UNCHANGED <<schedVars, watch, queue, payload, progress, inprog, fresh, cur, steps, waited>>

ReportDone(r) ==
    /\ rpc[r] = "report"
    /\ Report(r, "done")
    /\ Goto(r, "cleanup")
    /\ UNCHANGED <<schedVars, watch, queue, payload, abort, inprog, fresh, cur, steps, waited>>

\* Any exception of the loop body: from aio_task, or from a Redis command,
\* which may have taken effect.
LoopError(r) ==
    /\ \/ rpc[r] = "run" /\ UNCHANGED <<payload, progress>>
       \/ /\ RedisMayFail
          /\ \/ rpc[r] = "claimed" /\ payload' = payload \ {cur[r]} /\ UNCHANGED progress
             \/ rpc[r] = "start" /\ Report(r, "started") /\ UNCHANGED payload
             \/ rpc[r] = "report" /\ Report(r, "done") /\ UNCHANGED payload
             \/ rpc[r] \in {"claimed", "start", "report"} /\ UNCHANGED <<payload, progress>>
    /\ Goto(r, "error")
    /\ UNCHANGED <<schedVars, watch, queue, abort, inprog, fresh, cur, steps, waited>>

\* The finally clause: lrem, and after an error the nack.
Cleanup(r) ==
    /\ rpc[r] \in {"cleanup", "error"}
    /\ \/ inprog' = [inprog EXCEPT ![r] = @ \ {cur[r]}]
       \/ RedisMayFail /\ UNCHANGED inprog
    /\ Goto(r, IF rpc[r] = "error" THEN "nack" ELSE "poll")
    /\ cur' = [cur EXCEPT ![r] = IF rpc[r] = "error" THEN @ ELSE NoAttempt]
    /\ steps' = [steps EXCEPT ![r] = 0]
    /\ UNCHANGED <<schedVars, watch, redisVars, fresh, waited>>

ReportError(r) ==
    /\ rpc[r] = "nack"
    /\ \/ Report(r, "error")
       \/ RedisMayFail /\ UNCHANGED progress
    /\ Goto(r, "poll")
    /\ cur' = [cur EXCEPT ![r] = NoAttempt]
    /\ UNCHANGED <<schedVars, watch, queue, payload, abort, inprog, fresh, steps, waited>>

-----------------------------------------------------------------------------
Init ==
    /\ pc = [j \in Jobs |-> "idle"]
    /\ level = [j \in Jobs |-> Retries]
    /\ budget = [j \in Jobs |-> "timed"]
    /\ off = [j \in Jobs |-> "none"]
    /\ sem = [g \in Groups |-> MaxConc]
    /\ taskinfo = {}
    /\ watch = [r \in Runners |-> "none"]
    /\ queue = <<>>
    /\ payload = {}
    /\ progress = [a \in Attempts |-> <<>>]
    /\ abort = {}
    /\ inprog = [r \in Runners |-> {}]
    /\ fresh = [r \in Runners |-> FALSE]
    /\ rpc = [r \in Runners |-> "down"]
    /\ cur = [r \in Runners |-> NoAttempt]
    /\ steps = [r \in Runners |-> 0]
    /\ waited = {}

\* What run_task does by itself.
SchedStep(j) ==
    \/ RunTaskAgain(j) \/ AcquirePermit(j) \/ PushPayload(j) \/ Enqueue(j)
    \/ Receive(j) \/ RunnerOffline(j) \/ TimedOut(j) \/ CallbackReturns(j)
    \/ PushAbort(j)

JobStep(j) == RunTask(j) \/ SchedStep(j) \/ Raise(j) \/ Cancel(j) \/ CancelAgain(j)

\* What the task loop of a runner does by itself.
LoopStep(r) ==
    \/ Claim(r) \/ TakePayload(r) \/ ReportStarted(r) \/ ReportProgress(r)
    \/ Finish(r) \/ ReceiveAbort(r) \/ ReportDone(r) \/ Cleanup(r) \/ ReportError(r)

RunnerStep(r) ==
    \/ LoopStep(r) \/ RunnerStart(r) \/ RunnerCrash(r) \/ ClaimLost(r) \/ LoopError(r)
    \/ Heartbeat(r) \/ HeartbeatLapses(r)
    \/ WatcherFires(r) \/ WatcherFails(r) \/ WatcherRemoved(r)

Next ==
    \/ \E j \in Jobs : JobStep(j)
    \/ \E r \in Runners : RunnerStep(r)
    \/ \E a \in Attempts : PayloadExpires(a)

Spec == Init /\ [][Next]_vars

\* The event loop of the scheduler runs every coroutine that can run, a timed
\* brpop ends, and the poll of a watcher comes round.  Nothing is assumed of
\* the runners, of the callers or of the network.
SchedulerFairness ==
    /\ \A j \in Jobs : WF_vars(SchedStep(j))
    /\ \A r \in Runners : WF_vars(WatcherFires(r))

\* In addition, a runner that is up polls for abort signals.
RunnerFairness == \A r \in Runners : WF_vars(ReceiveAbort(r))

FairSpec == Spec /\ SchedulerFairness /\ RunnerFairness

-----------------------------------------------------------------------------
(* Properties                                                              *)

\* Type invariant.
TypeOK ==
    /\ pc \in [Jobs -> PC]
    /\ level \in [Jobs -> 0..Retries]
    /\ budget \in [Jobs -> Budgets]
    /\ off \in [Jobs -> Runners \union {"none"} \union Ended]
    /\ sem \in [Groups -> Nat]
    /\ taskinfo \subseteq Attempts
    /\ watch \in [Runners -> {"none", "polling"} \union Ended]
    /\ queue \in Seq(Attempts)
    /\ payload \subseteq Attempts
    /\ progress \in [Attempts -> Seq(Messages)]
    /\ abort \subseteq Attempts
    /\ inprog \in [Runners -> SUBSET Attempts]
    /\ fresh \in [Runners -> BOOLEAN]
    /\ rpc \in [Runners -> RPC]
    /\ cur \in [Runners -> Attempts \union {NoAttempt}]
    /\ steps \in [Runners -> 0..MaxProgress]
    /\ waited \subseteq Attempts

\* Permits are neither leaked nor given back twice, whatever the way out of the
\* nested frames (return, exception, cancellation at any await): the value of a
\* semaphore and the frames inside its `async with` always add up.
PermitsConserved ==
    \A g \in Groups : sem[g] + Cardinality(GroupHolding(g)) = MaxConc

\* The nested retries of an account whose jobs are few enough cannot block each
\* other: a permit is free, or some job past the semaphore will give its back.
PermitsSuffice ==
    \A g \in Groups :
        Cardinality(Members(g)) * Retries < MaxConc =>
            sem[g] > 0 \/ \E j \in Members(g) : pc[j] \in InLimit

\* taskinfo_from_task_id holds exactly the frames on some stack: every finally
\* clause runs once, and get_runner_status finds the task of a live attempt.
RegistryExact == taskinfo = {a \in Attempts : OnStack(a)}

\* No task is executed by two runners, even when its id is queued, the runner
\* crashes and its job retries.
ExecutedByOne ==
    \A r, q \in Runners :
        r # q /\ rpc[r] \in Executing /\ rpc[q] \in Executing => cur[r] # cur[q]

\* monitor.py's status 'invalid' ("Multiple tasks are running on this runner")
\* is not met as long as Redis answers.
OneTaskPerRunner ==
    ~RedisMayFail => \A r \in Runners : Cardinality(inprog[r]) <= 1

\* A job that counts on a runner's watcher has one that is polling, also when it
\* joined a watcher that had ended and was not yet removed from watch_tasks.
WatchedIsPolled == \A j \in Jobs : off[j] \in Runners => watch[off[j]] = "polling"

\* When a judge task has been cancelled, every attempt of it that had been
\* waited for and is still being executed has its abort signal pending, however
\* many retries lie on the stack.
AbortsPending ==
    ~RedisMayFail =>
        \A r \in Runners :
            /\ rpc[r] \in {"start", "run"}
            /\ cur[r] \in waited
            /\ cur[r][1] \notin CompileJobs
            /\ pc[cur[r][1]] = "cancelled"
            => cur[r] \in abort

\* Every call of run_task comes to an end with no help from any runner, through
\* all its retries, unless one of its waits is left without a timeout (WaitEnds).
EveryJobSettles ==
    \A j \in Jobs : pc[j] # "idle" ~> (pc[j] \in Settled \/ budget[j] # "timed")

\* docs/dev/scheduler.md: after a failed attempt (runner offline, task timed out)
\* the task is assigned anew.  An attempt in its retry interval is followed by a
\* published one, unless the job ends.
RetryReassigned ==
    \A j \in Jobs, k \in 1..Retries :
        (pc[j] = "sleep" /\ level[j] = k) ~> (<<j, k - 1>> \in waited \/ pc[j] \in Settled)

\* docs/dev/scheduler.md: a task whose execution times out is assigned anew.  No
\* wait for status updates lasts for ever.
WaitEnds == \A j \in Jobs : pc[j] = "wait" ~> pc[j] # "wait"

\* README.md, docs/dev/overview.md: judging can be interrupted.  No runner goes
\* on with a task of a cancelled job without an abort signal waiting for it.
InterruptedIsAborted ==
    \A r \in Runners :
        rpc[r] \in {"start", "run"} /\ pc[cur[r][1]] = "cancelled" => cur[r] \in abort

\* A runner that goes silent for good does not keep a job waiting: its watcher
\* ends the wait.
OfflineDetected ==
    \A j \in Jobs, r \in Runners :
        [](([](~fresh[r])) => <>(off[j] # r))

\* README.md: judging can be interrupted.  Whatever retries lie behind it, a
\* cancelled judge task that a runner is executing is left by that runner.
CancelStopsRunner ==
    \A r \in Runners, a \in Attempts :
        a[1] \notin CompileJobs =>
            (/\ pc[a[1]] \in {"unwind", "cancelled"}
             /\ rpc[r] = "run" /\ cur[r] = a /\ a \in waited)
                ~> ~(rpc[r] = "run" /\ cur[r] = a)

=============================================================================
