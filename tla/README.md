# TesutoHime: a TLA+ verification project

TesutoHime is an online judge: a web server keeps problems and submissions, a
scheduler turns a submission into tasks and hands them to runners through Redis, and
runners compile and run the code in a sandbox.  Contests may be proctored: the page of
a contestant records camera and screen and uploads them to a recording service.
Problems are solved in an IDE in the browser.  This directory holds TLA+ models of the
judging core, of proctoring and of the IDE, the TLC configurations that check them,
and TLAPS proofs about them.  Paths below are relative to the repository.

## 1. Inventory

| Component | Source | State | Operations | Hard part |
|---|---|---|---|---|
| Task dispatch | `scheduler2/dispatch.py`, `scheduler2/util.py` | stack of `run_task` frames, semaphores, `taskinfo_from_task_id` | run, retry, wait, cancel | nested retries inside a rate limiter, cancellation at any await, deadlines |
| Runner monitor | `scheduler2/monitor.py` | `watch_tasks` | watch, fire, fail | one watcher shared by many jobs |
| Runner loop | `judger2/main.py`, `judger2/task.py` | current task, abort poller | claim, run, report, clean up, crash | crash between any two Redis commands |
| Redis | `commons/util.py` (`RedisQueues`) | task queue, payload, progress, abort, in-progress, heartbeat keys | lists with expiry | commands that take effect and still raise |
| Judge service | `scheduler2/main.py` | three dictionaries of judge tasks | judge, abort, update problem, status | registering while an earlier run unwinds, in-memory state lost in a restart |
| Plan execution | `scheduler2/plan/execute.py` | contexts, results, records, files in S3 | execute, start, settle, skip, synthesize, clean up | tasks ending in any order; cancellation and clean-up |
| Plan generation | `scheduler2/plan/generate.py` | the plan | group testpoints, resolve dependencies | dependencies across groups |
| Web callbacks | `scheduler2/util.py` (`make_request`), `web/web.py`, `web/manager/judge.py` | status of a record | submit, rejudge, void, abort, set status, set result | retries, late and lost requests |
| Scheduler's S3 calls | `scheduler2/s3.py` | files in the artifacts bucket | copy, remove | threads outlive the coroutine that awaits them |
| Chunk uploader | `web/static/js/proctor.js:151-231` | bounded buffer, attempts, one request under way | enqueue, send, retry, drop | a full buffer while an answer is awaited; requests that arrive after they were given up |
| In-exam page | `web/static/js/proctor.js` | event buffer, overlay, token, recorders | raise, flush, start, reconnect, unload | flushes that overlap new events; overlays that replace each other |
| Recording service | `proctor2/main.py` | sessions, spool files, registry file, finalize queue | register, chunk, finalize, retry, sweep, restart | two finalizers, late chunks, crashes at every await |
| Proctoring sessions | `web/manager/proctor.py`, `web/web.py` | the row of the session | start, end, reopen, store events | its state and that of the service change separately |
| Problem IDE | `web/static/js/problem_ide.js`, `lsp-monaco.js` | code per language in localStorage, documents at the language servers, markers | edit, switch, reload, submit, server ready, diagnostics | one editor model handed between servers that start and answer late |
| Contests | `web/manager/contest.py` | none of its own | rank | scoring rules |
| Runner cache | `judger2/cache.py` | cached files, locks | download, clean | clean-up against use |
| Users, courses, OAuth, discussion, templates, scripts | `web/`, `scripts/`, `alembic/` | database rows | single requests | none between requests |

How they interact: the web server posts a submission to the scheduler
(`schedule_judge` to `judge`); `run_judge` executes the plan of the problem,
`run_judge_tasks` calls `run_task` for every task, which talks to a runner
through Redis; progress comes back through `onprogress`, and status and result
go to the web server by `make_request`.  An abort, a rejudge or an update of
the problem may come in at any of these points.  In a proctored contest the page
asks the web server for a session; the web server registers its token with the
recording service, to which the page posts chunks; events go to the web server;
the end of the session makes the service upload its files to object storage.
The IDE talks to language servers in Web Workers of the same page.

What makes them correct:

* dispatch: permits are conserved, attempts are executed once, every call ends,
  a cancelled task is stopped, a silent runner is noticed;
* judge service: one live run per submission, its result reaches the web
  server, files and contexts are removed, an abort ends;
* plan: a testpoint runs only after its dependency passed, is skipped only for
  cause, and every testpoint has a final result in a verdict;
* recording: what is missing from a recording is reported, what was acknowledged
  is kept, chunks sent with different tokens are not mixed in a file, and nothing
  waits for ever;
* events: every violation that is raised arrives, in order, if it can;
* IDE: a student's code survives, and each server sees the right text.

## 2. Modules

### Dispatch

One runner group.  A *job* is one top-level `run_task`; a retry is a nested
call inside the frame of the failed attempt, so a job is a stack of frames and
the attempt `<<j, k>>` is the frame with `retries_left = k`.  A step is the code
between two awaits.

| Model | Code |
|---|---|
| `pc`, `level`, `budget`, `off` | where the innermost frame is, its `retries_left`, whether its `brpop` has a timeout, its `offline_task` |
| `sem`, `taskinfo`, `watch` | `RateLimiter.semaphores`, `taskinfo_from_task_id`, `watch_tasks` |
| `queue`, `payload`, `progress`, `abort`, `inprog`, `fresh` | the Redis keys |
| `rpc`, `cur`, `steps` | the loop of a runner |
| `RunTask`, `AcquirePermit`, `PushPayload`, `Enqueue`, `Receive`, `RunnerOffline`, `TimedOut`, `CallbackReturns`, `RunTaskAgain` | `run_task` between its awaits |
| `Raise`, `Cancel`, `PushAbort`, `CancelAgain` | its exceptions and its `except CancelledError` clause |
| `JoinWatcher`, `WatcherFires`, `WatcherFails`, `WatcherRemoved` | `wait_until_offline`, the watcher's exceptions and its done callback |
| `RunnerStart` ... `ReportError`, `Heartbeat`, `HeartbeatLapses` | `poll_for_tasks`, `send_heartbeats` |

An exception leaves all the frames at once (`Leave`), because no `finally`
clause awaits; a cancellation leaves them one by one (`LeaveCancelled`), because
each frame pushes an abort signal.  A Redis command interrupted by a
cancellation may or may not have reached the server (`InFlight`).  Messages
nobody will read are dropped (`Listening`).  `int(task_timeout - time())` is
kept as three cases: positive, zero (Redis: wait for ever), negative (Redis: an
error).  A watcher that has raised stays in `watch_tasks` until its done callback
runs; a job that joins it in between finds it ended.

### Judge

The submissions of one problem.  A *run* is one asyncio task of `run_judge`.
`run` says at which await it is, `cancel` that it was cancelled and has not yet
taken its `CancelledError`; the `Cut...` actions say what that error does at
each place.  `byId` and `byProblem` are the dictionaries of `main.py` (the keys
of `judge_task_args` equal `byProblem`), `ctx` is `ctx_from_submission`, `req`
a `make_request` in progress with what its variable `args` holds, `wire` status
updates whose sender was cancelled.  How a task is run is left to Dispatch, what
the verdict is to Plan: here both may end in any way at any time.

A submission has two files in the artifacts bucket: its code, which the scheduler
copies there, and the compile artifact, which a runner puts there through a signed
URL (`judger2/steps/compile_.py:90`).  `toClean` is `files_to_clean` of the context,
which may hold one, both or none; `Clean` removes one of them per step, as the loop of
`execute_plan` does.  `calls` are the S3 calls no run waits for any more: a copy or a
removal whose awaiter was cancelled or stopped, and the upload of a runner that was
given up or told to stop (`LeaveRunner`).  `CallEnds` lets each take effect or not, at
any later time; `strayed` has the files they are about.  A restart keeps those that
were under way (`UnderWay`).

`Judging` is the abstract specification: what the service promises of runs without
saying how they are kept, cancelled or reported.  A run is *new*, *queued*,
*judging*, *reported* and *done*.  It is registered when all earlier runs of its
submission are done or lost; once it is judged, the only way on is to hand its
result over (`HandOver`) and then to be done; only a run that was not begun is
dropped, and only a stop of the scheduler loses one that was.  What was handed over
stays so.  `Stage` maps the place a run is at to its stage, `Handed` are the runs
whose result the web server has handled, or that is being sent or was given up;
`RunsInOrder` is `Judging`'s specification under this mapping, and has `ResultSent`
for a consequence, which is proved and needs no run of its own.  Handing over says
nothing of the answer: that make_request may give a result up is the finding of
`JudgeRequest`.

### Plan

From the testpoints of a problem to the verdict.  The initial states are all problems
with the given IDs: every dependency and every `DiskLimit`, put into tasks as
`parse_testpoints` does.  `left` and `depOn` are the testpoints of `record.task` and
their `dependent_on`, `results` is `ctx.results`, `running`, `batch` and `pending` are
`tasks_running`, `done` and `dependents` of the loop.  `scored` are the testpoints of
the score groups, any subset of all: only they count in `synthesize_scores`, and only
they are missed there.  `RemoveSkipped` is `remove_skipped_testpoints_from_task`,
which calls itself: a recursive function of the call, with a bound (`Depth`) on how
deep the calls go that is proved never to be met.  `Answers` is what `judge_task` of
the runner may return.  Result messages, scores and resource usage are left out.

### Recording and ChunkUploader

`Recording` is the abstract specification: chunks are captured and settled in
order, may reach the file late, twice or out of order, and the settled chunks
that are missing never outnumber the warnings in the event log.  `ChunkUploader`
is `makeUploader` of `proctor.js`, the network and `handle_chunk`.  `pending` is
always a window `head .. seq-1` of chunk numbers; `working` and `item` say what
the asynchronous loop `drain` awaits.  `Enqueue` is the function the recorder
calls, `ReplyOk` and `Fail` are the two outcomes of `attemptOne` with what the loop
does next, `Wake` is the end of the pause, `HandleChunk` an append at the service,
of the current request or of one the page has given up.  The refinement maps
`captured` to `seq`, `settled` to `head` and `file` to `spool`; `Accountable` is
`Recording`'s specification under this mapping.

### ProctorPage

The rest of the in-exam page for one contestant, and the web server's handler of
events.  An event is its number, `raised` its kind.  `queue`, `batch`, `timer` and
`request` are `eventQueue`, the batch of the flush under way, `flushTimer` and its
request; `log` is the table of events.  `GiveUp` covers answers that are lost and
requests that arrive later.  `ClickStart`, `EnsureSession`, `MediaGranted`,
`BootFails` and `FullscreenSettles` are the start of an exam between its awaits;
`ScreenEnded`, `CameraEnded` and `ReconnectStreams` what happens when a track ends.
`Reload` includes the `pagehide` handler: its beacon has no `X-Acmoj-Is-Csrf`
header and is refused (`web/csrf.py:34-37`), so what the buffer holds is lost with
the page (`left`).

At this commit contestants are sent to the page `proctor_setup.html`, whose inline
script carries a simpler runtime (chunks posted once, events flushed every few
seconds); `proctor.js` is modelled as the repository has it.

### Proctor

One session in the recording service, in the web server and in the page.  `page` has
the token the page uses, the one in `sessionStorage` and the number of its last
`MediaRecorder`; a chunk is `<<token, recorder, number>>`, a file or an object is a set
of chunks.  The page gets a token when it has none (`StartSession`), rotates it
(`Reconnect`, which fails before it stores the new one or starts a recorder), or does
not hear of it (`AnswerLost`); a page that is loaded again takes the stored token and
starts a new recorder with it (`Reload`).  `handle_chunk` compares tokens and knows of no
recorders.

An action of the service is what runs between two awaits: `AcceptChunk` and
`AppendChunk` are the two parts of `handle_chunk`, `Save` and `Saved` the snapshot and
the thread of `_save_registry`, `SweepListed`, `SweepCleaned` and `SweepDropped` the
pass of `_ttl_sweeper` with the thread it awaits, `StartUpload` ... `Leftover` the parts
of `_do_finalize`, which the handler (`handler`) and the retry loop (`retry`) may run at
the same time.  The retry loop keeps the entry it has taken from the queue across its
await; if the handler queues another in the meantime, or removes it, the attempts of the
one that is held are `orphan`, and it is these that the loop counts.  `Crash` drops
memory and loads the registry file.  `closing`, `late`, `outdated` and `swept` record
which of the code's known limits has been met, so that the properties can say what holds
outside them.

### Ide

The editor, `localStorage`, one client record per language with what it has posted
(`toServer`) and the markers it has set, and one server record with its document and
what it has published (`toPage`).  `didOpen`, `didChange` and `didClose` are operators
from a client to a client, as in `lsp-monaco.js`; `TakesStarter` and `loadCode` are
the rules of `loadCode`, with `looksStaleAutoGenerated` true of what an importer wrote
(`Stale`) and of a student's code with such a line in it (`Marked`); `applyLanguage`
includes the content handler that `setValue` fires.  The servers are external: they
take messages in order and publish what they find; that they publish an empty list for
a closed document is the constant `ClearsOnClose`.  `work` is a history variable: what
the student typed last in each language.  Errors during the start of a server only
change an indicator, which is left out, so `Initialized` may come at any time or
never.  Completion, hover and signature help call `didChange` with the text of the
editor first; `Synced` shows that this never sends anything.

### MC modules, proofs

`MCDispatch`, `MCJudge`, `MCPlan`, `MCChunkUploader`, `MCProctorPage`, `MCProctor` and
`MCIde` instantiate these for TLC.  `DispatchProofs`, `DispatchRunnerProofs`,
`JudgeProofs`, `PlanProofs`, `UploaderProofs`, `PageProofs`, `ProctorProofs` and
`IdeProofs` hold the theorems.  Definitions marked *Mutant of* are plausible bugs in
the definition they precede; nothing uses them in the specifications.

## 3. Runs

| Run | Checks | Bounds |
|---|---|---|
| `DispatchJobs` | type, permits, registry, in-progress list, watchers, abort signals | a compile and a judge job of one account, 1 runner, 1 retry, 3 permits, deadlines may pass |
| `DispatchRunners` | execution by one runner | 1 job, 2 runners (symmetric), 1 retry, every Redis command may fail |
| `DispatchLiveness` | every job settles, silent runners are noticed, cancelled tasks stop | 1 job, 2 runners, 1 retry, deadlines may pass |
| `JudgeRuns` | dictionaries, results, order, files, contexts, refinement of `Judging` | 1 submission, 2 runs, 2 files, 2 overlapping updates, 2 attempts per request, failures and restarts; states told apart by `View` |
| `JudgeAbort` | a cancelled run ends | the same with 1 run |
| `PlanRuns` | dependencies, skipping, verdicts, starts, results, end | all problems of 3 testpoints with IDs 2, 3, 1, any of them in a score group |
| `DispatchRetryBlocked` | *violated*: a failed task is assigned anew | 2 jobs, 4 permits, 3 retries |
| `UploaderRuns` | refinement of `Recording`, order, every chunk settles | buffer of 2, 2 attempts, 4 chunks, any request late or lost |
| `PageRuns` | type, no event dropped or overtaken, events arrive | 3 events, batches of 2, 1 reload, 1 request handled after it was given up |
| `ProctorRuns` | type, acknowledged chunks kept, tokens not mixed in a file, queue drains | 1 kind, 2 tokens, 2 chunks, 2 attempts, 1 fault: a crash, a sweep, a reload, a lost answer or a reopening |
| `ProctorReopen` | *violated*: an uploaded segment is never overwritten | the same |
| `IdeRuns` | code kept, servers in step, markers settle | 2 languages, 2 starters, 1 student text, the importer's text (loaded or typed), 3 edits or switches, 2 page loads |

Further configurations are kept for single questions and are not part of the
regular runs: `DispatchUntimedWait`, `DispatchCancelWindow`, `JudgeRequest`,
`PlanLoop`, `PlanDependency`, `PlanTwice` (one problem of seven testpoints in four
tasks), `UploaderDropped`, `PageGate`, `PageToken`, `ProctorPartial`,
`ProctorRegistry`, `ProctorRecorder`, `IdeMarkers`, `IdeMarked` and `IdeStorage` end with
the violations described below; `IdeNoStorage` checks `TypeOK` and `Synced` when
`localStorage` refuses writes and servers publish nothing on close, and `ProctorKinds`
the safety properties of `ProctorRuns` with two kinds, of which one may fail while the
other succeeds (2.3 million states).  In `PlanLoop` every testpoint is in a score group.

`JudgeRuns` counts states as equal that differ only in the status a record shows
(absent or not), in late updates of it that are under way, in the result a run holds,
or in how often a request was sent (`View` of MCJudge).  This is sound: no guard and
no property of the run but `TypeOK`, which is part of the view, reads more of these
than whether the record is there, and no other variable's next value depends on them;
`JudgeAbort` and `JudgeRequest` use no view.

Why the bounds are enough for the cases of interest: with one retry a job has
two frames, so every exit passes a nested `async with`; with two jobs and a
runner the runner serves one while the other waits, crashes, is cancelled or
retries; with two runners an attempt may be taken for dead on one and published
for the other.  Two runs of a submission give a late request, a thread left
running and an unwinding run something to collide with.  Three testpoints give
chains, forks, groups with a dependency inside and outside, and loops.  Four
chunks and a buffer of two let the buffer overflow twice while a request is
awaited, so that an answer shifts a chunk that was never sent.  Three events
and batches of two give a flush under way, events behind it and a batch that is
too large.  Two tokens give the recording service a request of an earlier token to
append after a registration, and two kinds (`ProctorKinds`) one that fails while the
other succeeds; MaxAttempts is 8 in the code and 2 here, which lets the queue retry once
and give up; one fault can hit every step of a finalization, but two do not follow each
other.  Three acts
in the IDE are an edit, a switch and a switch back, with every lag of both
servers; two loads let the starter change in between.

`CHECK_DEADLOCK FALSE` is set throughout: these are terminating calls, and a
state in which all of them have ended is no error.

### What the violations show

* A retry waits for a second permit while holding the first (`dispatch.py:62`).  The
  nested frames of fewer failing jobs than the account has permits use them all up:
  with four permits and three retries, two jobs that fail twice keep two each, wait
  for a third, and nothing is assigned anew, against `docs/dev/scheduler.md:53`.
  `PermitsSuffice` says when this cannot happen: when the jobs of the account times
  `Retries` are fewer than `MaxConc`.
* A status update handled in the last second before the deadline makes the next
  `brpop` wait without a timeout (`dispatch.py:82`).
* A job cancelled while it pushes its task id sends no abort (`dispatch.py:75`).
* `make_request` overwrites `args`, so its retries send nothing (`util.py:38`).
* A task whose testpoints were all skipped never ends, and what depends on it
  never starts; the problem is reported to have a dependency loop
  (`execute.py:300`, `execute.py:409`).
* The loop of `run_judge_tasks` starts a task again whenever a task it depends on ends
  while it waits for nothing (`execute.py:373`, `PlanTwice`): a task that depends on
  two others and stops waiting when the first of them ends is started, and started
  again when the second ends, and the second answer overwrites the first.  A testpoint
  that was run because its dependency passed the first time stays accepted when it
  fails the second time.
* `Dependency` is an ID, not a place in `Details` (`generate.py:317`).
* Finalization forgets the segment counter of a session; after `reopen_session` the
  new recording is uploaded over the old one (`proctor2/main.py:296`, run
  `ProctorReopen`), against `main.py:294` and the docstring of `reopen_session`.
* A chunk that arrives after its kind was uploaded and unlinked recreates the file,
  and the retry for the other kind replaces the object by it (`ProctorPartial`).
* A page that is loaded again appends the chunks of a new recorder to the segment of the
  old one, because it keeps its token (`proctor.js:56` and `649`, `ProctorRecorder`),
  against `main.py:103-105` and `web.py:2317-2318`; `SegmentsPure` says what remains
  true, that a segment holds the chunks of one token.
* `_registry_lock` is never taken; two saves may be written in the wrong order
  (`ProctorRegistry`).
* `reconnectStreams` fails on the undeclared `TOKEN_KEY` after the token was rotated
  (`proctor.js:576`, `PageToken`).
* The over-limit warning replaces the overlay that waits for the permissions
  (`proctor.js:341`, `PageGate`).
* A chunk may be given up that was never sent (`proctor.js:196`, `UploaderDropped`);
  `Accountable` shows that the number of warnings still covers the loss.
* Late diagnostics of a language are shown over another (`IdeMarkers`) until the
  server clears them; if `localStorage` refuses a write, the code is lost with the
  page or the next switch (`IdeStorage`).  Code in which a student left, or typed, a
  line that an earlier importer wrote is replaced by the starter
  (`problem_ide.js:333`, `IdeMarked`), though it is not "auto-generated junk".  So is
  code typed in a second tab of the same problem, which is not modelled.

Read along the way and not modelled: a batch of more than 100 events is refused
each time it is sent (`web/web.py:1647`; `EventsArrive` excludes it); the `abort(429)`
of the rate limit is caught by the `except` around it (`web/web.py:1661`); the beacon of
`proctor_setup.html:1177` has no CSRF header either.

### Fairness

* Dispatch: the event loop runs every coroutine that can run, a timed `brpop`
  ends, a watcher polls again (`SchedulerFairness`).  Nothing is assumed of the
  runners, of callers or of callbacks, except that a runner that is up reads its
  abort signal (`RunnerFairness`), as `poll_for_abort_signal` loops for it.
* Judge: a run that is cancelled or has its result takes its next step, and a
  request is answered or fails.
* Plan: `run_judge_tasks` goes on, and a task that is running ends (this is
  `EveryJobSettles` of Dispatch).
* ChunkUploader: a fetch is answered, fails or is aborted after 20 s, and the timer
  of a pause fires.  Nothing is assumed of the network or of the service.
* ProctorPage: timers fire and requests end; a page that posts again and again is
  heard in the end (strong fairness of `HandleEvents`, needed because each attempt
  may be lost).
* Proctor: the retry loop of the service runs and its uploads end, well or badly.
* Ide: workers and the page handle posted messages.  Nothing is assumed of the
  student or of the start of a server.

## 4. Proofs

TLAPS proves the theorems below for every value of the constants that the named
assumptions allow.  Every invariant and every action property that a passing run
checks is proved.

| Theorem | States | For every |
|---|---|---|
| `TypeCorrect` (DispatchProofs) | `Spec => []TypeOK` | number of jobs, runners, groups, permits and retries (`DispatchAssumption`: finitely many jobs, at least one permit) |
| `PermitsAlwaysConserved` | `Spec => []PermitsConserved` | |
| `RegistryAlwaysExact` | `Spec => []RegistryExact` | |
| `PermitsAlwaysSuffice` | `Spec => []PermitsSuffice` | |
| `WatchedAlwaysPolled` | `Spec => []WatchedIsPolled` | |
| `ExecutedByOneAlways` | `Spec => []ExecutedByOne` | |
| `OneTaskPerRunnerAlways` | `Spec => []OneTaskPerRunner` | |
| `AbortsAlwaysPending` | `Spec => []AbortsPending` | |
| `TypeCorrect` (JudgeProofs) | `Spec => []TypeOK` | number of submissions, runs, updates and attempts of a request (`JudgeAssumption`) |
| `RegistryAlwaysAgrees` | `Spec => []RegistryAgrees` | |
| `ResultAlwaysSent` | `Spec => []ResultSent` | |
| `ResultsAlwaysInOrder` | `Spec => []ResultsInOrder` | |
| `CodeAlwaysAvailable` | `Spec => []CodeAvailable` | |
| `FilesAlwaysRemoved` | `Spec => []FilesRemoved` | |
| `ContextsAlwaysExact` | `Spec => []ContextsExact` | |
| `JudgeImplementsJudging` | `Spec => RunsInOrder` (refinement) | |
| `TypeCorrect` (PlanProofs) | `Spec => []TypeOK` | number of testpoints, with different IDs (`PlanAssumption`), their dependencies and grouping |
| `DependencyHolds` | `Spec => []DependencyPassed` | |
| `TreeDependencyHolds` | `Spec => [](Tree => RunIfPassed)` | |
| `SkippingJustified` | `Spec => []SkippedForCause` | |
| `VerdictComplete` | `Spec => []VerdictIsFinal` | |
| `TreeStartsOnce` | `Spec => []StartedOnce` | |
| `FinalResultsStay` | `Spec => ResultsStay` | |
| `TypeCorrect` (UploaderProofs) | `Safety => []TypeOK` | buffer size and attempt limit of at least one, number of chunks |
| `LossesAreAccounted` | `Safety => []LossAccounted` | |
| `CleanAlwaysInOrder` | `Safety => []CleanInOrder` | |
| `UploaderImplementsRecording` | `Safety => Accountable` | |
| `TypeCorrect` (PageProofs) | `Safety => []TypeOK` | number of events, batch size, reloads and stray requests (`PageAssumption`) |
| `NothingEverDropped` | `Safety => []NothingDropped` | |
| `LogAlwaysInOrder` | `Safety => []InOrder` | |
| `TypeCorrect` (ProctorProofs) | `Safety => []TypeOK` | kinds, tokens, chunks, attempts and faults, with at least one token and one attempt (`ProctorAssumption`) |
| `AckedAlwaysKept` | `Safety => []AckedKept` | |
| `SegmentsAlwaysPure` | `Safety => []SegmentsPure` | |
| `TypeCorrect` (IdeProofs) | `Safety => []TypeOK` | set of languages and texts, with a student's code told from starters, the importer's text, the empty text and null (`TextsAssumption`) |
| `WorkAlwaysKept` | `StorageWorks => (Safety => []WorkKept)` | |
| `AlwaysSynced` | `Safety => []Synced` | |

The specifications of the theorems are those the runs check, without fairness
where safety needs none.  Each inductive invariant was checked by TLC, on the
instance of the component's run, before it was proved, except for its parts that
quantify over all functions (`LeadsTo` of IdeProofs).  That of Plan was also checked on
all problems of four testpoints and on the problem of `PlanTwice`.

*Permits.*  `PermitsConserved` is inductive with `TypeOK`.  Lemmas say how the
set of frames of a group that hold a permit changes in each kind of step (a
frame acquires, one frame is left, the whole stack is left, nothing changes) and
what that does to its cardinality; each action is one of these kinds.
`PermitsSuffice` follows: if no permit is free and no job of the group is past
the semaphore, all permits are held by outer frames, of which each job has at
most `Retries`.

*Registry.*  `RegistryExact` is inductive with `TypeOK` along the same kinds of
step.

*Watchers.*  `WatchedIsPolled` is inductive with `TypeOK`: the step in which a watcher
ends moves every job that joined it, and a job that joins it between its end and its
removal does not count on it (`JoinedPolling`).

*Execution.*  `ExecutedByOne` is not inductive: nothing in it forbids an id that
is queued twice.  `TokenInv` treats the id of an attempt as a token: it is in the
queue once at most (`QueuedOnce`), not both in the queue and with a runner
(`QueuedOrTaken`), not with two runners (`TakenOnce`), and nowhere before its
frame has pushed it (`UnpublishedNowhere`).  `JobTokens` says that a step of a
job pushes one unpublished id at most and makes no published one unpublished,
which is where the fresh id of each attempt enters; the mutant that reuses the
id breaks the property.

*In-progress list.*  `OneTaskPerRunner` is strengthened to `InProgressInv`: while
Redis answers, the list of a runner is empty between tasks and names at most its
current task, and the list that a dead runner leaves names at most one.

*Abort signals.*  `AbortsPending` speaks of the end of a cancellation, when all
frames have been left.  `AbortInv` says it frame by frame: from the moment the
`except` clause of a frame has run (`Signalled`), the signal is there or no runner
executes the attempt or can come to do so (`Dropped`).  That a dropped attempt
stays dropped is the token argument again: `TokenInv` is used, and
`WaitedPublished` says that a frame in its wait loop has published its id.

*Judge.* None of the properties is inductive.  The invariant follows the one live run
of a submission: what it may have left in `ctx_from_submission` and in S3 is a matter
of the await it is at and of what it still has to clean (`Local`), and what is left
when no run is live is `Free`.  `Registered` states the dictionaries run by run,
`OlderOver` that all runs but the last are over, `Requested` at which awaits each kind
of request exists and that its attempts are counted down, `CallsStrayed` that every S3
call without an awaiter is about a strayed file, which is why it cannot undo what
`Local` says of the others.  Three shapes of step carry the proof: a run goes on
(`RunGoesOn`), ends (`RunEnds`) or stays as it is (`RunStays`); the actions are
instances of them.  The refinement rests on the same invariant.  A step of one run
changes that run alone and takes it from its stage to the next or leaves it there
(`Moved`), which is a step of `Judging` or a stutter (`MovedIsStep`); `Requested` is
needed to see that a run that is being judged has not handed anything over.  A
registration is `Begin` because of `FreshNumber` and `Registered` (`RegisterBegins`),
a restart is `Stop` (`RestartStops`).

*Skipping.*  A step of Plan calls `remove_skipped_testpoints_from_task`, which goes
through the dependents of a task and calls itself on theirs.  `SkippingOutcome` says
what comes of it for every state and every graph of dependents: what is removed
depends on a failed testpoint or on a removed one, and is removed for no other reason
(`Effect`: it lies in every set that is closed under these causes); it is in a task
that the calls reach; everything else stays, but for dependencies on accepted
testpoints; and no task among the direct dependents keeps a testpoint that waits for a
failed one.  `RemovedFacts` shows this of the pass over one task, `EffectsCompose` puts
one effect after the other, `CallsOutcome` and `CallsComplete` go through the calls.
The inductions, over the testpoints of a pass and over the depth of the calls, do
without the library's induction theorems: `NaturalSteps` is induction over a set of
naturals, from `LeastNatural` and the well-foundedness of `<`.  That the recursive
functions exist at all (`PassExists`, `CallsExist`) is shown the same way.
`DepthSuffices`: a call needs at most as many levels as it has tasks to go through, and
`Len(Ids) + 1` more for every testpoint that is still in a task, because a call on the
dependents of a task has first removed a testpoint; so the bound loses no call.

*Plan.*  No property but the type is inductive.  `RecordsOK` relates `left`, `depOn` and
the problem; `LoopOK` says what is empty at each point of the loop; `StartedReady` that
a started task waits for nothing outside itself; `ResultsOK` that testpoints of tasks
not started have no result and that `judging` is said only of tasks under way.  From
these, when nothing is running and no result is missing, every testpoint is final
(`VerdictSettled`).  The verdict's relation to the dependencies needs `OnceOK`: a
dependency that is no more waited for was accepted in a task that has ended
(`PassedFirst`), the results of an ended task agree with the dependencies inside it
(`SettledResults`), and what was removed depends on something that failed for good
(`RemovedForCause`).  All three fail once a task is started a second time, since the
second answer may contradict the first; the attempt to prove `DependencyPassed` without
that premise is how the behaviour of `PlanTwice` was found.  `TreeOK` shows when it
cannot happen: if no task depends on two others, a task is looked at again only when it
has no testpoint left or was never started and the one task it depends on has ended.
This covers every problem in which each testpoint is a task (`AloneIsTree`), that is all
problems without a positive `DiskLimit`.  A cancelled run keeps its types, its plan and
`StartedOnce` only.  `ResultsStay` is an action property: a result that is final stays
final, and is replaced only at the end of a run of the testpoint's own task, as when an
attempt that had reported it is retried and answers otherwise.  Reports leave final
results alone, and skipping reaches only testpoints of tasks that were not started, which
have none (`ResultsOK`).

*Uploader.* `LossAccounted` is not inductive: when a full buffer drops the chunk whose
answer is awaited, the answer will shift another chunk without a warning.  The warning
of the full buffer has to pay for it, so `LossAccountedInv` counts the chunk in hand
as missing as soon as it has left the buffer, stored or not.  It is inductive with
`TypeOK`, `LoopInv` (the loop runs exactly while the buffer holds chunks, and the
chunk in hand is its front or has left it), `AttemptsLeft` (chunks in the buffer or in
hand have attempts left) and `RequestInv` (requests are about captured chunks, and an
answer is that of a stored one).  Lemmas about the cardinality of the missing chunks
when the window moves or a chunk is stored carry the argument; each action is one of
these.  The refinement follows: every action of the uploader is a step of `Recording`
or leaves its variables alone, and `Accounted'` is the invariant in the next state.

*Order of chunks.*  `CleanInOrder` says that a chunk without a failed attempt is in the
file at most once and before every chunk captured after it; a chunk that was given up
may still arrive behind it.  It is strengthened to `OrderInv`: nothing beyond the
chunk in hand was ever sent (`NothingAhead`), a chunk without failures has no
request other than the one `drain` awaits (`FirstAttempts`), and the pause of the loop
follows a failure of the chunk at the front (`PauseAfterFailure`).

*Events.*  `EventInv`: the events that the page holds, those of the batch before those
of the queue, are the last ones raised, without a gap (`Window`), all before them
are stored or were lost with a page (`Below`), an answered batch is stored
(`AnsweredStored`), and the same holds of every request that was given up and may
still arrive (`StrayInv`): it is a run of consecutive numbers before which
everything is known.  The last is why a late request cannot overtake.

*Recording service.* `AckedKept` is not inductive, since an upload replaces an object
and the clean-up removes files.  `Faithful` says what a run of `_do_finalize` has
secured so far: files it did not list are empty, files it has dealt with are in their
object unless their kind failed, and what it is uploading is the whole file.  It
survives because only one of the two finalizers runs at a time (`Once`): until the
session is reopened one finalize request is handled, and the retry queue is empty
while its handler runs.  `SegmentsPure` needs `Owned`: no segment beyond the one of
the registry entry is in use, that one has chunks of its token only, and every other
one chunks of one token, also counting those that were accepted and not yet appended.
`Counted` bounds segments by the tokens issued: every registration under way may still
open one.

*IDE.* `WorkKept` is inductive with `TypeOK`, because `loadCode` returns code that is
neither empty nor a seed nor marked as it is.  It needs `StorageWorks`; `IdeStorage`
shows that it fails without.  `Synced` is about what a server will have after a queue
of any length, which is a recursive function of the queue.  `LeadsTo` takes the place
of an induction over the queue: the invariant carries that the recursion has a
solution for the queue at hand and that every solution ends in the right document.
Posting a message extends a solution by one (`LeadsFurther`), and taking one shifts it
(`LeadsOn`), so both facts are kept step by step.  `InStep` adds that a document is
open exactly for the language in the editor, if its server is ready, and was last sent
the text of the editor.

What the proofs changed in the models: a missing pair of parentheses in ProctorPage's
`TypeOK` had made one conjunct conditional on another, and its count of tab switches
(`Switches`) is a cardinality now; Proctor requires at least one token, without which
its `TypeOK` is false; `Synced` uses a recursive function in place of a fold, Ide
names its assumption about texts, and its `TypeOK` covers clients and servers; Plan
uses recursive functions in place of a fold and of a RECURSIVE operator (TLC found
both forms equal in every state of the instance of `PlanRuns`); a restart in Judge
counts the results under way as given up, and no longer the status updates too.
`DependencyPassed` and `SkippedForCause` have the premise that no task was started
twice: without it they are false, which three testpoints are too few to show, and
`RunIfPassed` keeps the statement of the documentation.  No other property was
weakened.

Left to TLC:

* liveness (`EveryJobSettles`, `OfflineDetected`, `CancelStopsRunner`, `AbortEnds`,
  `Ends`, `ChunksSettle`, `EventsArrive`, `QueueDrains`, `MarkersSettle`), which needs
  fairness and ENABLED.

## 5. Not modelled

Parsing of problem archives, signed URLs, messages, scores, metrics and logging; the
sandbox and the steps that run inside it; quiz scoring; permission checks and listings
of the web server; the runner status cache (`main.py:179-215`).  An interrupt of a
runner in the middle of a task is not modelled, nor is the abort poller that is left
behind when a task raises (`judger2/main.py:80-101`): it goes on polling the key of a
task that is over.  The limiter is modelled without asyncio's FIFO order of waiters:
any waiter may get a free permit.

Proctoring: live view (WebRTC, LiveKit), snapshots, the environment check, the
preview of a recording and size limits; `handle_abort`, which the web server never
calls.  IDE: themes, splitters, static completion lists, the self-test button (one
request at a time by a disabled button), the status indicator and the conversion of
LSP items.  Other scripts of `web/static/js` (`problem_admin.js`, `admin.js`,
`contest_admin.js`, `judge_detail.js`, `base.js`, `render.js`): forms, single requests and
rendering.

`web/static/lib` holds about 97 000 of the repository's 101 000 lines of JavaScript:
Monaco, editor.md with CodeMirror, jQuery plug-ins and builds of language servers.
It is third-party code that the project uses as it is, and it is not modelled; the
project's own scripts are about 3 900 lines, of which the models above cover the
stateful parts.

## 6. Plan

1. An abstract specification of dispatch that Plan's assumptions rest on.
2. ChunkUploader composed with Proctor: tokens that change while chunks are
   buffered.
3. The runner's file cache, the runner status cache, and contest ranking as
   operators against a reference definition.
