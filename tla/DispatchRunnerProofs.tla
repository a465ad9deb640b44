------------------------ MODULE DispatchRunnerProofs ------------------------
(***************************************************************************)
(* What Dispatch promises about runners: watchers, exclusive execution,    *)
(* in-progress lists and abort signals, for every value of the constants.  *)
(***************************************************************************)
EXTENDS DispatchProofs

-----------------------------------------------------------------------------
(* Watchers                                                                *)

\* How a step of a job moves its offline_task and the shared watchers: it starts
\* some, and joins none that has ended without being told.
JoinedPolling ==
    /\ \A r \in Runners : watch[r] = "polling" => watch'[r] = "polling"
    /\ \A i \in Jobs :
          off'[i] # off[i] /\ off'[i] \in Runners => watch'[off'[i]] = "polling"

LEMMA JobWatch ==
    ASSUME TypeOK, NEW j \in Jobs, JobStep(j)
    PROVE  JoinedPolling
<1>1. ASSUME UNCHANGED <<watch, off>>
      PROVE  JoinedPolling
  BY <1>1 DEF JoinedPolling
<1>2. ASSUME UNCHANGED watch, off' = [off EXCEPT ![j] = "none"]
      PROVE  JoinedPolling
  <2>1. "none" \notin Runners
    BY DispatchAssumption
  <2> QED
    BY <1>2, <2>1 DEF TypeOK, JoinedPolling
<1>3. CASE RunTask(j) \/ RunTaskAgain(j) \/ AcquirePermit(j) \/ PushPayload(j) \/ Enqueue(j)
           \/ CallbackReturns(j)
  BY <1>1, <1>3 DEF RunTask, RunTaskAgain, Enter, AcquirePermit, PushPayload, Enqueue, CallbackReturns
<1>4. CASE RunnerOffline(j) \/ TimedOut(j)
  BY <1>2, <1>4 DEF RunnerOffline, TimedOut, Retry, Leave
<1>5. CASE Raise(j) \/ Cancel(j) \/ PushAbort(j) \/ CancelAgain(j)
  BY <1>2, <1>5 DEF Raise, Leave, Cancel, PushAbort, CancelAgain, LeaveCancelled
<1>6. CASE Receive(j)
  <2> DEFINE m == Head(progress[Current(j)])
  <2>1. CASE ReceiveStarted(j, m)
    <3> DEFINE r == m.from
    <3> HIDE DEF m
    <3>1. JoinWatcher(j, r)
      BY <2>1 DEF ReceiveStarted
    <3> HIDE DEF r
    <3>2. Ended \intersect Runners = {} /\ "polling" \notin Ended /\ "none" \notin Ended
      BY DispatchAssumption DEF Ended
    <3>3. /\ \A i \in Jobs : off'[i] = IF i = j THEN (IF watch[r] \in Ended THEN watch[r] ELSE r) ELSE off[i]
          /\ \A q \in Runners : watch'[q] = IF q = r /\ watch[q] = "none" THEN "polling" ELSE watch[q]
      BY <3>1 DEF JoinWatcher, TypeOK
    <3>4. \A q \in Runners : watch[q] \in {"none", "polling"} \union Ended
      BY DEF TypeOK
    <3> QED
      BY <3>2, <3>3, <3>4 DEF JoinedPolling
  <2>2. CASE ReceiveProgress(j, m)
    BY <1>1, <2>2 DEF ReceiveProgress
  <2>3. CASE ReceiveDone(j, m) \/ ReceiveError(j, m)
    BY <1>2, <2>3 DEF ReceiveDone, ReceiveError, Retry, Leave
  <2> QED
    BY <1>6, <2>1, <2>2, <2>3 DEF Receive
<1> QED
  BY <1>3, <1>4, <1>5, <1>6 DEF JobStep, SchedStep

LEMMA WatchStep == TypeOK /\ WatchedIsPolled /\ [Next]_vars => WatchedIsPolled'
<1> SUFFICES ASSUME TypeOK, WatchedIsPolled, [Next]_vars PROVE WatchedIsPolled'
  OBVIOUS
<1>0. Ended \intersect Runners = {} /\ "polling" \notin Ended
  BY DispatchAssumption DEF Ended
<1>1. ASSUME NEW j \in Jobs, JobStep(j) PROVE WatchedIsPolled'
  BY <1>1, JobWatch DEF WatchedIsPolled, JoinedPolling
<1>2. ASSUME NEW r \in Runners, NEW how \in Ended, WatcherEnds(r, how) PROVE WatchedIsPolled'
  BY <1>0, <1>2 DEF WatcherEnds, WatchedIsPolled, TypeOK
<1>3. ASSUME NEW r \in Runners, WatcherRemoved(r) PROVE WatchedIsPolled'
  BY <1>0, <1>3 DEF WatcherRemoved, WatchedIsPolled, TypeOK, schedVars
<1>4. ASSUME UNCHANGED <<off, watch>> PROVE WatchedIsPolled'
  BY <1>4 DEF WatchedIsPolled
<1>5. ASSUME NEW r \in Runners, RunnerStep(r), ~WatcherRemoved(r), ~(\E how \in Ended : WatcherEnds(r, how))
      PROVE  UNCHANGED <<off, watch>>
  <2>1. ~WatcherFires(r) /\ ~WatcherFails(r)
    BY <1>5 DEF WatcherFires, WatcherFails, Ended
  <2> QED
    BY <1>5, <2>1 DEF RunnerStep, LoopStep, schedVars, RunnerStart, RunnerCrash, Claim, ClaimLost,
       TakePayload, ReportStarted, ReportProgress, Finish, ReceiveAbort, ReportDone, LoopError,
       Cleanup, ReportError, Heartbeat, HeartbeatLapses
<1>6. ASSUME NEW a \in Attempts, PayloadExpires(a) PROVE UNCHANGED <<off, watch>>
  BY <1>6 DEF PayloadExpires, schedVars
<1>7. CASE UNCHANGED vars
  BY <1>4, <1>7 DEF vars, schedVars
<1> QED
  BY <1>1, <1>2, <1>3, <1>4, <1>5, <1>6, <1>7 DEF Next

\* The shared watcher of a runner outlives every job that relies on it, and no job
\* relies on one that has ended (wait_until_offline, scheduler2/monitor.py).
THEOREM WatchedAlwaysPolled == Spec => []WatchedIsPolled
<1>1. Init => WatchedIsPolled
  BY DispatchAssumption DEF Init, WatchedIsPolled
<1> QED
  BY <1>1, WatchStep, TypeCorrect, PTL DEF Spec

-----------------------------------------------------------------------------
(* A task id is a token: queued, or with one runner, or gone.              *)

\* Attempts whose id has not been pushed yet.
Unpublished(a) ==
    \/ pc[a[1]] = "idle"
    \/ pc[a[1]] \in {"limit", "payload", "enqueue"} /\ a[2] <= level[a[1]]
    \/ pc[a[1]] \in {"wait", "callback", "sleep"} /\ a[2] < level[a[1]]

QueuedOnce == \A i, m \in 1..Len(queue) : queue[i] = queue[m] => i = m
QueuedOrTaken == \A r \in Runners, i \in 1..Len(queue) : queue[i] # cur[r]
TakenOnce == \A r, q \in Runners : r # q /\ cur[r] \in Attempts => cur[r] # cur[q]
UnpublishedNowhere ==
    \A a \in Attempts : Unpublished(a) =>
        /\ \A i \in 1..Len(queue) : queue[i] # a
        /\ \A r \in Runners : cur[r] # a
ExecutingHasTask == \A r \in Runners : rpc[r] \in Executing \union {"claimed"} => cur[r] \in Attempts

TokenInv ==
    TypeOK /\ QueuedOnce /\ QueuedOrTaken /\ TakenOnce /\ UnpublishedNowhere /\ ExecutingHasTask

\* A step of a job pushes at most the id of one attempt, until then unpublished,
\* and makes no published attempt unpublished.
LEMMA JobTokens ==
    ASSUME TypeOK, SleepHasRetry, NEW j \in Jobs, JobStep(j)
    PROVE  /\ UNCHANGED <<rpc, cur>>
           /\ \/ UNCHANGED queue
              \/ \E c \in Attempts :
                    queue' = Append(queue, c) /\ Unpublished(c) /\ ~Unpublished(c)'
           /\ \A a \in Attempts : Unpublished(a)' => Unpublished(a)
<1> USE DispatchAssumption
<1>0. Current(j) \in Attempts /\ Current(j)[1] = j /\ Current(j)[2] = level[j]
  BY DEF TypeOK, Current, Attempts
<1>1. \A a \in Attempts : a[1] \in Jobs /\ a[2] \in 0..Retries
  BY AttemptPair
<1>2. ASSUME NEW k \in 0..Retries, pc[j] = "idle" \/ (pc[j] = "sleep" /\ k = level[j] - 1), Enter(j, k)
      PROVE  \A a \in Attempts : Unpublished(a)' => Unpublished(a)
  <2> SUFFICES ASSUME NEW a \in Attempts, Unpublished(a)' PROVE Unpublished(a)
    OBVIOUS
  <2>1. CASE a[1] = j
    BY <1>1, <1>2, <2>1 DEF TypeOK, Enter, Unpublished
  <2>2. CASE a[1] # j
    BY <1>1, <1>2, <2>2 DEF TypeOK, Enter, Unpublished
  <2> QED
    BY <2>1, <2>2
<1>3. ASSUME NEW to \in PC \ {"idle", "limit"}, pc' = [pc EXCEPT ![j] = to],
             level' = level,
             \/ to \in {"unwind"} \union Settled
             \/ to \in {"payload", "enqueue"} /\ pc[j] \in {"limit", "payload", "enqueue"}
             \/ to \in {"wait", "callback", "sleep"} /\ pc[j] \in {"enqueue", "wait", "callback"}
      PROVE  \A a \in Attempts : Unpublished(a)' => Unpublished(a)
  <2> SUFFICES ASSUME NEW a \in Attempts, Unpublished(a)' PROVE Unpublished(a)
    OBVIOUS
  <2>1. CASE a[1] = j
    BY <1>1, <1>3, <2>1 DEF TypeOK, Unpublished, Settled
  <2>2. CASE a[1] # j
    BY <1>1, <1>3, <2>2 DEF TypeOK, Unpublished
  <2> QED
    BY <2>1, <2>2
<1>4. ASSUME NEW n \in Nat, LeaveCancelled(j, n)
      PROVE  \A a \in Attempts : Unpublished(a)' => Unpublished(a)
  <2>1. pc'[j] \in {"unwind", "cancelled"}
    BY <1>4 DEF LeaveCancelled, TypeOK
  <2>2. \A i \in Jobs : i # j => pc'[i] = pc[i] /\ level'[i] = level[i]
    BY <1>4 DEF LeaveCancelled, TypeOK
  <2> QED
    BY <1>1, <2>1, <2>2 DEF Unpublished
<1>5. ASSUME InFlight(j), pc'[j] \in {"unwind", "cancelled", "failed"}
      PROVE  \/ UNCHANGED queue
             \/ \E c \in Attempts :
                   queue' = Append(queue, c) /\ Unpublished(c) /\ ~Unpublished(c)'
  <2>1. CASE pc[j] = "enqueue" /\ PushedId(j)
    <3>1. PICK c \in Attempts : c = Current(j)
      BY <1>0
    <3>2. Unpublished(c) /\ ~Unpublished(c)'
      BY <1>0, <1>5, <2>1, <3>1 DEF Unpublished, TypeOK
    <3> QED
      BY <2>1, <3>1, <3>2 DEF PushedId
  <2> QED
    BY <1>5, <2>1 DEF InFlight, PushedPayload
<1>6. CASE RunTask(j)
  <2>1. Retries \in 0..Retries /\ pc[j] = "idle" /\ Enter(j, Retries)
    BY <1>6 DEF RunTask
  <2>2. \A a \in Attempts : Unpublished(a)' => Unpublished(a)
    BY <1>2, <2>1
  <2> QED
    BY <2>1, <2>2 DEF Enter, redisVars, runnerVars
<1>7. CASE RunTaskAgain(j)
  <2>1. level[j] - 1 \in 0..Retries
    BY <1>7 DEF RunTaskAgain, TypeOK, SleepHasRetry
  <2> QED
    BY <1>2, <1>7, <2>1 DEF RunTaskAgain, Enter, redisVars, runnerVars
<1>8. CASE AcquirePermit(j)
  BY <1>3, <1>8 DEF AcquirePermit, redisVars, runnerVars, PC, Open, InLimit
<1>9. CASE PushPayload(j)
  BY <1>3, <1>9 DEF PushPayload, PushedPayload, runnerVars, PC, Open, InLimit
<1>10. CASE Enqueue(j)
  <2>1. \A a \in Attempts : Unpublished(a)' => Unpublished(a)
    BY <1>3, <1>10 DEF Enqueue, PC, Open, InLimit
  <2>2. PICK c \in Attempts : c = Current(j)
    BY <1>0
  <2>3. Unpublished(c) /\ ~Unpublished(c)'
    BY <1>0, <1>10, <2>2 DEF Enqueue, Unpublished, TypeOK
  <2> QED
    BY <1>10, <2>1, <2>2, <2>3 DEF Enqueue, PushedId, runnerVars
<1>11. ASSUME pc[j] = "wait", Retry(j) PROVE \A a \in Attempts : Unpublished(a)' => Unpublished(a)
  <2>1. level' = level
    BY <1>11 DEF Retry, Leave
  <2>2. pc' = [pc EXCEPT ![j] = "failed"] \/ pc' = [pc EXCEPT ![j] = "sleep"]
    BY <1>11 DEF Retry, Leave
  <2> QED
    BY <1>3, <1>11, <2>1, <2>2 DEF PC, Open, InLimit, Settled
<1>12. CASE Receive(j)
  <2> DEFINE m == Head(progress[Current(j)])
  <2>0. pc[j] = "wait" /\ UNCHANGED <<rpc, cur, queue>>
    BY <1>12 DEF Receive, runnerVars
  <2>1. CASE ReceiveStarted(j, m) \/ ReceiveProgress(j, m)
    <3>1. level' = level
      BY <2>1 DEF ReceiveStarted, ReceiveProgress
    <3>2. pc' = [pc EXCEPT ![j] = "callback"] \/ pc' = [pc EXCEPT ![j] = "wait"]
      BY <2>1 DEF ReceiveStarted, ReceiveProgress, Rearm
    <3> QED
      BY <1>3, <2>0, <3>1, <3>2 DEF PC, Open, InLimit
  <2>2. CASE ReceiveDone(j, m)
    BY <1>3, <2>0, <2>2 DEF ReceiveDone, Leave, PC, Settled
  <2>3. CASE ReceiveError(j, m)
    BY <1>11, <2>0, <2>3 DEF ReceiveError
  <2> QED
    BY <1>12, <2>1, <2>2, <2>3 DEF Receive
<1>13. CASE RunnerOffline(j) \/ TimedOut(j)
  BY <1>11, <1>13 DEF RunnerOffline, TimedOut, runnerVars
<1>14. CASE CallbackReturns(j)
  BY <1>3, <1>14 DEF CallbackReturns, Rearm, redisVars, runnerVars, PC, Open, InLimit
<1>15. CASE Raise(j)
  <2>1. pc' = [pc EXCEPT ![j] = "failed"] /\ level' = level
    BY <1>15 DEF Raise, Leave
  <2>2. pc'[j] = "failed"
    BY <2>1 DEF TypeOK
  <2> QED
    BY <1>3, <1>5, <1>15, <2>1, <2>2 DEF Raise, runnerVars, PC, Settled
<1>16. CASE Cancel(j)
  <2>1. pc'[j] \in {"unwind", "cancelled"}
    BY <1>16 DEF Cancel, LeaveCancelled, TypeOK
  <2>2. \A a \in Attempts : Unpublished(a)' => Unpublished(a)
    <3>1. CASE LeaveCancelled(j, 0) \/ LeaveCancelled(j, 1)
      BY <1>4, <3>1
    <3>2. CASE pc' = [pc EXCEPT ![j] = "unwind"] /\ level' = level
      BY <1>3, <3>2 DEF PC, Open, InLimit
    <3> QED
      BY <1>16, <3>1, <3>2 DEF Cancel
  <2> QED
    BY <1>5, <1>16, <2>1, <2>2 DEF Cancel, runnerVars
<1>17. CASE PushAbort(j) \/ CancelAgain(j)
  BY <1>4, <1>17 DEF PushAbort, CancelAgain, runnerVars
<1> QED
  BY <1>6, <1>7, <1>8, <1>9, <1>10, <1>12, <1>13, <1>14, <1>15, <1>16, <1>17 DEF JobStep, SchedStep

\* Pushing an id that is nowhere keeps it in one place.
LEMMA PushToken ==
    ASSUME TokenInv, NEW c \in Attempts, queue' = Append(queue, c), UNCHANGED <<rpc, cur>>,
           Unpublished(c), ~Unpublished(c)',
           \A a \in Attempts : Unpublished(a)' => Unpublished(a)
    PROVE  QueuedOnce' /\ QueuedOrTaken' /\ TakenOnce' /\ UnpublishedNowhere' /\ ExecutingHasTask'
<1> USE DEF TokenInv
<1>1. /\ Len(queue') = Len(queue) + 1 /\ Len(queue) \in Nat
      /\ queue'[Len(queue) + 1] = c
      /\ \A i \in 1..Len(queue) : queue'[i] = queue[i]
  BY DEF TypeOK
<1>2. /\ \A i \in 1..Len(queue) : queue[i] # c
      /\ \A r \in Runners : cur[r] # c
  BY DEF UnpublishedNowhere
<1>3. QueuedOnce'
  BY <1>1, <1>2 DEF QueuedOnce
<1>4. QueuedOrTaken'
  BY <1>1, <1>2 DEF QueuedOrTaken
<1>5. UnpublishedNowhere'
  BY <1>1, <1>2 DEF UnpublishedNowhere
<1> QED
  BY <1>3, <1>4, <1>5 DEF TakenOnce, ExecutingHasTask

LEMMA JobTokenStep ==
    ASSUME TokenInv, SleepHasRetry, NEW j \in Jobs, JobStep(j)
    PROVE  QueuedOnce' /\ QueuedOrTaken' /\ TakenOnce' /\ UnpublishedNowhere' /\ ExecutingHasTask'
<1> USE DEF TokenInv
<1>1. CASE UNCHANGED queue
  BY <1>1, JobTokens DEF QueuedOnce, QueuedOrTaken, TakenOnce, UnpublishedNowhere, ExecutingHasTask
<1>2. CASE ~UNCHANGED queue
  BY <1>2, JobTokens, PushToken
<1> QED
  BY <1>1, <1>2

\* A runner that claims an id is the only one that has it.
LEMMA ClaimToken ==
    ASSUME TokenInv, NEW r \in Runners, queue # <<>>, queue' = Tail(queue),
           UNCHANGED <<pc, level>>,
           \/ cur' = [cur EXCEPT ![r] = Head(queue)] /\ Goto(r, "claimed")
           \/ UNCHANGED <<cur, rpc>>
    PROVE  QueuedOnce' /\ QueuedOrTaken' /\ TakenOnce' /\ UnpublishedNowhere' /\ ExecutingHasTask'
<1> USE DEF TokenInv
<1>1. /\ Len(queue) \in Nat /\ Len(queue) >= 1 /\ Len(queue') = Len(queue) - 1
      /\ \A i \in 1..Len(queue') : queue'[i] = queue[i + 1]
      /\ Head(queue) = queue[1] /\ Head(queue) \in Attempts
  BY DEF TypeOK
<1>2. \A i \in 1..Len(queue') : i + 1 \in 1..Len(queue) /\ i + 1 # 1
  BY <1>1
<1>3. \A a \in Attempts : Unpublished(a)' <=> Unpublished(a)
  BY DEF Unpublished
<1>4. \A q \in Runners : cur'[q] = cur[q] \/ (q = r /\ cur'[q] = queue[1])
  BY <1>1 DEF TypeOK
<1>5. QueuedOnce'
  BY <1>1, <1>2 DEF QueuedOnce
<1>6. QueuedOrTaken'
  BY <1>1, <1>2, <1>4 DEF QueuedOrTaken, QueuedOnce
<1>7. TakenOnce'
  BY <1>1, <1>4 DEF TakenOnce, QueuedOrTaken
<1>8. UnpublishedNowhere'
  BY <1>1, <1>2, <1>3, <1>4 DEF UnpublishedNowhere
<1>9. ExecutingHasTask'
  BY <1>1 DEF ExecutingHasTask, Goto, TypeOK
<1> QED
  BY <1>5, <1>6, <1>7, <1>8, <1>9

\* Any other step of a runner keeps its task id or forgets it.
LEMMA KeepToken ==
    ASSUME TokenInv, NEW r \in Runners, NEW to \in RPC, Goto(r, to),
           UNCHANGED <<queue, pc, level>>,
           \/ UNCHANGED cur /\ (to \in Executing \union {"claimed"} => rpc[r] \in Executing \union {"claimed"})
           \/ cur' = [cur EXCEPT ![r] = NoAttempt] /\ to \notin Executing \union {"claimed"}
    PROVE  QueuedOnce' /\ QueuedOrTaken' /\ TakenOnce' /\ UnpublishedNowhere' /\ ExecutingHasTask'
<1> USE DEF TokenInv
<1>0. NoAttempt \notin Attempts
  BY DEF NoAttempt, Attempts
<1>1. \A a \in Attempts : Unpublished(a)' <=> Unpublished(a)
  BY DEF Unpublished
<1>2. \A q \in Runners : cur'[q] = cur[q] \/ (q = r /\ cur'[q] = NoAttempt)
  BY DEF TypeOK
<1>3. \A i \in 1..Len(queue) : queue[i] \in Attempts
  BY DEF TypeOK
<1>4. QueuedOnce'
  BY DEF QueuedOnce
<1>5. QueuedOrTaken'
  BY <1>0, <1>2, <1>3 DEF QueuedOrTaken
<1>6. TakenOnce'
  BY <1>0, <1>2 DEF TakenOnce
<1>7. UnpublishedNowhere'
  BY <1>0, <1>1, <1>2 DEF UnpublishedNowhere
<1>8. ExecutingHasTask'
  BY DEF ExecutingHasTask, Goto, TypeOK
<1> QED
  BY <1>4, <1>5, <1>6, <1>7, <1>8

LEMMA TokenStep == TokenInv /\ SleepHasRetry /\ [Next]_vars => TokenInv'
<1> SUFFICES ASSUME TokenInv, SleepHasRetry, [Next]_vars
             PROVE  QueuedOnce' /\ QueuedOrTaken' /\ TakenOnce' /\ UnpublishedNowhere' /\ ExecutingHasTask'
  BY TypeStep DEF TokenInv
<1> DEFINE Goal == QueuedOnce' /\ QueuedOrTaken' /\ TakenOnce' /\ UnpublishedNowhere' /\ ExecutingHasTask'
<1>1. ASSUME UNCHANGED <<queue, cur, rpc, pc, level>> PROVE Goal
  BY <1>1 DEF TokenInv, QueuedOnce, QueuedOrTaken, TakenOnce, UnpublishedNowhere, ExecutingHasTask, Unpublished
<1>2. ASSUME NEW j \in Jobs, JobStep(j) PROVE Goal
  BY <1>2, JobTokenStep
<1>3. ASSUME NEW r \in Runners, RunnerStep(r) PROVE Goal
  <2>1. CASE Claim(r) \/ ClaimLost(r)
    BY <2>1, ClaimToken DEF Claim, ClaimLost, schedVars, runnerVars
  <2>2. CASE RunnerStart(r)
    BY <2>2, KeepToken DEF RunnerStart, schedVars, redisVars, RPC, Executing
  <2>3. CASE RunnerCrash(r)
    BY <2>3, KeepToken DEF RunnerCrash, schedVars, redisVars, RPC, Executing
  <2>4. CASE TakePayload(r)
    <3>1. \E to \in {"start", "cleanup"} : Goto(r, to)
      BY <2>4 DEF TakePayload
    <3> QED
      BY <2>4, <3>1, KeepToken DEF TakePayload, schedVars, RPC, Executing
  <2>5. CASE ReportStarted(r)
    BY <2>5, KeepToken DEF ReportStarted, schedVars, RPC, Executing
  <2>6. CASE \/ ReportProgress(r) \/ Heartbeat(r) \/ HeartbeatLapses(r) \/ WatcherFires(r)
             \/ WatcherFails(r) \/ WatcherRemoved(r)
    BY <1>1, <2>6 DEF ReportProgress, Heartbeat, HeartbeatLapses, WatcherFires, WatcherFails,
       WatcherEnds, WatcherRemoved, schedVars, redisVars, runnerVars
  <2>7. CASE Finish(r)
    BY <2>7, KeepToken DEF Finish, schedVars, redisVars, RPC, Executing
  <2>8. CASE ReceiveAbort(r)
    BY <2>8, KeepToken DEF ReceiveAbort, schedVars, RPC, Executing
  <2>9. CASE ReportDone(r)
    BY <2>9, KeepToken DEF ReportDone, schedVars, RPC, Executing
  <2>10. CASE LoopError(r)
    BY <2>10, KeepToken DEF LoopError, schedVars, RPC, Executing
  <2>11. CASE Cleanup(r)
    <3>1. CASE rpc[r] = "error"
      <4>1. Goto(r, "nack") /\ UNCHANGED <<queue, pc, level>>
        BY <2>11, <3>1 DEF Cleanup, schedVars, redisVars
      <4>2. UNCHANGED cur
        BY <2>11, <3>1 DEF Cleanup, TokenInv, TypeOK
      <4> QED
        BY <4>1, <4>2, KeepToken DEF RPC, Executing
    <3>2. CASE rpc[r] # "error"
      BY <2>11, <3>2, KeepToken DEF Cleanup, schedVars, redisVars, RPC, Executing
    <3> QED
      BY <3>1, <3>2
  <2>12. CASE ReportError(r)
    BY <2>12, KeepToken DEF ReportError, schedVars, RPC, Executing
  <2> QED
    BY <1>3, <2>1, <2>2, <2>3, <2>4, <2>5, <2>6, <2>7, <2>8, <2>9, <2>10, <2>11, <2>12
       DEF RunnerStep, LoopStep
<1>4. ASSUME NEW a \in Attempts, PayloadExpires(a) PROVE Goal
  BY <1>1, <1>4 DEF PayloadExpires, schedVars, runnerVars
<1>5. CASE UNCHANGED vars
  BY <1>1, <1>5 DEF vars, schedVars, redisVars, runnerVars
<1> QED
  BY <1>2, <1>3, <1>4, <1>5 DEF Next

LEMMA TokenInit == Init => TokenInv
<1> SUFFICES ASSUME Init PROVE TokenInv
  OBVIOUS
<1>0. NoAttempt \notin Attempts
  BY DEF NoAttempt, Attempts
<1>1. TypeOK /\ Len(queue) = 0
  BY InitStack DEF StackInv, Init
<1> QED
  BY <1>0, <1>1 DEF Init, TokenInv, QueuedOnce, QueuedOrTaken, TakenOnce, UnpublishedNowhere,
     ExecutingHasTask, Executing

\* No task id is ever executed by two runners: brpoplpush hands each id to one,
\* every retry has an id of its own, and no cancellation or lost answer of Redis
\* duplicates one.
THEOREM ExecutedByOneAlways == Spec => []ExecutedByOne
<1>1. TokenInv => ExecutedByOne
  BY DEF TokenInv, TakenOnce, ExecutingHasTask, ExecutedByOne
<1>2. StackInv => SleepHasRetry
  BY DEF StackInv
<1> QED
  BY <1>1, <1>2, TokenInit, TokenStep, StackCorrect, PTL DEF Spec

-----------------------------------------------------------------------------
(* The in-progress list of a runner                                        *)

\* While Redis answers, the list is empty between tasks and names at most the
\* task the runner is at; the list a dead runner leaves names at most one.
InProgressInv ==
    ~RedisMayFail => \A r \in Runners :
        /\ rpc[r] \in {"poll", "nack"} => inprog[r] = {}
        /\ rpc[r] # "down" => inprog[r] \subseteq {cur[r]}
        /\ \E a \in Attempts \union {NoAttempt} : inprog[r] \subseteq {a}

LEMMA InProgressStep == TypeOK /\ InProgressInv /\ [Next]_vars => InProgressInv'
<1> SUFFICES ASSUME TypeOK, InProgressInv, [Next]_vars, ~RedisMayFail PROVE InProgressInv'
  BY DEF InProgressInv
<1>1. ASSUME UNCHANGED <<rpc, cur, inprog>> PROVE InProgressInv'
  BY <1>1 DEF InProgressInv
<1>2. ASSUME NEW j \in Jobs, JobStep(j) PROVE UNCHANGED <<rpc, cur, inprog>>
  BY <1>2 DEF JobStep, SchedStep, RunTask, RunTaskAgain, Enter, AcquirePermit, PushPayload,
     Enqueue, Receive, RunnerOffline, TimedOut, CallbackReturns, Raise, Cancel, PushAbort,
     CancelAgain, runnerVars
<1>3. ASSUME NEW r \in Runners, NEW to \in RPC, Goto(r, to),
             UNCHANGED <<cur, inprog>>, to \in {"poll", "nack"} => inprog[r] = {}, rpc[r] # "down"
      PROVE  InProgressInv'
  BY <1>3 DEF InProgressInv, Goto, TypeOK
<1>4. ASSUME NEW r \in Runners, RunnerStep(r) PROVE InProgressInv'
  <2>1. CASE RunnerStart(r)
    BY <2>1 DEF RunnerStart, Goto, InProgressInv, TypeOK
  <2>2. CASE RunnerCrash(r)
    BY <2>2 DEF RunnerCrash, Goto, InProgressInv, TypeOK
  <2>3. CASE Claim(r)
    <3>1. inprog'[r] = {Head(queue)} /\ cur'[r] = Head(queue) /\ rpc'[r] = "claimed"
      BY <2>3 DEF Claim, Goto, InProgressInv, TypeOK
    <3>2. Head(queue) \in Attempts
      BY <2>3 DEF Claim, TypeOK
    <3>3. \A q \in Runners : q # r => inprog'[q] = inprog[q] /\ cur'[q] = cur[q] /\ rpc'[q] = rpc[q]
      BY <2>3 DEF Claim, Goto, TypeOK
    <3> QED
      BY <3>1, <3>2, <3>3 DEF InProgressInv
  <2>4. CASE TakePayload(r)
    <3>1. \E to \in {"start", "cleanup"} : Goto(r, to)
      BY <2>4 DEF TakePayload
    <3> QED
      BY <1>3, <2>4, <3>1 DEF TakePayload, RPC, Executing
  <2>5. CASE ReportStarted(r) \/ Finish(r)
    BY <1>3, <2>5 DEF ReportStarted, Finish, RPC, Executing
  <2>6. CASE ReceiveAbort(r)
    BY <1>3, <2>6 DEF ReceiveAbort, RPC, Executing
  <2>7. CASE ReportDone(r) \/ LoopError(r)
    BY <1>3, <2>7 DEF ReportDone, LoopError, RPC, Executing
  <2>8. CASE Cleanup(r)
    <3>1. rpc[r] # "down" /\ inprog' = [inprog EXCEPT ![r] = @ \ {cur[r]}]
      BY <2>8 DEF Cleanup
    <3>2. inprog[r] \subseteq {cur[r]}
      BY <3>1 DEF InProgressInv
    <3>3. inprog'[r] = inprog[r] \ {cur[r]}
      BY <3>1 DEF TypeOK
    <3>4. inprog'[r] = {}
      BY <3>2, <3>3
    <3>5. \A q \in Runners : q # r => inprog'[q] = inprog[q] /\ cur'[q] = cur[q] /\ rpc'[q] = rpc[q]
      BY <2>8 DEF Cleanup, Goto, TypeOK
    <3> QED
      BY <3>4, <3>5 DEF InProgressInv
  <2>9. CASE ReportError(r)
    <3>1. inprog' = inprog /\ inprog[r] = {}
      BY <2>9 DEF ReportError, InProgressInv
    <3>2. \A q \in Runners : q # r => cur'[q] = cur[q] /\ rpc'[q] = rpc[q]
      BY <2>9 DEF ReportError, Goto, TypeOK
    <3> QED
      BY <3>1, <3>2 DEF InProgressInv
  <2>10. CASE \/ ReportProgress(r) \/ Heartbeat(r) \/ HeartbeatLapses(r) \/ WatcherFires(r)
              \/ WatcherFails(r) \/ WatcherRemoved(r)
    BY <1>1, <2>10 DEF ReportProgress, Heartbeat, HeartbeatLapses, WatcherFires, WatcherFails,
       WatcherEnds, WatcherRemoved, runnerVars
  <2> QED
    BY <1>4, <2>1, <2>2, <2>3, <2>4, <2>5, <2>6, <2>7, <2>8, <2>9, <2>10
       DEF RunnerStep, LoopStep, ClaimLost
<1>5. ASSUME NEW a \in Attempts, PayloadExpires(a) PROVE UNCHANGED <<rpc, cur, inprog>>
  BY <1>5 DEF PayloadExpires, runnerVars
<1>6. CASE UNCHANGED vars
  BY <1>1, <1>6 DEF vars, runnerVars
<1> QED
  BY <1>1, <1>2, <1>4, <1>5, <1>6 DEF Next

\* As long as Redis answers, monitor.py never finds several tasks in progress on
\* a runner, across crashes and restarts.
THEOREM OneTaskPerRunnerAlways == Spec => []OneTaskPerRunner
<1>1. Init => InProgressInv
  BY DEF Init, InProgressInv
<1>2. InProgressInv => OneTaskPerRunner
  <2> SUFFICES ASSUME InProgressInv, ~RedisMayFail, NEW r \in Runners
               PROVE  Cardinality(inprog[r]) <= 1
    BY DEF OneTaskPerRunner
  <2>1. PICK a : inprog[r] \subseteq {a}
    BY DEF InProgressInv
  <2>2. inprog[r] = {} \/ inprog[r] = {a}
    BY <2>1
  <2>3. CASE inprog[r] = {}
    BY <2>3, FS_EmptySet
  <2>4. CASE inprog[r] = {a}
    <3>1. Cardinality({a}) = 1
      BY FS_Singleton
    <3> QED
      BY <2>4, <3>1
  <2> QED
    BY <2>2, <2>3, <2>4
<1> QED
  BY <1>1, <1>2, InProgressStep, TypeCorrect, PTL DEF Spec

-----------------------------------------------------------------------------
(* Abort signals                                                           *)

\* The except CancelledError clause of the attempt's frame has run.
Signalled(a) == pc[a[1]] = "cancelled" \/ (pc[a[1]] = "unwind" /\ a[2] < level[a[1]])

\* No runner executes the task or can come to do so.
Dropped(a) ==
    /\ \A i \in 1..Len(queue) : queue[i] # a
    /\ \A r \in Runners : cur[r] = a => rpc[r] \notin {"claimed", "start", "run"}

WaitedPublished == ~RedisMayFail => \A a \in waited : ~Unpublished(a)

\* The signal of a judge task that was waited for is there from the moment its
\* frame has sent it, for as long as a runner may still need it.
AbortInv ==
    ~RedisMayFail => \A a \in waited :
        (a[1] \notin CompileJobs /\ Signalled(a)) => (a \in abort \/ Dropped(a))

\* A step of a job enters the wait loop only with the id it publishes, and no
\* frame of a judge task is left on cancellation without a signal, unless its
\* task is not published.
LEMMA JobSignals ==
    ASSUME TypeOK, NEW j \in Jobs, JobStep(j), ~RedisMayFail
    PROVE  /\ abort \subseteq abort'
           /\ \A a \in waited' : a \in waited \/ (~Unpublished(a)' /\ ~Signalled(a)')
           /\ \A a \in Attempts :
                 (a[1] \notin CompileJobs /\ Signalled(a)')
                    => (Signalled(a) \/ Unpublished(a) \/ a \in abort')
<1> USE DispatchAssumption
<1>0. /\ Current(j) \in Attempts /\ Current(j)[1] = j /\ Current(j)[2] = level[j]
      /\ \A a \in Attempts : a = <<a[1], a[2]>> /\ a[1] \in Jobs /\ a[2] \in Nat /\ a[2] <= Retries
      /\ level[j] \in Nat
  BY DEF TypeOK, Current, Attempts
<1> DEFINE Left == \A a \in Attempts :
                      (a[1] \notin CompileJobs /\ Signalled(a)')
                         => (Signalled(a) \/ Unpublished(a) \/ a \in abort')
<1>1. ASSUME pc'[j] \notin {"unwind", "cancelled"},
             \A i \in Jobs : i # j => (pc'[i] = pc[i] /\ level'[i] = level[i])
      PROVE  Left
  <2> SUFFICES ASSUME NEW a \in Attempts, Signalled(a)' PROVE Signalled(a)
    OBVIOUS
  <2>1. a[1] # j
    BY <1>1 DEF Signalled
  <2> QED
    BY <1>0, <1>1, <2>1 DEF Signalled
<1>2. CASE \/ RunTask(j) \/ RunTaskAgain(j) \/ AcquirePermit(j) \/ PushPayload(j)
           \/ CallbackReturns(j) \/ RunnerOffline(j) \/ TimedOut(j) \/ Receive(j) \/ Raise(j)
  <2>1. UNCHANGED <<abort, waited>>
    BY <1>2 DEF RunTask, RunTaskAgain, Enter, AcquirePermit, PushPayload, CallbackReturns,
       RunnerOffline, TimedOut, Receive, Raise, redisVars
  <2>2. \E to \in PC \ {"unwind", "cancelled"} : pc' = [pc EXCEPT ![j] = to]
    BY <1>2 DEF RunTask, RunTaskAgain, Enter, AcquirePermit, PushPayload, CallbackReturns, Rearm,
       RunnerOffline, TimedOut, Retry, Leave, Receive, ReceiveStarted, ReceiveProgress,
       ReceiveDone, ReceiveError, Raise, PC, Open, InLimit, Settled
  <2>3. \A i \in Jobs : i # j => level'[i] = level[i]
    BY <1>2 DEF RunTask, RunTaskAgain, Enter, AcquirePermit, PushPayload, CallbackReturns,
       RunnerOffline, TimedOut, Retry, Leave, Receive, ReceiveStarted, ReceiveProgress,
       ReceiveDone, ReceiveError, Raise, TypeOK
  <2>4. /\ pc'[j] \notin {"unwind", "cancelled"}
        /\ \A i \in Jobs : i # j => (pc'[i] = pc[i] /\ level'[i] = level[i])
    BY <2>2, <2>3 DEF TypeOK
  <2> QED
    BY <1>1, <2>1, <2>4
<1>3. CASE Enqueue(j)
  <2>1. /\ pc' = [pc EXCEPT ![j] = "wait"] /\ waited' = waited \union {Current(j)}
        /\ UNCHANGED <<abort, level>>
    BY <1>3 DEF Enqueue
  <2>2. Left
    BY <1>1, <2>1 DEF TypeOK
  <2>3. PICK c \in Attempts : c = Current(j) /\ c[1] = j /\ c[2] = level[j]
    BY <1>0
  <2>4. pc'[j] = "wait" /\ level'[j] = level[j]
    BY <2>1 DEF TypeOK
  <2>5. ~Unpublished(c)' /\ ~Signalled(c)'
    BY <1>0, <2>3, <2>4 DEF Unpublished, Signalled
  <2>6. waited' = waited \union {c}
    BY <2>1, <2>3
  <2> QED
    BY <2>1, <2>2, <2>5, <2>6
<1>4. CASE Cancel(j)
  <2>1. UNCHANGED <<abort, waited>>
    BY <1>4 DEF Cancel
  <2>2. /\ \A i \in Jobs : i # j => (pc'[i] = pc[i] /\ level'[i] = level[i])
        /\ pc[j] \in {"limit", "payload", "enqueue", "wait", "callback", "sleep"}
        /\ pc[j] \in {"wait", "callback", "sleep"} => (pc'[j] = "unwind" /\ level'[j] = level[j])
    BY <1>4 DEF Cancel, LeaveCancelled, TypeOK
  <2>3. pc[j] \in {"limit", "payload", "enqueue"} =>
           \/ level[j] = Retries
           \/ (pc'[j] = "unwind" /\ level'[j] = level[j] + 1)
    BY <1>4 DEF Cancel, LeaveCancelled, TypeOK
  <2> SUFFICES ASSUME NEW a \in Attempts, Signalled(a)' PROVE Signalled(a) \/ Unpublished(a)
    BY <2>1
  <2>4. CASE a[1] # j
    BY <1>0, <2>2, <2>4 DEF Signalled
  <2>5. CASE a[1] = j /\ pc[j] \in {"wait", "callback", "sleep"}
    BY <1>0, <2>2, <2>5 DEF Signalled, Unpublished
  <2>6. CASE a[1] = j /\ pc[j] \in {"limit", "payload", "enqueue"}
    <3>1. a[2] <= level[j]
      BY <1>0, <2>3, <2>6 DEF Signalled
    <3> QED
      BY <2>6, <3>1 DEF Unpublished
  <2> QED
    BY <2>2, <2>4, <2>5, <2>6
<1>5. CASE PushAbort(j)
  <2>1. abort' = abort \union {Current(j)} /\ UNCHANGED waited /\ pc[j] = "unwind"
    BY <1>5 DEF PushAbort
  <2>2. /\ \A i \in Jobs : i # j => (pc'[i] = pc[i] /\ level'[i] = level[i])
        /\ level[j] = Retries \/ (pc'[j] = "unwind" /\ level'[j] = level[j] + 1)
    BY <1>5 DEF PushAbort, LeaveCancelled, TypeOK
  <2> SUFFICES ASSUME NEW a \in Attempts, Signalled(a)' PROVE Signalled(a) \/ a = Current(j)
    BY <2>1
  <2>3. CASE a[1] # j
    BY <1>0, <2>2, <2>3 DEF Signalled
  <2>4. CASE a[1] = j
    <3>1. a[2] < level[j] \/ a[2] = level[j]
      BY <1>0, <2>2, <2>4 DEF Signalled
    <3> QED
      BY <1>0, <2>1, <2>4, <3>1 DEF Signalled, Current
  <2> QED
    BY <2>3, <2>4
<1>6. CASE CancelAgain(j)
  <2>1. UNCHANGED <<abort, waited>> /\ j \in CompileJobs
    BY <1>6 DEF CancelAgain
  <2>2. \A i \in Jobs : i # j => (pc'[i] = pc[i] /\ level'[i] = level[i])
    BY <1>6 DEF CancelAgain, LeaveCancelled, TypeOK
  <2>3. \A a \in Attempts : (a[1] \notin CompileJobs /\ Signalled(a)') => Signalled(a)
    BY <1>0, <2>1, <2>2 DEF Signalled
  <2> QED
    BY <2>1, <2>3
<1> QED
  BY <1>2, <1>3, <1>4, <1>5, <1>6 DEF JobStep, SchedStep

\* A runner consumes no signal but that of the task it then leaves, and a task
\* that was dropped stays so.
LEMMA RunnerSignals ==
    ASSUME TokenInv, NEW r \in Runners, RunnerStep(r), NEW a \in Attempts,
           a \in abort \/ Dropped(a)
    PROVE  a \in abort' \/ Dropped(a)'
<1> DEFINE Late == {"claimed", "start", "run"}
<1>0. NoAttempt \notin Attempts /\ TypeOK
  BY DEF NoAttempt, Attempts, TokenInv
<1>1. CASE ReceiveAbort(r) /\ a = cur[r]
  <2>1. UNCHANGED <<queue, cur>> /\ rpc'[r] \notin Late
    BY <1>0, <1>1 DEF ReceiveAbort, Goto, TypeOK
  <2>2. \A q \in Runners : q # r => cur[q] # a
    BY <1>1 DEF TokenInv, TakenOnce
  <2>3. \A i \in 1..Len(queue) : queue[i] # a
    BY <1>1 DEF TokenInv, QueuedOrTaken
  <2> QED
    BY <2>1, <2>2, <2>3 DEF Dropped
<1>2. CASE a \in abort /\ ~(ReceiveAbort(r) /\ a = cur[r])
  BY <1>2 DEF RunnerStep, LoopStep, redisVars, RunnerStart, RunnerCrash, Claim, ClaimLost,
     TakePayload, ReportStarted, ReportProgress, Finish, ReceiveAbort, ReportDone, LoopError,
     Cleanup, ReportError, Heartbeat, HeartbeatLapses, WatcherFires, WatcherFails, WatcherEnds, WatcherRemoved
<1>3. CASE Dropped(a)
  <2>1. ASSUME UNCHANGED queue,
               \A q \in Runners : cur'[q] = a => (cur[q] = a /\ (rpc'[q] = rpc[q] \/ rpc'[q] \notin Late \/ rpc[q] \in Late))
        PROVE  Dropped(a)'
    BY <1>3, <2>1 DEF Dropped
  <2>2. CASE Claim(r) \/ ClaimLost(r)
    <3>0. queue # <<>> /\ queue' = Tail(queue) /\ queue \in Seq(Attempts)
      BY <1>0, <2>2 DEF Claim, ClaimLost, TypeOK
    <3>1. /\ Len(queue) \in Nat /\ Len(queue') = Len(queue) - 1
          /\ \A i \in 1..Len(queue') : queue'[i] = queue[i + 1]
          /\ Head(queue) = queue[1] /\ 1 \in 1..Len(queue)
      BY <3>0
    <3>2. Head(queue) # a /\ \A i \in 1..Len(queue') : queue'[i] # a
      BY <1>3, <3>1 DEF Dropped
    <3>3. \A q \in Runners : cur'[q] = a => (cur[q] = a /\ rpc'[q] = rpc[q])
      BY <1>0, <2>2, <3>2 DEF Claim, ClaimLost, Goto, TypeOK, runnerVars
    <3> QED
      BY <1>3, <3>2, <3>3 DEF Dropped
  <2>3. CASE \/ TakePayload(r) \/ ReportStarted(r) \/ Finish(r) \/ ReceiveAbort(r) \/ ReportDone(r)
             \/ LoopError(r) \/ RunnerStart(r)
    <3>1. UNCHANGED <<queue, cur>>
      BY <2>3 DEF TakePayload, ReportStarted, Finish, ReceiveAbort, ReportDone, LoopError,
         RunnerStart, redisVars
    <3>2. \A q \in Runners : rpc'[q] = rpc[q] \/ rpc'[q] \notin Late \/ rpc[q] \in Late
      BY <1>0, <2>3 DEF TakePayload, ReportStarted, Finish, ReceiveAbort, ReportDone, LoopError,
         RunnerStart, Goto, TypeOK
    <3> QED
      BY <2>1, <3>1, <3>2
  <2>4. CASE RunnerCrash(r) \/ Cleanup(r) \/ ReportError(r)
    <3>1. UNCHANGED queue
      BY <2>4 DEF RunnerCrash, Cleanup, ReportError, redisVars
    <3>2. \A q \in Runners : cur'[q] = cur[q] \/ cur'[q] = NoAttempt
      BY <1>0, <2>4 DEF RunnerCrash, Cleanup, ReportError, TypeOK
    <3>3. \A q \in Runners : rpc'[q] = rpc[q] \/ rpc'[q] \notin Late
      BY <1>0, <2>4 DEF RunnerCrash, Cleanup, ReportError, Goto, TypeOK
    <3> QED
      BY <1>0, <2>1, <3>1, <3>2, <3>3
  <2>5. CASE \/ ReportProgress(r) \/ Heartbeat(r) \/ HeartbeatLapses(r) \/ WatcherFires(r)
             \/ WatcherFails(r) \/ WatcherRemoved(r)
    <3>1. UNCHANGED <<queue, cur, rpc>>
      BY <2>5 DEF ReportProgress, Heartbeat, HeartbeatLapses, WatcherFires, WatcherFails,
         WatcherEnds, WatcherRemoved, redisVars, runnerVars
    <3> QED
      BY <2>1, <3>1
  <2> QED
    BY <2>2, <2>3, <2>4, <2>5 DEF RunnerStep, LoopStep
<1> QED
  BY <1>1, <1>2, <1>3

LEMMA AbortStep ==
    TokenInv /\ SleepHasRetry /\ WaitedPublished /\ AbortInv /\ [Next]_vars
        => WaitedPublished' /\ AbortInv'
<1> SUFFICES ASSUME TokenInv, SleepHasRetry, WaitedPublished, AbortInv, [Next]_vars, ~RedisMayFail
             PROVE  WaitedPublished' /\ AbortInv'
  BY DEF AbortInv, WaitedPublished
<1>0. TypeOK /\ waited \subseteq Attempts
  BY DEF TokenInv, TypeOK
<1>1. ASSUME UNCHANGED <<pc, level, waited>>,
             \A a \in Attempts : (a \in abort \/ Dropped(a)) => (a \in abort' \/ Dropped(a)')
      PROVE  WaitedPublished' /\ AbortInv'
  BY <1>0, <1>1 DEF WaitedPublished, AbortInv, Unpublished, Signalled
<1>2. ASSUME NEW j \in Jobs, JobStep(j) PROVE WaitedPublished' /\ AbortInv'
  <2>1. /\ abort \subseteq abort'
        /\ \A a \in waited' : a \in waited \/ (~Unpublished(a)' /\ ~Signalled(a)')
        /\ \A a \in Attempts :
              (a[1] \notin CompileJobs /\ Signalled(a)')
                 => (Signalled(a) \/ Unpublished(a) \/ a \in abort')
    BY <1>0, <1>2, JobSignals
  <2>2. /\ UNCHANGED <<rpc, cur>>
        /\ \/ UNCHANGED queue
           \/ \E c \in Attempts : queue' = Append(queue, c) /\ Unpublished(c)
        /\ \A a \in Attempts : Unpublished(a)' => Unpublished(a)
    BY <1>0, <1>2, JobTokens
  <2>3. WaitedPublished'
    BY <1>0, <2>1, <2>2 DEF WaitedPublished
  <2>4. ASSUME NEW a \in waited, Dropped(a) PROVE Dropped(a)'
    <3>1. ~Unpublished(a)
      BY DEF WaitedPublished
    <3>2. CASE UNCHANGED queue
      BY <2>2, <2>4, <3>2 DEF Dropped
    <3>3. ASSUME NEW c \in Attempts, queue' = Append(queue, c), Unpublished(c) PROVE Dropped(a)'
      <4>1. c # a
        BY <3>1, <3>3
      <4>2. \A i \in 1..Len(queue') : queue'[i] = c \/ (i \in 1..Len(queue) /\ queue'[i] = queue[i])
        BY <1>0, <3>3 DEF TypeOK
      <4>3. \A i \in 1..Len(queue') : queue'[i] # a
        BY <2>4, <4>1, <4>2 DEF Dropped
      <4> QED
        BY <2>2, <2>4, <4>3 DEF Dropped
    <3> QED
      BY <2>2, <3>2, <3>3
  <2>5. ASSUME NEW a \in waited', a[1] \notin CompileJobs, Signalled(a)'
        PROVE  a \in abort' \/ Dropped(a)'
    <3>1. a \in waited /\ a \in Attempts
      BY <1>0, <2>1, <2>5
    <3>2. Signalled(a) \/ a \in abort'
      BY <2>1, <2>5, <3>1 DEF WaitedPublished
    <3>3. CASE Signalled(a)
      <4>1. a \in abort \/ Dropped(a)
        BY <2>5, <3>1, <3>3 DEF AbortInv
      <4> QED
        BY <2>1, <2>4, <3>1, <4>1
    <3> QED
      BY <3>2, <3>3
  <2> QED
    BY <2>3, <2>5 DEF AbortInv
<1>3. ASSUME NEW r \in Runners, RunnerStep(r) PROVE WaitedPublished' /\ AbortInv'
  <2>1. UNCHANGED <<pc, level, waited>>
    BY <1>3 DEF RunnerStep, LoopStep, schedVars, RunnerStart, RunnerCrash, Claim, ClaimLost,
       TakePayload, ReportStarted, ReportProgress, Finish, ReceiveAbort, ReportDone, LoopError,
       Cleanup, ReportError, Heartbeat, HeartbeatLapses, WatcherFires, WatcherFails, WatcherEnds, WatcherRemoved
  <2> QED
    BY <1>1, <1>3, <2>1, RunnerSignals
<1>4. CASE UNCHANGED vars \/ \E a \in Attempts : PayloadExpires(a)
  <2>1. UNCHANGED <<pc, level, waited, abort, queue, cur, rpc>>
    BY <1>4 DEF PayloadExpires, vars, schedVars, redisVars, runnerVars
  <2> QED
    BY <1>1, <2>1 DEF Dropped
<1> QED
  BY <1>2, <1>3, <1>4 DEF Next

\* As long as Redis answers, a runner that executes an attempt of a cancelled
\* judge task has its abort signal pending, however many retries lie on the
\* stack and wherever the cancellation met them (dispatch.py:118-122).
THEOREM AbortsAlwaysPending == Spec => []AbortsPending
<1>1. Init => WaitedPublished /\ AbortInv
  BY DEF Init, WaitedPublished, AbortInv
<1>2. TokenInv /\ AbortInv => AbortsPending
  <2> SUFFICES ASSUME TokenInv, AbortInv, ~RedisMayFail, NEW r \in Runners,
                      rpc[r] \in {"start", "run"}, cur[r] \in waited,
                      cur[r][1] \notin CompileJobs, pc[cur[r][1]] = "cancelled"
               PROVE  cur[r] \in abort
    BY DEF AbortsPending
  <2> QED
    BY DEF AbortInv, Signalled, Dropped
<1>3. StackInv => SleepHasRetry
  BY DEF StackInv
<1> QED
  BY <1>1, <1>2, <1>3, AbortStep, TokenInit, TokenStep, StackCorrect, PTL DEF Spec
=============================================================================
