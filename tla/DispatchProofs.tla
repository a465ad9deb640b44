--------------------------- MODULE DispatchProofs ---------------------------
(***************************************************************************)
(* Safety of Dispatch for every set of jobs, runners and rate limit groups *)
(* and every number of permits, retries and progress messages.             *)
(***************************************************************************)
EXTENDS Dispatch, FiniteSetTheorems, TLAPS

\* A frame in its retry interval has a retry left.
SleepHasRetry == \A j \in Jobs : pc[j] = "sleep" => level[j] > 0

StackInv == TypeOK /\ SleepHasRetry /\ RegistryExact /\ PermitsConserved

-----------------------------------------------------------------------------
(* The scheduler's part of a step, seen through the stack of one job.      *)

\* Nothing that PermitsConserved or RegistryExact looks at moves.
StackKept ==
    /\ UNCHANGED <<sem, taskinfo>>
    /\ \A a \in Attempts : OnStack(a)' = OnStack(a) /\ HoldsPermit(a)' = HoldsPermit(a)

LEMMA AttemptsFinite == IsFiniteSet(Attempts) /\ \A S \in SUBSET Attempts : IsFiniteSet(S)
<1>1. IsFiniteSet(0..Retries)
  BY FS_Interval, DispatchAssumption
<1>2. IsFiniteSet(Attempts)
  BY <1>1, FS_Product, DispatchAssumption DEF Attempts
<1> QED
  BY <1>2, FS_Subset

LEMMA InitStack == Init => StackInv
<1> SUFFICES ASSUME Init PROVE StackInv
  OBVIOUS
<1> USE DispatchAssumption
<1>1. TypeOK
  BY DEF Init, TypeOK, PC, Open, InLimit, Settled, Budgets, RPC, Executing, Attempts, NoAttempt
<1>2. SleepHasRetry
  BY DEF Init, SleepHasRetry
<1>3. \A a \in Attempts : ~OnStack(a)
  BY DEF Init, Attempts, OnStack, Open, InLimit
<1>4. RegistryExact
  BY <1>3 DEF Init, RegistryExact
<1>5. PermitsConserved
  <2> SUFFICES ASSUME NEW g \in Groups
               PROVE  sem[g] + Cardinality(GroupHolding(g)) = MaxConc
    BY DEF PermitsConserved
  <2>1. GroupHolding(g) = {}
    BY <1>3 DEF GroupHolding, HoldsPermit
  <2>2. Cardinality(GroupHolding(g)) = 0
    BY <2>1, FS_EmptySet
  <2> QED
    BY <2>2 DEF Init
<1> QED
  BY <1>1, <1>2, <1>4, <1>5 DEF StackInv

-----------------------------------------------------------------------------
(* The type invariant is inductive together with SleepHasRetry.            *)

\* The scheduler's variables that the ways out of run_task assign.
LEMMA EmptySeqType == <<>> \in Seq(Messages)
OBVIOUS

LEMMA ReleaseType ==
    ASSUME TypeOK, NEW j \in Jobs, NEW n \in Nat, Release(j, n)
    PROVE  sem' \in [Groups -> Nat]
<1>1. RateGroup[j] \in Groups
  BY DispatchAssumption
<1>2. sem[RateGroup[j]] + n \in Nat
  BY <1>1 DEF TypeOK
<1> QED
  BY <1>1, <1>2 DEF TypeOK, Release

LEMMA LeaveType ==
    ASSUME TypeOK, SleepHasRetry, NEW j \in Jobs, NEW how \in Settled, Leave(j, how)
    PROVE  /\ pc' \in [Jobs -> PC] /\ level' \in [Jobs -> 0..Retries]
           /\ budget' \in [Jobs -> Budgets]
           /\ off' \in [Jobs -> Runners \union {"none"} \union Ended]
           /\ sem' \in [Groups -> Nat] /\ taskinfo' \subseteq Attempts
           /\ progress' \in [Attempts -> Seq(Messages)]
           /\ SleepHasRetry'
<1>1. IsFiniteSet(Holding(j))
  BY AttemptsFinite DEF Holding
<1>2. Cardinality(Holding(j)) \in Nat
  BY <1>1, FS_CardinalityType
<1>3. sem' \in [Groups -> Nat]
  BY <1>2, ReleaseType DEF Leave
<1>4. progress' \in [Attempts -> Seq(Messages)]
  BY EmptySeqType DEF TypeOK, Leave
<1>5. SleepHasRetry'
  BY DEF TypeOK, Leave, SleepHasRetry, Settled, PC
<1> QED
  BY <1>3, <1>4, <1>5 DEF TypeOK, Leave, Settled, PC

LEMMA RetryType ==
    ASSUME TypeOK, SleepHasRetry, NEW j \in Jobs, Retry(j)
    PROVE  /\ pc' \in [Jobs -> PC] /\ level' \in [Jobs -> 0..Retries]
           /\ budget' \in [Jobs -> Budgets]
           /\ off' \in [Jobs -> Runners \union {"none"} \union Ended]
           /\ sem' \in [Groups -> Nat] /\ taskinfo' \subseteq Attempts
           /\ progress' \in [Attempts -> Seq(Messages)]
           /\ SleepHasRetry'
<1>1. CASE level[j] = 0
  BY <1>1, LeaveType DEF Retry, Settled
<1>2. CASE level[j] # 0
  <2>1. level[j] > 0
    BY <1>2, DispatchAssumption DEF TypeOK
  <2>2. /\ pc' = [pc EXCEPT ![j] = "sleep"]
        /\ off' = [off EXCEPT ![j] = "none"]
        /\ progress' = [progress EXCEPT ![Current(j)] = <<>>]
        /\ UNCHANGED <<level, budget, sem, taskinfo>>
    BY <1>2 DEF Retry
  <2>3. progress' \in [Attempts -> Seq(Messages)]
    BY <2>2, EmptySeqType DEF TypeOK
  <2>4. SleepHasRetry'
    BY <2>1, <2>2 DEF TypeOK, SleepHasRetry
  <2> QED
    BY <2>2, <2>3, <2>4 DEF TypeOK, PC, Open, InLimit
<1> QED
  BY <1>1, <1>2

LEMMA LeaveCancelledType ==
    ASSUME TypeOK, SleepHasRetry, NEW j \in Jobs, NEW n \in Nat, LeaveCancelled(j, n)
    PROVE  /\ pc' \in [Jobs -> PC] /\ level' \in [Jobs -> 0..Retries]
           /\ budget' \in [Jobs -> Budgets]
           /\ off' \in [Jobs -> Runners \union {"none"} \union Ended]
           /\ sem' \in [Groups -> Nat] /\ taskinfo' \subseteq Attempts
           /\ progress' \in [Attempts -> Seq(Messages)]
           /\ SleepHasRetry'
<1>1. sem' \in [Groups -> Nat]
  BY ReleaseType DEF LeaveCancelled
<1>2. pc' \in [Jobs -> PC] /\ level' \in [Jobs -> 0..Retries]
  <2>1. CASE level[j] = Retries
    BY <2>1 DEF TypeOK, LeaveCancelled, PC, Settled
  <2>2. CASE level[j] # Retries
    <3>1. level[j] + 1 \in 0..Retries
      BY <2>2, DispatchAssumption DEF TypeOK
    <3> QED
      BY <2>2, <3>1 DEF TypeOK, LeaveCancelled, PC, Open, InLimit
  <2> QED
    BY <2>1, <2>2
<1>3. SleepHasRetry'
  BY DispatchAssumption DEF TypeOK, LeaveCancelled, SleepHasRetry
<1> QED
  BY <1>1, <1>2, <1>3 DEF TypeOK, LeaveCancelled

LEMMA RearmType ==
    ASSUME TypeOK, SleepHasRetry, NEW j \in Jobs, Rearm(j), level' = level
    PROVE  pc' \in [Jobs -> PC] /\ budget' \in [Jobs -> Budgets] /\ SleepHasRetry'
<1>1. PICK b \in Budgets : budget' = [budget EXCEPT ![j] = b]
  BY DEF Rearm, Budgets
<1>2. pc' = [pc EXCEPT ![j] = "wait"]
  BY DEF Rearm
<1> QED
  BY <1>1, <1>2 DEF TypeOK, SleepHasRetry, PC, Open, InLimit

LEMMA InFlightType ==
    ASSUME TypeOK, NEW j \in Jobs, InFlight(j)
    PROVE  queue' \in Seq(Attempts) /\ payload' \subseteq Attempts
<1>1. Current(j) \in Attempts
  BY DEF TypeOK, Current, Attempts
<1>2. Append(queue, Current(j)) \in Seq(Attempts)
  BY <1>1 DEF TypeOK
<1> QED
  BY <1>1, <1>2 DEF TypeOK, InFlight, PushedPayload, PushedId

LEMMA ReceiveType ==
    ASSUME TypeOK, SleepHasRetry, NEW j \in Jobs, Receive(j)
    PROVE  TypeOK' /\ SleepHasRetry'
<1> DEFINE m == Head(progress[Current(j)])
<1>1. Current(j) \in Attempts
  BY DEF TypeOK, Current, Attempts
<1>2. m \in Messages
  BY <1>1 DEF TypeOK, Receive
<1>3. m.from \in Runners
  BY <1>2 DEF Messages
<1>4. UNCHANGED <<queue, payload, abort, inprog, fresh, runnerVars, waited>>
  BY DEF Receive
<1>5. CASE ReceiveStarted(j, m)
  <2>1. progress' \in [Attempts -> Seq(Messages)]
    BY <1>1, <1>5 DEF TypeOK, Receive, ReceiveStarted
  <2>2. pc' \in [Jobs -> PC] /\ budget' \in [Jobs -> Budgets] /\ SleepHasRetry'
    <3>1. CASE j \in CompileJobs
      BY <1>5, <3>1 DEF TypeOK, ReceiveStarted, SleepHasRetry, PC, Open, InLimit
    <3>2. CASE j \notin CompileJobs
      BY <1>5, <3>2, RearmType DEF ReceiveStarted
    <3> QED
      BY <3>1, <3>2
  <2>3. off' \in [Jobs -> Runners \union {"none"} \union Ended]
    BY <1>3, <1>5 DEF TypeOK, ReceiveStarted, JoinWatcher
  <2>4. watch' \in [Runners -> {"none", "polling"} \union Ended]
    BY <1>3, <1>5 DEF TypeOK, ReceiveStarted, JoinWatcher
  <2> QED
    BY <1>4, <1>5, <2>1, <2>2, <2>3, <2>4 DEF TypeOK, ReceiveStarted, runnerVars
<1>6. CASE ReceiveProgress(j, m)
  <2>1. progress' \in [Attempts -> Seq(Messages)]
    BY <1>1, <1>6 DEF TypeOK, Receive, ReceiveProgress
  <2>2. pc' \in [Jobs -> PC] /\ budget' \in [Jobs -> Budgets] /\ SleepHasRetry'
    BY <1>6, RearmType DEF ReceiveProgress
  <2> QED
    BY <1>4, <1>6, <2>1, <2>2 DEF TypeOK, ReceiveProgress, runnerVars
<1>7. CASE ReceiveDone(j, m)
  BY <1>4, <1>7, LeaveType DEF TypeOK, ReceiveDone, runnerVars, Settled
<1>8. CASE ReceiveError(j, m)
  BY <1>4, <1>8, RetryType DEF TypeOK, ReceiveError, runnerVars
<1> QED
  BY <1>5, <1>6, <1>7, <1>8 DEF Receive

LEMMA JobType ==
    ASSUME TypeOK, SleepHasRetry, NEW j \in Jobs, JobStep(j)
    PROVE  TypeOK' /\ SleepHasRetry'
<1> USE DispatchAssumption
<1>0. Current(j) \in Attempts
  BY DEF TypeOK, Current, Attempts
<1>1. ASSUME NEW k \in 0..Retries, Enter(j, k) PROVE TypeOK' /\ SleepHasRetry'
  <2>1. <<j, k>> \in Attempts
    BY DEF Attempts
  <2>2. SleepHasRetry'
    BY <1>1 DEF TypeOK, SleepHasRetry, Enter
  <2> QED
    BY <1>1, <2>1, <2>2 DEF TypeOK, Enter, redisVars, runnerVars, PC, Open
<1>2. CASE RunTask(j)
  BY <1>1, <1>2 DEF RunTask
<1>3. CASE RunTaskAgain(j)
  <2>1. level[j] - 1 \in 0..Retries
    BY <1>3 DEF RunTaskAgain, TypeOK, SleepHasRetry
  <2> QED
    BY <1>1, <1>3, <2>1 DEF RunTaskAgain
<1>4. CASE AcquirePermit(j)
  <2>1. sem' \in [Groups -> Nat]
    <3>1. RateGroup[j] \in Groups
      OBVIOUS
    <3>2. sem[RateGroup[j]] - 1 \in Nat
      BY <1>4, <3>1 DEF AcquirePermit, TypeOK
    <3> QED
      BY <1>4, <3>1, <3>2 DEF AcquirePermit, TypeOK
  <2>2. SleepHasRetry'
    BY <1>4 DEF TypeOK, SleepHasRetry, AcquirePermit
  <2> QED
    BY <1>4, <2>1, <2>2 DEF AcquirePermit, TypeOK, redisVars, runnerVars, PC, Open, InLimit
<1>5. CASE PushPayload(j)
  <2>1. SleepHasRetry'
    BY <1>5 DEF TypeOK, SleepHasRetry, PushPayload
  <2> QED
    BY <1>0, <1>5, <2>1 DEF PushPayload, PushedPayload, TypeOK, runnerVars, PC, Open, InLimit
<1>6. CASE Enqueue(j)
  <2>1. SleepHasRetry'
    BY <1>6 DEF TypeOK, SleepHasRetry, Enqueue
  <2>2. Append(queue, Current(j)) \in Seq(Attempts)
    BY <1>0 DEF TypeOK
  <2> QED
    BY <1>0, <1>6, <2>1, <2>2 DEF Enqueue, PushedId, TypeOK, runnerVars, PC, Open, InLimit, Budgets
<1>7. CASE Receive(j)
  BY <1>7, ReceiveType
<1>8. CASE RunnerOffline(j)
  BY <1>8, RetryType DEF RunnerOffline, TypeOK, runnerVars
<1>9. CASE TimedOut(j)
  BY <1>9, RetryType DEF TimedOut, TypeOK, runnerVars
<1>10. CASE CallbackReturns(j)
  BY <1>10, RearmType DEF CallbackReturns, TypeOK, redisVars, runnerVars
<1>11. CASE Raise(j)
  BY <1>11, LeaveType, InFlightType DEF Raise, TypeOK, runnerVars, Settled
<1>12. CASE Cancel(j)
  <2>1. queue' \in Seq(Attempts) /\ payload' \subseteq Attempts
    BY <1>12, InFlightType DEF Cancel
  <2>2. ASSUME NEW n \in Nat, LeaveCancelled(j, n) PROVE TypeOK' /\ SleepHasRetry'
    BY <1>12, <2>1, <2>2, LeaveCancelledType DEF Cancel, TypeOK, runnerVars
  <2>3. CASE pc[j] \in {"wait", "callback", "sleep"}
    <3>1. SleepHasRetry'
      BY <1>12, <2>3 DEF Cancel, TypeOK, SleepHasRetry
    <3>2. progress' \in [Attempts -> Seq(Messages)]
      BY <1>12, <2>3, EmptySeqType DEF Cancel, TypeOK
    <3> QED
      BY <1>12, <2>1, <2>3, <3>1, <3>2 DEF Cancel, TypeOK, runnerVars, PC, Open, InLimit
  <2> QED
    BY <1>12, <2>2, <2>3 DEF Cancel
<1>13. CASE PushAbort(j)
  BY <1>0, <1>13, LeaveCancelledType DEF PushAbort, TypeOK, runnerVars
<1>14. CASE CancelAgain(j)
  BY <1>14, LeaveCancelledType DEF CancelAgain, TypeOK, runnerVars
<1> QED
  BY <1>2, <1>3, <1>4, <1>5, <1>6, <1>7, <1>8, <1>9, <1>10, <1>11, <1>12, <1>13, <1>14
     DEF JobStep, SchedStep

LEMMA ReportType ==
    ASSUME TypeOK, NEW r \in Runners,
           NEW type \in {"started", "progress", "done", "error"}, Report(r, type)
    PROVE  progress' \in [Attempts -> Seq(Messages)]
<1> DEFINE m == [type |-> type, from |-> r]
<1>1. m \in Messages
  BY DEF Messages
<1>2. \A a \in Attempts : Append(progress[a], m) \in Seq(Messages)
  BY <1>1 DEF TypeOK
<1> QED
  BY <1>2 DEF Report, TypeOK

LEMMA RunnerType ==
    ASSUME TypeOK, SleepHasRetry, NEW r \in Runners, RunnerStep(r)
    PROVE  TypeOK' /\ SleepHasRetry'
<1> USE DispatchAssumption
<1>0. ASSUME UNCHANGED schedVars PROVE SleepHasRetry'
  BY <1>0 DEF SleepHasRetry, schedVars
<1>1. CASE RunnerStart(r)
  BY <1>0, <1>1 DEF RunnerStart, Goto, TypeOK, schedVars, redisVars, RPC
<1>2. CASE RunnerCrash(r)
  BY <1>0, <1>2 DEF RunnerCrash, Goto, TypeOK, schedVars, redisVars, RPC
<1>3. ASSUME queue # <<>> PROVE Head(queue) \in Attempts /\ Tail(queue) \in Seq(Attempts)
  BY <1>3 DEF TypeOK
<1>4. CASE Claim(r)
  BY <1>0, <1>3, <1>4 DEF Claim, Goto, TypeOK, schedVars, RPC
<1>5. CASE ClaimLost(r)
  BY <1>0, <1>3, <1>5 DEF ClaimLost, TypeOK, schedVars, runnerVars
<1>6. CASE TakePayload(r)
  BY <1>0, <1>6 DEF TakePayload, Goto, TypeOK, schedVars, RPC, Executing
<1>7. CASE ReportStarted(r)
  BY <1>0, <1>7, ReportType DEF ReportStarted, Goto, TypeOK, schedVars, RPC, Executing
<1>8. CASE ReportProgress(r)
  <2>1. steps' \in [Runners -> 0..MaxProgress]
    BY <1>8 DEF ReportProgress, TypeOK
  <2> QED
    BY <1>0, <1>8, <2>1, ReportType DEF ReportProgress, TypeOK, schedVars
<1>9. CASE Finish(r)
  BY <1>0, <1>9 DEF Finish, Goto, TypeOK, schedVars, redisVars, RPC, Executing
<1>10. CASE ReceiveAbort(r)
  BY <1>0, <1>10 DEF ReceiveAbort, Goto, TypeOK, schedVars, RPC, Executing
<1>11. CASE ReportDone(r)
  BY <1>0, <1>11, ReportType DEF ReportDone, Goto, TypeOK, schedVars, RPC
<1>12. CASE LoopError(r)
  <2>1. progress' \in [Attempts -> Seq(Messages)]
    BY <1>12, ReportType DEF LoopError, TypeOK
  <2> QED
    BY <1>0, <1>12, <2>1 DEF LoopError, Goto, TypeOK, schedVars, RPC
<1>13. CASE Cleanup(r)
  <2>1. inprog' \in [Runners -> SUBSET Attempts]
    <3>1. inprog \in [Runners -> SUBSET Attempts]
      BY DEF TypeOK
    <3>2. inprog' = [inprog EXCEPT ![r] = @ \ {cur[r]}] \/ inprog' = inprog
      BY <1>13 DEF Cleanup
    <3> QED
      BY <3>1, <3>2
  <2>2. rpc' \in [Runners -> RPC]
    BY <1>13 DEF Cleanup, Goto, TypeOK, RPC
  <2>3. cur' \in [Runners -> Attempts \union {NoAttempt}] /\ steps' \in [Runners -> 0..MaxProgress]
    BY <1>13 DEF Cleanup, TypeOK
  <2> QED
    BY <1>0, <1>13, <2>1, <2>2, <2>3 DEF Cleanup, TypeOK, schedVars, redisVars
<1>14. CASE ReportError(r)
  <2>1. progress' \in [Attempts -> Seq(Messages)]
    BY <1>14, ReportType DEF ReportError, TypeOK
  <2> QED
    BY <1>0, <1>14, <2>1 DEF ReportError, Goto, TypeOK, schedVars, RPC
<1>15. CASE Heartbeat(r) \/ HeartbeatLapses(r)
  BY <1>0, <1>15 DEF Heartbeat, HeartbeatLapses, TypeOK, schedVars, redisVars, runnerVars
<1>16. ASSUME NEW how \in Ended, WatcherEnds(r, how)
       PROVE  TypeOK' /\ SleepHasRetry'
  <2>1. off' \in [Jobs -> Runners \union {"none"} \union Ended]
    BY <1>16 DEF WatcherEnds, TypeOK
  <2> QED
    BY <1>16, <2>1 DEF WatcherEnds, TypeOK, SleepHasRetry, redisVars, runnerVars
<1>17. CASE WatcherRemoved(r)
  BY <1>0, <1>17 DEF WatcherRemoved, TypeOK, schedVars, redisVars, runnerVars
<1> QED
  BY <1>1, <1>2, <1>4, <1>5, <1>6, <1>7, <1>8, <1>9, <1>10, <1>11, <1>12, <1>13, <1>14, <1>15, <1>16, <1>17
     DEF RunnerStep, LoopStep, WatcherFires, WatcherFails, Ended

LEMMA TypeStep ==
    ASSUME TypeOK, SleepHasRetry, [Next]_vars
    PROVE  TypeOK' /\ SleepHasRetry'
<1>1. ASSUME NEW j \in Jobs, JobStep(j) PROVE TypeOK' /\ SleepHasRetry'
  BY <1>1, JobType
<1>2. ASSUME NEW r \in Runners, RunnerStep(r) PROVE TypeOK' /\ SleepHasRetry'
  BY <1>2, RunnerType
<1>3. ASSUME NEW a \in Attempts, PayloadExpires(a) PROVE TypeOK' /\ SleepHasRetry'
  BY <1>3 DEF PayloadExpires, TypeOK, SleepHasRetry, schedVars, runnerVars
<1>4. CASE UNCHANGED vars
  BY <1>4 DEF vars, schedVars, redisVars, runnerVars, TypeOK, SleepHasRetry
<1> QED
  BY <1>1, <1>2, <1>3, <1>4 DEF Next

\* Every variable of the scheduler, of Redis and of the runners keeps its type;
\* in particular no semaphore goes below zero and no retry starts without one left.
THEOREM TypeCorrect == Spec => []TypeOK
<1>1. Init => TypeOK /\ SleepHasRetry
  BY InitStack DEF StackInv
<1>2. TypeOK /\ SleepHasRetry /\ [Next]_vars => (TypeOK /\ SleepHasRetry)'
  BY TypeStep
<1> QED
  BY <1>1, <1>2, PTL DEF Spec

-----------------------------------------------------------------------------
(* The stacks, the registry and the semaphores.                            *)

LEMMA AttemptPair ==
    ASSUME NEW a \in Attempts
    PROVE  a[1] \in Jobs /\ a[2] \in 0..Retries /\ a = <<a[1], a[2]>>
BY DEF Attempts

\* Permits: the frames of S, all of job j, leave the `async with` and the
\* semaphore is given as many permits back.
LEMMA PermitsGivenBack ==
    ASSUME TypeOK, PermitsConserved, NEW j \in Jobs, NEW S \in SUBSET Attempts,
           \A a \in S : a[1] = j /\ HoldsPermit(a),
           \A a \in Attempts : HoldsPermit(a)' <=> HoldsPermit(a) /\ a \notin S,
           Release(j, Cardinality(S))
    PROVE  PermitsConserved'
<1> SUFFICES ASSUME NEW g \in Groups
             PROVE  sem'[g] + Cardinality(GroupHolding(g)') = MaxConc
  BY DEF PermitsConserved
<1>1. GroupHolding(g) \in SUBSET Attempts /\ IsFiniteSet(GroupHolding(g)) /\ IsFiniteSet(S)
  BY AttemptsFinite DEF GroupHolding
<1>2. Cardinality(GroupHolding(g)) \in Nat /\ Cardinality(S) \in Nat
  BY <1>1, FS_CardinalityType
<1>3. sem[g] + Cardinality(GroupHolding(g)) = MaxConc /\ sem[g] \in Nat
  BY DEF PermitsConserved, TypeOK
<1>4. GroupHolding(g)' = GroupHolding(g) \ S
  BY DEF GroupHolding
<1>5. Cardinality(GroupHolding(g)') = Cardinality(GroupHolding(g)) - Cardinality(GroupHolding(g) \cap S)
  BY <1>1, <1>4, FS_Difference
<1>6. CASE g = RateGroup[j]
  <2>1. GroupHolding(g) \cap S = S
    BY <1>6 DEF GroupHolding
  <2>2. sem'[g] = sem[g] + Cardinality(S)
    BY <1>6 DEF Release, TypeOK
  <2>3. Cardinality(GroupHolding(g)') = Cardinality(GroupHolding(g)) - Cardinality(S)
    BY <1>5, <2>1
  <2> QED
    BY <1>2, <1>3, <2>2, <2>3
<1>7. CASE g # RateGroup[j]
  <2>1. GroupHolding(g) \cap S = {}
    BY <1>7 DEF GroupHolding
  <2>2. sem'[g] = sem[g]
    BY <1>7 DEF Release, TypeOK
  <2>3. Cardinality(GroupHolding(g)') = Cardinality(GroupHolding(g))
    BY <1>2, <1>5, <2>1, FS_EmptySet
  <2> QED
    BY <1>3, <2>2, <2>3
<1> QED
  BY <1>6, <1>7

LEMMA PermitsTaken ==
    ASSUME TypeOK, PermitsConserved, NEW j \in Jobs, NEW a \in Attempts, a[1] = j,
           ~HoldsPermit(a),
           \A b \in Attempts : HoldsPermit(b)' <=> HoldsPermit(b) \/ b = a,
           sem' = [sem EXCEPT ![RateGroup[j]] = @ - 1]
    PROVE  PermitsConserved'
<1> SUFFICES ASSUME NEW g \in Groups
             PROVE  sem'[g] + Cardinality(GroupHolding(g)') = MaxConc
  BY DEF PermitsConserved
<1>1. IsFiniteSet(GroupHolding(g))
  BY AttemptsFinite DEF GroupHolding
<1>2. Cardinality(GroupHolding(g)) \in Nat
  BY <1>1, FS_CardinalityType
<1>3. sem[g] + Cardinality(GroupHolding(g)) = MaxConc /\ sem[g] \in Nat
  BY DEF PermitsConserved, TypeOK
<1>4. CASE g = RateGroup[j]
  <2>1. GroupHolding(g)' = GroupHolding(g) \union {a} /\ a \notin GroupHolding(g)
    BY <1>4 DEF GroupHolding
  <2>2. Cardinality(GroupHolding(g)') = Cardinality(GroupHolding(g)) + 1
    BY <1>1, <2>1, FS_AddElement
  <2>3. sem'[g] = sem[g] - 1
    BY <1>4 DEF TypeOK
  <2> QED
    BY <1>2, <1>3, <2>2, <2>3, DispatchAssumption
<1>5. CASE g # RateGroup[j]
  <2>1. GroupHolding(g)' = GroupHolding(g)
    BY <1>5 DEF GroupHolding
  <2>2. sem'[g] = sem[g]
    BY <1>5 DEF TypeOK
  <2> QED
    BY <1>3, <2>1, <2>2
<1> QED
  BY <1>4, <1>5

\* A step that moves no frame.
LEMMA StackKeptStep ==
    ASSUME RegistryExact, PermitsConserved, StackKept
    PROVE  RegistryExact' /\ PermitsConserved'
<1>1. RegistryExact'
  BY DEF RegistryExact, StackKept
<1>2. \A g \in Groups : GroupHolding(g)' = GroupHolding(g)
  BY DEF StackKept, GroupHolding
<1>3. PermitsConserved'
  BY <1>2 DEF PermitsConserved, StackKept
<1> QED
  BY <1>1, <1>3

\* The innermost frame of j stays where the semaphore sees it the same way.
LEMMA SameFrameKept ==
    ASSUME TypeOK, NEW j \in Jobs, NEW to \in InLimit, pc[j] \in InLimit,
           pc' = [pc EXCEPT ![j] = to], UNCHANGED <<level, sem, taskinfo>>
    PROVE  StackKept
<1> SUFFICES ASSUME NEW a \in Attempts
             PROVE  OnStack(a)' = OnStack(a) /\ HoldsPermit(a)' = HoldsPermit(a)
  BY DEF StackKept
<1>1. a[1] \in Jobs
  BY AttemptPair
<1>2. CASE a[1] = j
  BY <1>1, <1>2 DEF TypeOK, OnStack, HoldsPermit, Open, InLimit
<1>3. CASE a[1] # j
  BY <1>1, <1>3 DEF TypeOK, OnStack, HoldsPermit
<1> QED
  BY <1>2, <1>3

LEMMA LeaveStack ==
    ASSUME TypeOK, RegistryExact, PermitsConserved, NEW j \in Jobs, NEW how \in Settled,
           Leave(j, how)
    PROVE  RegistryExact' /\ PermitsConserved'
<1>1. \A a \in Attempts : OnStack(a)' <=> OnStack(a) /\ a[1] # j
  <2> SUFFICES ASSUME NEW a \in Attempts PROVE OnStack(a)' <=> OnStack(a) /\ a[1] # j
    OBVIOUS
  <2>1. a[1] \in Jobs
    BY AttemptPair
  <2> QED
    BY <2>1 DEF TypeOK, Leave, OnStack, Open, InLimit, Settled
<1>2. RegistryExact'
  BY <1>1 DEF RegistryExact, Leave, Frames
<1>3. \A a \in Attempts : HoldsPermit(a)' <=> HoldsPermit(a) /\ a \notin Holding(j)
  <2> SUFFICES ASSUME NEW a \in Attempts
               PROVE  HoldsPermit(a)' <=> HoldsPermit(a) /\ a[1] # j
    BY DEF Holding
  <2>1. a[1] \in Jobs
    BY AttemptPair
  <2> QED
    BY <1>1, <2>1 DEF TypeOK, Leave, HoldsPermit
<1>4. PermitsConserved'
  BY <1>3, PermitsGivenBack DEF Leave, Holding
<1> QED
  BY <1>2, <1>4

LEMMA RetryStack ==
    ASSUME TypeOK, RegistryExact, PermitsConserved, NEW j \in Jobs, pc[j] = "wait", Retry(j)
    PROVE  RegistryExact' /\ PermitsConserved'
<1>1. CASE level[j] = 0
  BY <1>1, LeaveStack DEF Retry, Settled
<1>2. CASE level[j] # 0
  BY <1>2, SameFrameKept, StackKeptStep DEF Retry, InLimit
<1> QED
  BY <1>1, <1>2

LEMMA LeaveCancelledStack ==
    ASSUME TypeOK, RegistryExact, PermitsConserved, NEW j \in Jobs, NEW n \in {0, 1},
           n = 0 <=> pc[j] = "limit", pc[j] \in Open, LeaveCancelled(j, n)
    PROVE  RegistryExact' /\ PermitsConserved'
<1> USE DispatchAssumption
<1>0. Current(j) \in Attempts /\ Current(j)[1] = j /\ Current(j)[2] = level[j]
  BY DEF TypeOK, Current, Attempts
<1>1. \A a \in Attempts : a = Current(j) <=> a[1] = j /\ a[2] = level[j]
  BY <1>0, AttemptPair DEF Current
<1>2. \A a \in Attempts : OnStack(a)' <=> OnStack(a) /\ a # Current(j)
  <2> SUFFICES ASSUME NEW a \in Attempts PROVE OnStack(a)' <=> OnStack(a) /\ a # Current(j)
    OBVIOUS
  <2>1. a[1] \in Jobs /\ a[2] \in 0..Retries
    BY AttemptPair
  <2>2. CASE a[1] # j
    BY <1>1, <2>1, <2>2 DEF TypeOK, LeaveCancelled, OnStack
  <2>3. CASE a[1] = j /\ level[j] = Retries
    BY <1>1, <2>1, <2>3 DEF TypeOK, LeaveCancelled, OnStack, Open, InLimit
  <2>4. CASE a[1] = j /\ level[j] # Retries
    BY <1>1, <2>1, <2>4 DEF TypeOK, LeaveCancelled, OnStack, Open, InLimit
  <2> QED
    BY <2>2, <2>3, <2>4
<1>3. RegistryExact'
  BY <1>2 DEF RegistryExact, LeaveCancelled
<1>4. \A a \in Attempts : HoldsPermit(a)' <=> HoldsPermit(a) /\ a # Current(j)
  <2> SUFFICES ASSUME NEW a \in Attempts
               PROVE  HoldsPermit(a)' <=> HoldsPermit(a) /\ a # Current(j)
    OBVIOUS
  <2>1. a[1] \in Jobs /\ a[2] \in 0..Retries
    BY AttemptPair
  <2>2. CASE a[1] # j
    BY <1>2, <2>1, <2>2 DEF TypeOK, LeaveCancelled, HoldsPermit
  <2>3. CASE a[1] = j
    <3>1. pc'[j] # "limit"
      BY DEF TypeOK, LeaveCancelled
    <3> QED
      BY <1>1, <1>2, <2>1, <2>3, <3>1 DEF HoldsPermit
  <2> QED
    BY <2>2, <2>3
<1>5. CASE n = 0
  <2>1. ~HoldsPermit(Current(j))
    BY <1>0, <1>5 DEF HoldsPermit
  <2>2. \A a \in Attempts : HoldsPermit(a)' <=> HoldsPermit(a) /\ a \notin {}
    BY <1>4, <2>1
  <2>3. Release(j, Cardinality({}))
    BY <1>5, FS_EmptySet DEF LeaveCancelled
  <2>4. PermitsConserved'
    BY <2>2, <2>3, PermitsGivenBack
  <2> QED
    BY <1>3, <2>4
<1>6. CASE n = 1
  <2>1. HoldsPermit(Current(j))
    BY <1>0, <1>6 DEF HoldsPermit, OnStack, TypeOK
  <2>2. \A a \in Attempts : HoldsPermit(a)' <=> HoldsPermit(a) /\ a \notin {Current(j)}
    BY <1>4
  <2>3. Release(j, Cardinality({Current(j)}))
    BY <1>6, FS_Singleton DEF LeaveCancelled
  <2>4. PermitsConserved'
    BY <1>0, <2>1, <2>2, <2>3, PermitsGivenBack
  <2> QED
    BY <1>3, <2>4
<1> QED
  BY <1>5, <1>6

LEMMA EnterStack ==
    ASSUME TypeOK, RegistryExact, PermitsConserved, NEW j \in Jobs, NEW k \in 0..Retries,
           \/ pc[j] = "idle" /\ k = Retries
           \/ pc[j] = "sleep" /\ k = level[j] - 1,
           Enter(j, k)
    PROVE  RegistryExact' /\ PermitsConserved'
<1> USE DispatchAssumption
<1>0. <<j, k>> \in Attempts
  BY DEF Attempts
<1>1. \A a \in Attempts : OnStack(a)' <=> OnStack(a) \/ a = <<j, k>>
  <2> SUFFICES ASSUME NEW a \in Attempts PROVE OnStack(a)' <=> OnStack(a) \/ a = <<j, k>>
    OBVIOUS
  <2>1. a[1] \in Jobs /\ a[2] \in 0..Retries /\ (a = <<j, k>> <=> a[1] = j /\ a[2] = k)
    BY AttemptPair
  <2>2. CASE a[1] # j
    BY <2>1, <2>2 DEF TypeOK, Enter, OnStack
  <2>3. CASE a[1] = j
    BY <2>1, <2>3 DEF TypeOK, Enter, OnStack, Open, InLimit
  <2> QED
    BY <2>2, <2>3
<1>2. RegistryExact'
  BY <1>0, <1>1 DEF RegistryExact, Enter
<1>3. \A a \in Attempts : HoldsPermit(a)' <=> HoldsPermit(a)
  <2> SUFFICES ASSUME NEW a \in Attempts PROVE HoldsPermit(a)' <=> HoldsPermit(a)
    OBVIOUS
  <2>1. a[1] \in Jobs /\ a[2] \in 0..Retries
    BY AttemptPair
  <2>2. CASE a[1] # j
    BY <2>1, <2>2 DEF TypeOK, Enter, OnStack, HoldsPermit
  <2>3. CASE a[1] = j
    BY <2>1, <2>3 DEF TypeOK, Enter, OnStack, HoldsPermit, Open, InLimit
  <2> QED
    BY <2>2, <2>3
<1>4. \A g \in Groups : GroupHolding(g)' = GroupHolding(g)
  BY <1>3 DEF GroupHolding
<1>5. PermitsConserved'
  BY <1>4 DEF PermitsConserved, Enter
<1> QED
  BY <1>2, <1>5

LEMMA AcquireStack ==
    ASSUME TypeOK, RegistryExact, PermitsConserved, NEW j \in Jobs, AcquirePermit(j)
    PROVE  RegistryExact' /\ PermitsConserved'
<1>0. Current(j) \in Attempts /\ Current(j)[1] = j /\ Current(j)[2] = level[j]
  BY DEF TypeOK, Current, Attempts
<1>1. \A a \in Attempts : a = Current(j) <=> a[1] = j /\ a[2] = level[j]
  BY <1>0, AttemptPair DEF Current
<1>2. \A a \in Attempts : OnStack(a)' <=> OnStack(a)
  <2> SUFFICES ASSUME NEW a \in Attempts PROVE OnStack(a)' <=> OnStack(a)
    OBVIOUS
  <2>1. a[1] \in Jobs
    BY AttemptPair
  <2> QED
    BY <2>1 DEF TypeOK, AcquirePermit, OnStack, Open, InLimit
<1>3. RegistryExact'
  BY <1>2 DEF RegistryExact, AcquirePermit
<1>4. ~HoldsPermit(Current(j))
  BY <1>0 DEF HoldsPermit, AcquirePermit
<1>5. \A a \in Attempts : HoldsPermit(a)' <=> HoldsPermit(a) \/ a = Current(j)
  <2> SUFFICES ASSUME NEW a \in Attempts
               PROVE  HoldsPermit(a)' <=> HoldsPermit(a) \/ a = Current(j)
    OBVIOUS
  <2>1. a[1] \in Jobs /\ a[2] \in 0..Retries
    BY AttemptPair
  <2>2. CASE a[1] # j
    BY <1>1, <2>1, <2>2 DEF TypeOK, AcquirePermit, OnStack, HoldsPermit
  <2>3. CASE a[1] = j
    BY <1>1, <2>1, <2>3, DispatchAssumption
       DEF TypeOK, AcquirePermit, OnStack, HoldsPermit, Open, InLimit
  <2> QED
    BY <2>2, <2>3
<1>6. PermitsConserved'
  BY <1>0, <1>4, <1>5, PermitsTaken DEF AcquirePermit
<1> QED
  BY <1>3, <1>6

LEMMA JobStack ==
    ASSUME StackInv, NEW j \in Jobs, JobStep(j)
    PROVE  RegistryExact' /\ PermitsConserved'
<1> USE DispatchAssumption DEF StackInv
<1>1. CASE RunTask(j)
  BY <1>1, EnterStack DEF RunTask
<1>2. CASE RunTaskAgain(j)
  <2>1. level[j] - 1 \in 0..Retries
    BY <1>2 DEF RunTaskAgain, TypeOK, SleepHasRetry
  <2> QED
    BY <1>2, <2>1, EnterStack DEF RunTaskAgain
<1>3. CASE AcquirePermit(j)
  BY <1>3, AcquireStack
<1>4. CASE PushPayload(j)
  BY <1>4, SameFrameKept, StackKeptStep DEF PushPayload, InLimit
<1>5. CASE Enqueue(j)
  BY <1>5, SameFrameKept, StackKeptStep DEF Enqueue, InLimit
<1>6. CASE Receive(j)
  <2> DEFINE m == Head(progress[Current(j)])
  <2>0. pc[j] = "wait"
    BY <1>6 DEF Receive
  <2>1. CASE ReceiveStarted(j, m)
    <3>1. \E to \in InLimit : pc' = [pc EXCEPT ![j] = to]
      BY <2>1 DEF ReceiveStarted, Rearm, InLimit
    <3> QED
      BY <2>0, <2>1, <3>1, SameFrameKept, StackKeptStep DEF ReceiveStarted, InLimit
  <2>2. CASE ReceiveProgress(j, m)
    BY <2>0, <2>2, SameFrameKept, StackKeptStep DEF ReceiveProgress, Rearm, InLimit
  <2>3. CASE ReceiveDone(j, m)
    BY <2>3, LeaveStack DEF ReceiveDone, Settled
  <2>4. CASE ReceiveError(j, m)
    BY <2>0, <2>4, RetryStack DEF ReceiveError
  <2> QED
    BY <1>6, <2>1, <2>2, <2>3, <2>4 DEF Receive
<1>7. CASE RunnerOffline(j)
  BY <1>7, RetryStack DEF RunnerOffline
<1>8. CASE TimedOut(j)
  BY <1>8, RetryStack DEF TimedOut
<1>9. CASE CallbackReturns(j)
  BY <1>9, SameFrameKept, StackKeptStep DEF CallbackReturns, Rearm, InLimit
<1>10. CASE Raise(j)
  BY <1>10, LeaveStack DEF Raise, Settled
<1>11. CASE Cancel(j)
  <2>1. CASE pc[j] = "limit" /\ LeaveCancelled(j, 0)
    BY <2>1, LeaveCancelledStack DEF Open
  <2>2. CASE pc[j] \in {"payload", "enqueue"} /\ LeaveCancelled(j, 1)
    BY <2>2, LeaveCancelledStack DEF Open, InLimit
  <2>3. CASE pc[j] \in {"wait", "callback", "sleep"}
    BY <1>11, <2>3, SameFrameKept, StackKeptStep DEF Cancel, InLimit
  <2> QED
    BY <1>11, <2>1, <2>2, <2>3 DEF Cancel
<1>12. CASE PushAbort(j) \/ CancelAgain(j)
  <2>1. pc[j] = "unwind" /\ LeaveCancelled(j, 1)
    BY <1>12 DEF PushAbort, CancelAgain
  <2> QED
    BY <2>1, LeaveCancelledStack DEF Open, InLimit
<1> QED
  BY <1>1, <1>2, <1>3, <1>4, <1>5, <1>6, <1>7, <1>8, <1>9, <1>10, <1>11, <1>12
     DEF JobStep, SchedStep

LEMMA StackStep == StackInv /\ [Next]_vars => StackInv'
<1> SUFFICES ASSUME StackInv, [Next]_vars PROVE RegistryExact' /\ PermitsConserved'
  BY TypeStep DEF StackInv
<1>1. ASSUME UNCHANGED <<pc, level, sem, taskinfo>> PROVE RegistryExact' /\ PermitsConserved'
  BY <1>1, StackKeptStep DEF StackInv, StackKept, OnStack, HoldsPermit
<1>2. ASSUME NEW j \in Jobs, JobStep(j) PROVE RegistryExact' /\ PermitsConserved'
  BY <1>2, JobStack
<1>3. ASSUME NEW r \in Runners, RunnerStep(r) PROVE UNCHANGED <<pc, level, sem, taskinfo>>
  BY <1>3 DEF RunnerStep, LoopStep, schedVars, RunnerStart, RunnerCrash, Claim, ClaimLost,
     TakePayload, ReportStarted, ReportProgress, Finish, ReceiveAbort, ReportDone, LoopError,
     Cleanup, ReportError, Heartbeat, HeartbeatLapses, WatcherFires, WatcherFails, WatcherEnds,
     WatcherRemoved
<1>4. ASSUME NEW a \in Attempts, PayloadExpires(a) PROVE UNCHANGED <<pc, level, sem, taskinfo>>
  BY <1>4 DEF PayloadExpires, schedVars
<1>5. CASE UNCHANGED vars
  BY <1>1, <1>5 DEF vars, schedVars
<1> QED
  BY <1>1, <1>2, <1>3, <1>4, <1>5 DEF Next

LEMMA StackCorrect == Spec => []StackInv
<1> QED
  BY InitStack, StackStep, PTL DEF Spec

\* The semaphore of every account counts exactly the frames inside its `async
\* with`, over any mix of results, errors, timeouts and cancellations.
THEOREM PermitsAlwaysConserved == Spec => []PermitsConserved
<1>1. StackInv => PermitsConserved
  BY DEF StackInv
<1> QED
  BY <1>1, StackCorrect, PTL

\* taskinfo_from_task_id never leaks an entry and never loses a live one.
THEOREM RegistryAlwaysExact == Spec => []RegistryExact
<1>1. StackInv => RegistryExact
  BY DEF StackInv
<1> QED
  BY <1>1, StackCorrect, PTL

\* An account with few enough jobs (fewer than permits / retries) never blocks
\* itself: when no permit is left, some job of it is past the semaphore.
THEOREM PermitsAlwaysSuffice == Spec => []PermitsSuffice
<1>1. StackInv => PermitsSuffice
  <2> SUFFICES ASSUME StackInv, NEW g \in Groups,
                      Cardinality(Members(g)) * Retries < MaxConc,
                      \A j \in Members(g) : pc[j] \notin InLimit
               PROVE  sem[g] > 0
    BY DEF PermitsSuffice
  <2>1. IsFiniteSet(Members(g)) /\ Cardinality(Members(g)) \in Nat
    BY FS_Subset, FS_CardinalityType, DispatchAssumption DEF Members
  <2>2. IsFiniteSet(1..Retries) /\ Cardinality(1..Retries) = Retries
    BY FS_Interval, DispatchAssumption
  <2> DEFINE Room == Members(g) \X (1..Retries)
  <2>3. IsFiniteSet(Room) /\ Cardinality(Room) = Cardinality(Members(g)) * Retries
    BY <2>1, <2>2, FS_Product
  <2>4. GroupHolding(g) \subseteq Room
    <3> SUFFICES ASSUME NEW a \in Attempts, RateGroup[a[1]] = g, HoldsPermit(a)
                 PROVE  a \in Room
      BY DEF GroupHolding
    <3>1. a[1] \in Jobs /\ a[2] \in 0..Retries /\ a = <<a[1], a[2]>>
      BY AttemptPair
    <3>2. a[1] \in Members(g)
      BY <3>1 DEF Members
    <3>3. pc[a[1]] = "limit" /\ level[a[1]] < a[2] /\ level[a[1]] \in 0..Retries
      BY <3>1, <3>2, DispatchAssumption DEF HoldsPermit, OnStack, Open, StackInv, TypeOK
    <3>4. a[2] \in 1..Retries
      BY <3>1, <3>3, DispatchAssumption
    <3> QED
      BY <3>1, <3>2, <3>4
  <2>5. /\ Cardinality(GroupHolding(g)) \in Nat
        /\ Cardinality(GroupHolding(g)) <= Cardinality(Members(g)) * Retries
    BY <2>3, <2>4, FS_Subset, FS_CardinalityType
  <2>6. sem[g] + Cardinality(GroupHolding(g)) = MaxConc /\ sem[g] \in Nat
    BY DEF StackInv, PermitsConserved, TypeOK
  <2>7. Cardinality(Members(g)) * Retries \in Nat
    BY <2>1, DispatchAssumption
  <2> QED
    BY <2>5, <2>6, <2>7, DispatchAssumption
<1> QED
  BY <1>1, StackCorrect, PTL

=============================================================================
