----------------------------- MODULE JudgeProofs -----------------------------
(***************************************************************************)
(* Proofs about Judge, for every set of submissions and every bound.        *)
(*                                                                          *)
(* None of the properties is inductive by itself.  The invariant follows    *)
(* the one live run of a submission: what a live run may leave in the       *)
(* shared dictionaries and in S3 is a matter of where it is (Local), and    *)
(* what is left when no run is live is Free; requests belong to a run at a  *)
(* given place (Requested), and all runs but the last are over (OlderOver). *)
(*                                                                          *)
(* The last part shows that Judge implements Judging.  A step of a run is   *)
(* one of Judging because it changes no other run and goes from one stage   *)
(* to the next, which is all that Moved says.                               *)
(***************************************************************************)
EXTENDS Judge, FiniteSetTheorems, TLAPS

Inside == InTry \union {"settle"}
Holding == {"compile", "announce", "judge", "settle", "clean"}

\* Where a run needs a file.
Using(f) == IF f = "code" THEN InTry \ {"prepare"} ELSE {"announce", "judge"}

\* The registry, run by run.
Registered ==
    \A r \in Runs :
        /\ run[r] \in Live <=> byId[Sub(r)] = r[2]
        /\ run[r] \in Live <=> r \in byProblem

\* All runs of a submission but the last are over.
OlderOver ==
    \A q, r \in Runs :
        Sub(q) = Sub(r) /\ q[2] < r[2] /\ run[r] # "new" => run[q] \in Over

\* The context and the files of a submission whose live run is r.
Local(r) ==
    /\ run[r] \in Inside => Sub(r) \in ctx
    /\ Sub(r) \in ctx => run[r] \in Inside \/ Sub(r) \in outside
    /\ \A f \in Names :
          /\ f \in toClean[r] /\ run[r] \in Using(f) => File(r, f) \in files \union strayed
          /\ File(r, f) \in files => f \in toClean[r] \/ File(r, f) \in strayed

\* The context and the files of a submission that has no live run.
Free(s) ==
    /\ s \in ctx => s \in outside
    /\ \A f \in Names : <<s, f>> \in files => <<s, f>> \in strayed

Owned ==
    /\ \A r \in Runs : run[r] \in Live => Local(r)
    /\ \A s \in Submissions : byId[s] = 0 => Free(s)

\* Where a run makes its requests, how often they are sent, that a run that has
\* got to its report has sent its result or is sending it, and where it has files
\* to remove.
Requested(r) ==
    /\ req[r].kind = "compiling" => run[r] = "compile"
    /\ req[r].kind = "judging" => run[r] = "announce"
    /\ req[r].kind = "result" => run[r] \in {"report", "cut"}
    /\ req[r] # NoReq => req[r].sent + req[r].left <= RequestRetries
    /\ run[r] \in {"report", "ended", "cut"} => r \in told \/ req[r].kind = "result"
    /\ toClean[r] # {} => run[r] \in Holding

CallsStrayed == \A c \in calls : <<c[1], c[2]>> \in strayed

Inv ==
    /\ TypeOK
    /\ Registered
    /\ OlderOver
    /\ Owned
    /\ \A r \in Runs : Requested(r)
    /\ CallsStrayed

-----------------------------------------------------------------------------
(* Runs and their numbers                                                  *)

LEMMA RunParts ==
    /\ \A r \in Runs : Sub(r) \in Submissions /\ r[2] \in 1..MaxRuns
    /\ \A q, r \in Runs : Sub(q) = Sub(r) /\ q[2] = r[2] => q = r
    /\ \A s \in Submissions, n \in 1..MaxRuns :
          <<s, n>> \in Runs /\ Sub(<<s, n>>) = s /\ <<s, n>>[2] = n
    /\ \A r \in Runs : r = <<Sub(r), r[2]>>
  BY DEF Runs, Sub

\* A submission has at most one live run.
LEMMA OneLive ==
    ASSUME Registered, NEW q \in Runs, NEW r \in Runs, Sub(q) = Sub(r),
           run[q] \in Live, run[r] \in Live
    PROVE  q = r
  BY RunParts DEF Registered

\* Fresh numbers the runs of a submission without a gap.
LEMMA FreshNumber ==
    ASSUME OlderOver, NEW s \in Submissions
    PROVE  /\ Fresh(s) \in Nat \ {0}
           /\ \A n \in 1..MaxRuns : run[<<s, n>>] # "new" <=> n < Fresh(s)
<1> DEFINE U == {n \in 1..MaxRuns : run[<<s, n>>] # "new"}
           c == Cardinality(U)
<1>0. MaxRuns \in Nat
  BY JudgeAssumption
<1>a. IsFiniteSet(1..MaxRuns) /\ U \subseteq 1..MaxRuns
  BY <1>0, FS_Interval
<1>1. IsFiniteSet(U) /\ c \in Nat
  BY <1>a, FS_Subset, FS_CardinalityType
<1>2. ASSUME NEW n \in U, NEW m \in 1..n PROVE m \in U
  <2>1. m \in 1..MaxRuns /\ n \in 1..MaxRuns /\ run[<<s, n>>] # "new"
    BY <1>0
  <2>2. CASE m < n
    <3>1. run[<<s, m>>] \in Over
      BY <2>1, <2>2, RunParts DEF OlderOver
    <3> QED
      BY <2>1, <3>1 DEF Over
  <2> QED
    BY <2>1, <2>2
<1>3. ASSUME NEW n \in U PROVE n <= c
  <2>1. IsFiniteSet(1..n) /\ Cardinality(1..n) = n
    BY FS_Interval
  <2>2. 1..n \subseteq U
    BY <1>2
  <2> QED
    BY <1>1, <2>1, <2>2, FS_Subset
<1>4. ASSUME NEW n \in 1..MaxRuns, n \notin U PROVE c < n
  <2>1. IsFiniteSet(1..(n - 1)) /\ Cardinality(1..(n - 1)) = n - 1
    BY <1>0, FS_Interval
  <2>2. U \subseteq 1..(n - 1)
    BY <1>0, <1>2, <1>4
  <2>3. c <= n - 1
    BY <2>1, <2>2, FS_Subset
  <2> QED
    BY <1>1, <2>3
<1>5. Fresh(s) = 1 + c
  BY DEF Fresh
<1>6. ASSUME NEW n \in 1..MaxRuns PROVE run[<<s, n>>] # "new" <=> n < 1 + c
  <2>1. CASE n \in U
    BY <1>1, <1>3, <2>1
  <2>2. CASE n \notin U
    <3>1. c < n /\ run[<<s, n>>] = "new"
      BY <1>4, <2>2
    <3> HIDE DEF c
    <3> QED
      BY <1>1, <3>1
  <2> QED
    BY <2>1, <2>2
<1> QED
  BY <1>1, <1>5, <1>6

-----------------------------------------------------------------------------
(* A step of one run                                                       *)

\* The other runs, and what belongs to other submissions, stay as they are.
Others(r) ==
    /\ \A q \in Runs \ {r} :
          /\ run'[q] = run[q] /\ req'[q] = req[q] /\ toClean'[q] = toClean[q]
          /\ q \in told' <=> q \in told
    /\ \A s \in Submissions \ {Sub(r)} :
          /\ s \in ctx' <=> s \in ctx
          /\ s \in outside' <=> s \in outside
          /\ \A f \in Names :
                /\ <<s, f>> \in files' <=> <<s, f>> \in files
                /\ <<s, f>> \in strayed' <=> <<s, f>> \in strayed

\* The run goes on.
LEMMA RunGoesOn ==
    ASSUME Inv, TypeOK', NEW r \in Runs, Others(r),
           run[r] \in Live, run'[r] \in Live, UNCHANGED <<byId, byProblem>>,
           Local(r)', Requested(r)', CallsStrayed'
    PROVE  Inv'
<1>1. Registered'
  BY DEF Inv, Registered, Others
<1>2. OlderOver'
  BY DEF Inv, OlderOver, Others, Live, InTry, Over
<1>3. ASSUME NEW q \in Runs, run'[q] \in Live, q # r PROVE Local(q)'
  <2>1. run[q] \in Live /\ run'[q] = run[q]
    BY <1>3 DEF Others
  <2>2. Sub(q) # Sub(r) /\ Sub(q) \in Submissions
    BY <1>3, <2>1, OneLive, RunParts DEF Inv
  <2>3. Local(q)
    BY <2>1 DEF Inv, Owned
  <2> QED
    BY <2>1, <2>2, <2>3 DEF Local, Others, File
<1>4. ASSUME NEW s \in Submissions, byId'[s] = 0 PROVE Free(s)'
  <2>1. s # Sub(r)
    BY <1>4, RunParts, JudgeAssumption DEF Inv, Registered
  <2>2. Free(s)
    BY <1>4 DEF Inv, Owned
  <2> QED
    BY <2>1, <2>2 DEF Free, Others
<1>5. Owned'
  BY <1>3, <1>4 DEF Owned
<1>6. ASSUME NEW q \in Runs PROVE Requested(q)'
  BY DEF Inv, Requested, Others
<1> QED
  BY <1>1, <1>2, <1>5, <1>6 DEF Inv

\* The run is over.
LEMMA RunEnds ==
    ASSUME Inv, TypeOK', NEW r \in Runs, Others(r),
           run[r] \in Live, run'[r] \in Over, Unregister(r),
           Free(Sub(r))', Requested(r)', CallsStrayed'
    PROVE  Inv'
<1>0. /\ byId' = [byId EXCEPT ![Sub(r)] = 0]
      /\ byId \in [Submissions -> 0..MaxRuns]
      /\ byProblem' = byProblem \ {r}
  BY DEF Unregister, Inv, TypeOK
<1>1. Registered'
  <2> SUFFICES ASSUME NEW q \in Runs
               PROVE  /\ run'[q] \in Live <=> byId'[Sub(q)] = q[2]
                      /\ run'[q] \in Live <=> q \in byProblem'
    BY DEF Registered
  <2>1. CASE q = r
    BY <1>0, <2>1, RunParts, JudgeAssumption DEF Live, InTry, Over
  <2>2. CASE q # r
    <3>1. run'[q] = run[q]
      BY <2>2 DEF Others
    <3>2. CASE Sub(q) = Sub(r)
      BY <1>0, <2>2, <3>1, <3>2, RunParts, OneLive, JudgeAssumption DEF Inv, Registered
    <3>3. CASE Sub(q) # Sub(r)
      BY <1>0, <2>2, <3>1, <3>3, RunParts DEF Inv, Registered
    <3> QED
      BY <3>2, <3>3
  <2> QED
    BY <2>1, <2>2
<1>2. OlderOver'
  BY DEF Inv, OlderOver, Others, Live, InTry, Over
<1>3. ASSUME NEW q \in Runs, run'[q] \in Live PROVE Local(q)'
  <2>0. q # r
    BY <1>3 DEF Live, InTry, Over
  <2>1. run[q] \in Live /\ run'[q] = run[q]
    BY <1>3, <2>0 DEF Others
  <2>2. Sub(q) # Sub(r) /\ Sub(q) \in Submissions
    BY <2>0, <2>1, OneLive, RunParts DEF Inv
  <2>3. Local(q)
    BY <2>1 DEF Inv, Owned
  <2> QED
    BY <2>1, <2>2, <2>3 DEF Local, Others, File
<1>4. ASSUME NEW s \in Submissions, byId'[s] = 0, s # Sub(r) PROVE Free(s)'
  <2>2. Free(s)
    BY <1>0, <1>4, RunParts DEF Inv, Owned
  <2> QED
    BY <1>4, <2>2 DEF Free, Others
<1>5. Owned'
  BY <1>3, <1>4 DEF Owned
<1>6. ASSUME NEW q \in Runs PROVE Requested(q)'
  BY DEF Inv, Requested, Others
<1> QED
  BY <1>1, <1>2, <1>5, <1>6 DEF Inv

\* The run, live or not, stays where it is.
LEMMA RunStays ==
    ASSUME Inv, TypeOK', NEW r \in Runs, Others(r),
           UNCHANGED <<run, byId, byProblem, ctx, toClean, files, strayed, outside, calls>>,
           Requested(r)'
    PROVE  Inv'
<1>1. Registered' /\ OlderOver' /\ Owned' /\ CallsStrayed'
  BY DEF Inv, Registered, OlderOver, Owned, Local, Free, CallsStrayed
<1>2. ASSUME NEW q \in Runs PROVE Requested(q)'
  BY DEF Inv, Requested, Others
<1> QED
  BY <1>1, <1>2 DEF Inv

-----------------------------------------------------------------------------
(* What a step does to the types                                           *)

RunType == run \in [Runs -> Live \union Over \union {"new"}]
ResType == res \in [Runs -> Results]
ReqType == req \in [Runs -> Reqs \union {NoReq}]

LEMMA GotoType ==
    ASSUME TypeOK, NEW r \in Runs, NEW to \in Live \union Over, Goto(r, to)
    PROVE  RunType' /\ run'[r] = to /\ \A q \in Runs \ {r} : run'[q] = run[q]
  BY DEF TypeOK, Goto, RunType

LEMMA RequestType ==
    ASSUME TypeOK, NEW r \in Runs, NEW kind \in {"compiling", "judging", "result"}, Request(r, kind)
    PROVE  /\ ReqType' /\ \A q \in Runs \ {r} : req'[q] = req[q]
           /\ req'[r].kind = kind /\ req'[r].sent = 0 /\ req'[r].left = RequestRetries
<1>1. [kind |-> kind, left |-> RequestRetries, sent |-> 0, args |-> "body"] \in Reqs
  BY JudgeAssumption DEF Reqs
<1> QED
  BY <1>1 DEF TypeOK, Request, ReqType

LEMMA NoRequestType ==
    ASSUME TypeOK, NEW r \in Runs, NoRequest(r)
    PROVE  ReqType' /\ req'[r] = NoReq /\ \A q \in Runs \ {r} : req'[q] = req[q]
  BY DEF TypeOK, NoRequest, ReqType

LEMMA ReportType ==
    ASSUME TypeOK, NEW r \in Runs, NEW result \in Results, Report(r, result)
    PROVE  /\ RunType' /\ ResType' /\ ReqType'
           /\ run'[r] = "report"
           /\ req'[r].kind = "result" /\ req'[r].sent = 0 /\ req'[r].left = RequestRetries
           /\ \A q \in Runs \ {r} : run'[q] = run[q] /\ req'[q] = req[q]
<1>1. Goto(r, "report") /\ Request(r, "result") /\ res' = [res EXCEPT ![r] = result]
  BY DEF Report
<1>2. "report" \in Live \union Over
  BY DEF Live
<1> QED
  BY <1>1, <1>2, GotoType, RequestType DEF TypeOK, ResType

LEMMA RemoveType ==
    ASSUME TypeOK, NEW r \in Runs, NEW left \in SUBSET Names, NEW result \in Results,
           Remove(r, left, result)
    PROVE  /\ RunType' /\ ResType' /\ ReqType' /\ toClean' \in [Runs -> SUBSET Names]
           /\ toClean'[r] = left
           /\ \/ /\ left = {} /\ run'[r] = "report"
                 /\ req'[r].kind = "result" /\ req'[r].sent = 0 /\ req'[r].left = RequestRetries
              \/ left # {} /\ run'[r] = "clean" /\ req'[r] = NoReq
           /\ \A q \in Runs \ {r} :
                 run'[q] = run[q] /\ req'[q] = req[q] /\ toClean'[q] = toClean[q]
<1>1. /\ toClean' \in [Runs -> SUBSET Names] /\ toClean'[r] = left
      /\ \A q \in Runs \ {r} : toClean'[q] = toClean[q]
  BY DEF Remove, TypeOK
<1>2. CASE left = {}
  <2>1. Report(r, result)
    BY <1>2 DEF Remove
  <2> QED
    BY <1>1, <1>2, <2>1, ReportType
<1>3. CASE left # {}
  <2>1. Goto(r, "clean") /\ NoRequest(r) /\ res' = [res EXCEPT ![r] = result]
    BY <1>3 DEF Remove
  <2>2. "clean" \in Live \union Over
    BY DEF Live
  <2> QED
    BY <1>1, <1>3, <2>1, <2>2, GotoType, NoRequestType DEF TypeOK, ResType
<1> QED
  BY <1>2, <1>3

\* What is left to S3 and to a runner.
StrayType(r) ==
    /\ calls' \subseteq Calls /\ strayed' \subseteq Submissions \X Names
    /\ strayed \subseteq strayed' /\ CallsStrayed'
    /\ \A s \in Submissions \ {Sub(r)}, f \in Names :
          <<s, f>> \in strayed' <=> <<s, f>> \in strayed

LEMMA NothingStrays ==
    ASSUME TypeOK, CallsStrayed, NEW r \in Runs, UNCHANGED <<calls, strayed>>
    PROVE  StrayType(r)
  BY DEF TypeOK, CallsStrayed, StrayType

LEMMA CallStrays ==
    ASSUME TypeOK, CallsStrayed, NEW r \in Runs, NEW f \in Names,
           NEW op \in {"copy", "delete", "put"}, NEW F \in SUBSET Names, f \in F,
           calls' = calls \union {<<Sub(r), f, op>>},
           strayed' = strayed \union {File(r, g) : g \in F}
    PROVE  StrayType(r)
<1>1. Sub(r) \in Submissions
  BY RunParts
<1>2. calls' \subseteq Calls
  BY <1>1 DEF TypeOK, Calls
<1>3. strayed' \subseteq Submissions \X Names
  BY <1>1 DEF TypeOK, File
<1>4. CallsStrayed'
  <2> SUFFICES ASSUME NEW c \in calls' PROVE <<c[1], c[2]>> \in strayed'
    BY DEF CallsStrayed
  <2>1. File(r, f) \in strayed' /\ strayed \subseteq strayed'
    OBVIOUS
  <2>2. CASE c \in calls
    BY <2>1, <2>2 DEF CallsStrayed
  <2>3. CASE c = <<Sub(r), f, op>>
    BY <2>1, <2>3 DEF File
  <2> QED
    BY <2>2, <2>3
<1>5. \A s \in Submissions \ {Sub(r)}, g \in Names : <<s, g>> \in strayed' <=> <<s, g>> \in strayed
  BY DEF File
<1> QED
  BY <1>2, <1>3, <1>4, <1>5 DEF StrayType

LEMMA StrayStrays ==
    ASSUME TypeOK, CallsStrayed, NEW r \in Runs, NEW f \in Names,
           NEW op \in {"copy", "delete", "put"}, Stray(r, f, op)
    PROVE  StrayType(r)
<1>1. strayed' = strayed \union {File(r, g) : g \in {f}}
  BY DEF Stray
<1> QED
  BY <1>1, CallStrays DEF Stray

LEMMA RunnerStrays ==
    ASSUME TypeOK, CallsStrayed, NEW r \in Runs, LeaveRunner(r) PROVE StrayType(r)
  BY NothingStrays, StrayStrays DEF LeaveRunner, Names

\* What the invariant says of a run that is live.
LEMMA LiveRun ==
    ASSUME Inv, NEW r \in Runs, run[r] \in Live
    PROVE  Local(r) /\ Requested(r) /\ Sub(r) \in Submissions /\ TypeOK /\ CallsStrayed
  BY RunParts DEF Inv, Owned

-----------------------------------------------------------------------------
(* The steps of run_judge                                                  *)

LEMMA StartKeeps == ASSUME Inv, NEW r \in Runs, Start(r) PROVE Inv'
<1> USE DEF webVars, registryVars, s3Vars, historyVars
<1>0. run[r] \in Live /\ run[r] = "created" /\ "plan" \in Live
  BY DEF Start, At, Live
<1>1. Local(r) /\ Requested(r) /\ TypeOK /\ CallsStrayed
  BY <1>0, LiveRun
<1>2. RunType' /\ run'[r] = "plan" /\ \A q \in Runs \ {r} : run'[q] = run[q]
  BY <1>0, <1>1, GotoType DEF Start
<1>3. TypeOK'
  BY <1>1, <1>2 DEF TypeOK, RunType, Start
<1>4. Others(r)
  BY <1>2 DEF Others, Start
<1>5. Local(r)' /\ Requested(r)' /\ CallsStrayed'
  BY <1>0, <1>1, <1>2 DEF Start, Local, Requested, CallsStrayed, Inside, InTry, Holding
<1> QED
  BY <1>0, <1>2, <1>3, <1>4, <1>5, RunGoesOn DEF Start

LEMMA ReadPlanKeeps == ASSUME Inv, NEW r \in Runs, ReadPlan(r) PROVE Inv'
<1> USE DEF webVars, registryVars, s3Vars, historyVars
<1>0. run[r] \in Live /\ run[r] = "plan" /\ {"report", "quiz", "prepare"} \subseteq Live /\ "error" \in Results
  BY DEF ReadPlan, At, Live, InTry, Results
<1>1. Local(r) /\ Requested(r) /\ TypeOK /\ CallsStrayed /\ Sub(r) \in Submissions
  BY <1>0, LiveRun
<1>2. UNCHANGED <<status, lang, posting, wire, cancel, byId, byProblem, update, toClean, files,
                  calls, told, gaveup, strayed>>
  BY DEF ReadPlan
<1>3. CASE Report(r, "error") /\ \/ UNCHANGED <<ctx, outside>>
                                 \/ /\ ctx' = ctx \union {Sub(r)}
                                    /\ outside' = outside \union {Sub(r)}
  <2>1. /\ RunType' /\ ResType' /\ ReqType'
        /\ run'[r] = "report" /\ req'[r].kind = "result"
        /\ req'[r].sent = 0 /\ req'[r].left = RequestRetries
        /\ \A q \in Runs \ {r} : run'[q] = run[q] /\ req'[q] = req[q]
    BY <1>0, <1>1, <1>3, ReportType
  <2>2. TypeOK'
    BY <1>1, <1>2, <1>3, <2>1 DEF TypeOK, RunType, ResType, ReqType
  <2>3. Others(r)
    BY <1>2, <1>3, <2>1 DEF Others
  <2>4. Local(r)' /\ Requested(r)' /\ CallsStrayed'
    BY <1>0, <1>1, <1>2, <1>3, <2>1, JudgeAssumption
       DEF Local, Requested, CallsStrayed, Inside, InTry, Holding
  <2> QED
    BY <1>0, <1>2, <2>1, <2>2, <2>3, <2>4, RunGoesOn
<1>4. ASSUME NEW to \in {"quiz", "prepare"}, Goto(r, to), ctx' = ctx \union {Sub(r)},
             outside' = IF to = "quiz" THEN outside \union {Sub(r)} ELSE outside,
             UNCHANGED <<res, req>>
      PROVE  Inv'
  <2>1. RunType' /\ run'[r] = to /\ \A q \in Runs \ {r} : run'[q] = run[q]
    BY <1>0, <1>1, <1>4, GotoType
  <2>2. TypeOK'
    BY <1>1, <1>2, <1>4, <2>1 DEF TypeOK, RunType
  <2>3. Others(r)
    BY <1>2, <1>4, <2>1 DEF Others
  <2>4. Local(r)' /\ Requested(r)' /\ CallsStrayed'
    BY <1>0, <1>1, <1>2, <1>4, <2>1
       DEF Local, Requested, CallsStrayed, Inside, InTry, Holding
  <2> QED
    BY <1>0, <1>2, <2>1, <2>2, <2>3, <2>4, RunGoesOn
<1> QED
  BY <1>3, <1>4 DEF ReadPlan

LEMMA JudgeQuizKeeps == ASSUME Inv, NEW r \in Runs, JudgeQuiz(r) PROVE Inv'
<1> USE DEF webVars, registryVars, s3Vars, historyVars
<1>0. run[r] \in Live /\ run[r] = "quiz" /\ "report" \in Live
  BY DEF JudgeQuiz, At, Live
<1>1. Local(r) /\ Requested(r) /\ TypeOK /\ CallsStrayed
  BY <1>0, LiveRun
<1>2. PICK result \in Results : Report(r, result)
  BY DEF JudgeQuiz, Results
<1>3. /\ RunType' /\ ResType' /\ ReqType'
      /\ run'[r] = "report" /\ req'[r].kind = "result"
      /\ req'[r].sent = 0 /\ req'[r].left = RequestRetries
      /\ \A q \in Runs \ {r} : run'[q] = run[q] /\ req'[q] = req[q]
  BY <1>1, <1>2, ReportType
<1>4. TypeOK'
  BY <1>1, <1>3 DEF TypeOK, RunType, ResType, ReqType, JudgeQuiz
<1>5. Others(r)
  BY <1>3 DEF Others, JudgeQuiz
<1>6. Local(r)' /\ Requested(r)' /\ CallsStrayed'
  BY <1>0, <1>1, <1>3, JudgeAssumption
     DEF Local, Requested, CallsStrayed, Inside, InTry, Holding, JudgeQuiz
<1> QED
  BY <1>0, <1>3, <1>4, <1>5, <1>6, RunGoesOn DEF JudgeQuiz

\* The try statement of execute_plan is left, with the files of K to remove.
LEMMA FinallyKeeps ==
    ASSUME Inv, NEW r \in Runs, run[r] \in Inside,
           NEW K \in SUBSET Names, NEW result \in Results, Finally(r, K, result),
           status' \in [Submissions -> Statuses], cancel' \subseteq Runs,
           wire' \subseteq Submissions \X {"compiling", "judging"},
           gaveup' \subseteq 0..RequestRetries, StrayType(r),
           files' \subseteq Submissions \X Names,
           \A s \in Submissions \ {Sub(r)}, f \in Names : <<s, f>> \in files' <=> <<s, f>> \in files,
           \A f \in Names : File(r, f) \in files' => f \in K \/ File(r, f) \in strayed',
           UNCHANGED <<lang, posting, byId, byProblem, update, told, outside>>
    PROVE  Inv'
<1>0. run[r] \in Live /\ {"clean", "report"} \subseteq Live
  BY DEF Inside, Live
<1>1. Local(r) /\ Requested(r) /\ TypeOK /\ CallsStrayed
  BY <1>0, LiveRun
<1>2. /\ RunType' /\ ResType' /\ ReqType' /\ toClean' \in [Runs -> SUBSET Names]
      /\ toClean'[r] = K
      /\ \/ /\ K = {} /\ run'[r] = "report"
            /\ req'[r].kind = "result" /\ req'[r].sent = 0 /\ req'[r].left = RequestRetries
         \/ K # {} /\ run'[r] = "clean" /\ req'[r] = NoReq
      /\ \A q \in Runs \ {r} :
            run'[q] = run[q] /\ req'[q] = req[q] /\ toClean'[q] = toClean[q]
  BY <1>1, RemoveType DEF Finally
<1>3. ctx' = ctx \ {Sub(r)}
  BY DEF Finally
<1>4. TypeOK'
  BY <1>1, <1>2, <1>3 DEF TypeOK, RunType, ResType, ReqType, StrayType
<1>5. Others(r)
  BY <1>2, <1>3 DEF Others, StrayType
<1>6. Local(r)' /\ Requested(r)' /\ CallsStrayed'
  <2>1. Local(r)'
    BY <1>2, <1>3 DEF Local, Inside, InTry, Using, File
  <2>2. Requested(r)'
    BY <1>2, JudgeAssumption DEF Requested, Holding, NoReq
  <2> QED
    BY <2>1, <2>2 DEF StrayType
<1> QED
  BY <1>0, <1>2, <1>4, <1>5, <1>6, RunGoesOn

\* The files of a run are those it has to remove, or have strayed.
LEMMA OwnFiles ==
    ASSUME Inv, NEW r \in Runs, run[r] \in Live
    PROVE  \A f \in Names : File(r, f) \in files => f \in toClean[r] \/ File(r, f) \in strayed
  BY LiveRun DEF Local

LEMMA PrepareKeeps == ASSUME Inv, NEW r \in Runs, Prepare(r) PROVE Inv'
<1> USE DEF webVars, registryVars, s3Vars, historyVars
<1>0. /\ run[r] \in Live /\ run[r] = "prepare" /\ "compile" \in Live /\ "error" \in Results
      /\ run[r] \in Inside
  BY DEF Prepare, At, Live, InTry, Inside, Results
<1>1. Local(r) /\ Requested(r) /\ TypeOK /\ CallsStrayed /\ Sub(r) \in Submissions
  BY <1>0, LiveRun
<1> DEFINE copied(K) == files \union {File(r, f) : f \in K \ {"artifact"}}
<1>2. PICK K \in SUBSET Names :
         \/ /\ Goto(r, "compile") /\ toClean' = [toClean EXCEPT ![r] = K]
            /\ files' = copied(K) /\ UNCHANGED <<res, ctx, req>>
         \/ Finally(r, K, "error") /\ files' \in {files, copied(K)}
  BY DEF Prepare
<1>3. UNCHANGED <<status, lang, posting, wire, cancel, byId, byProblem, update, calls,
                  told, gaveup, strayed, outside>>
  BY DEF Prepare
<1>4. toClean[r] = {}
  BY <1>0, <1>1 DEF Requested, Holding
<1>5. \A s \in Submissions, f \in Names :
         <<s, f>> \in copied(K) <=> <<s, f>> \in files \/ (s = Sub(r) /\ f \in K /\ f # "artifact")
  BY DEF File
<1>6. copied(K) \subseteq Submissions \X Names
  BY <1>1 DEF TypeOK, File
<1> HIDE DEF copied
<1>7. CASE /\ Goto(r, "compile") /\ toClean' = [toClean EXCEPT ![r] = K]
           /\ files' = copied(K) /\ UNCHANGED <<res, ctx, req>>
  <2>1. RunType' /\ run'[r] = "compile" /\ \A q \in Runs \ {r} : run'[q] = run[q]
    BY <1>0, <1>1, <1>7, GotoType
  <2>2. /\ toClean' \in [Runs -> SUBSET Names] /\ toClean'[r] = K
        /\ \A q \in Runs \ {r} : toClean'[q] = toClean[q]
    BY <1>1, <1>7 DEF TypeOK
  <2>3. TypeOK'
    BY <1>1, <1>3, <1>6, <1>7, <2>1, <2>2 DEF TypeOK, RunType
  <2>4. Others(r)
    BY <1>3, <1>5, <1>7, <2>1, <2>2 DEF Others
  <2>5. ASSUME NEW f \in Names
        PROVE  /\ f \in K /\ "compile" \in Using(f) => File(r, f) \in files'
               /\ File(r, f) \in files' => f \in K \/ File(r, f) \in strayed
    BY <1>0, <1>1, <1>4, <1>5, <1>7 DEF Local, Using, File, Names
  <2>6. Local(r)'
    BY <1>0, <1>1, <1>3, <1>7, <2>1, <2>2, <2>5 DEF Local, Inside, InTry, File
  <2>7. Requested(r)' /\ CallsStrayed'
    BY <1>0, <1>1, <1>3, <1>7, <2>1 DEF Requested, CallsStrayed, Holding
  <2> QED
    BY <1>0, <1>3, <2>1, <2>3, <2>4, <2>6, <2>7, RunGoesOn
<1>8. CASE Finally(r, K, "error") /\ files' \in {files, copied(K)}
  <2>1. StrayType(r)
    BY <1>1, <1>3, NothingStrays
  <2>2. \A f \in Names : File(r, f) \in files' => f \in K \/ File(r, f) \in strayed'
    BY <1>0, <1>1, <1>3, <1>4, <1>5, <1>8, OwnFiles DEF File
  <2>3. \A s \in Submissions \ {Sub(r)}, f \in Names : <<s, f>> \in files' <=> <<s, f>> \in files
    BY <1>5, <1>8
  <2>4. files' \subseteq Submissions \X Names
    BY <1>1, <1>6, <1>8 DEF TypeOK
  <2>5. /\ status' \in [Submissions -> Statuses] /\ cancel' \subseteq Runs
        /\ wire' \subseteq Submissions \X {"compiling", "judging"}
        /\ gaveup' \subseteq 0..RequestRetries
    BY <1>1, <1>3 DEF TypeOK
  <2> QED
    BY <1>0, <1>3, <1>8, <2>1, <2>2, <2>3, <2>4, <2>5, FinallyKeeps
<1> QED
  BY <1>2, <1>7, <1>8

\* The same where nothing changes but the run and what it leaves to a runner.
LEMMA FinallyOnly ==
    ASSUME Inv, NEW r \in Runs, run[r] \in Inside,
           NEW result \in Results, Finally(r, toClean[r], result),
           status' \in [Submissions -> Statuses], cancel' \subseteq Runs,
           wire' \subseteq Submissions \X {"compiling", "judging"},
           gaveup' \subseteq 0..RequestRetries, StrayType(r),
           UNCHANGED <<lang, posting, byId, byProblem, update, files, told, outside>>
    PROVE  Inv'
<1>1. run[r] \in Live /\ TypeOK /\ toClean[r] \in SUBSET Names
  BY DEF Inv, TypeOK, Inside, Live
<1>2. \A f \in Names : File(r, f) \in files' => f \in toClean[r] \/ File(r, f) \in strayed'
  BY <1>1, OwnFiles DEF StrayType
<1>3. files' \subseteq Submissions \X Names
  BY <1>1 DEF TypeOK
<1> QED
  BY <1>1, <1>2, <1>3, FinallyKeeps

LEMMA RunnerUploadsKeeps == ASSUME Inv, NEW r \in Runs, RunnerUploads(r) PROVE Inv'
<1> USE DEF webVars, runVars, registryVars, historyVars
<1>0. run[r] \in Live /\ run[r] = "compile" /\ "artifact" \in toClean[r]
  BY DEF RunnerUploads, Live, InTry
<1>1. Local(r) /\ Requested(r) /\ TypeOK /\ CallsStrayed /\ Sub(r) \in Submissions
  BY <1>0, LiveRun
<1>2. /\ files' = files \union {File(r, "artifact")}
      /\ UNCHANGED <<status, lang, posting, wire, run, cancel, res, byId, byProblem, update, ctx,
                     req, toClean, calls, told, gaveup, strayed, outside>>
  BY DEF RunnerUploads
<1>3. TypeOK'
  BY <1>1, <1>2 DEF TypeOK, File, Names
<1>4. Others(r)
  BY <1>2 DEF Others, File
<1>5. Local(r)'
  BY <1>0, <1>1, <1>2 DEF Local, File
<1>6. Requested(r)' /\ CallsStrayed'
  BY <1>1, <1>2 DEF Requested, CallsStrayed
<1> QED
  BY <1>0, <1>2, <1>3, <1>4, <1>5, <1>6, RunGoesOn

LEMMA CompileStartedKeeps == ASSUME Inv, NEW r \in Runs, CompileStarted(r) PROVE Inv'
<1> USE DEF webVars, runVars, registryVars, s3Vars, historyVars
<1>0. run[r] \in Live /\ run[r] = "compile"
  BY DEF CompileStarted, At, Live, InTry
<1>1. Requested(r) /\ TypeOK
  BY <1>0, LiveRun
<1>2. /\ ReqType' /\ \A q \in Runs \ {r} : req'[q] = req[q]
      /\ req'[r].kind = "compiling" /\ req'[r].sent = 0 /\ req'[r].left = RequestRetries
  BY <1>1, RequestType DEF CompileStarted
<1>3. TypeOK'
  BY <1>1, <1>2 DEF TypeOK, ReqType, CompileStarted
<1>4. Others(r) /\ Requested(r)'
  BY <1>0, <1>1, <1>2, JudgeAssumption DEF Others, Requested, CompileStarted
<1> QED
  BY <1>3, <1>4, RunStays DEF CompileStarted

LEMMA CompiledKeeps == ASSUME Inv, NEW r \in Runs, Compiled(r) PROVE Inv'
<1> USE DEF webVars, registryVars, historyVars
<1>0. /\ run[r] \in Live /\ run[r] = "compile" /\ "announce" \in Live
      /\ {"error", "aborted"} \subseteq Results /\ run[r] \in Inside
  BY DEF Compiled, At, Live, InTry, Inside, Results
<1>1. Local(r) /\ Requested(r) /\ TypeOK /\ CallsStrayed /\ Sub(r) \in Submissions
  BY <1>0, LiveRun
<1>2. StrayType(r)
  BY <1>1, RunnerStrays DEF Compiled
<1>3. UNCHANGED <<status, lang, posting, wire, cancel, byId, byProblem, update, told, gaveup, outside>>
  BY DEF Compiled
<1> DEFINE put == files \union {File(r, f) : f \in toClean[r] \ {"code"}}
<1>4. CASE /\ Goto(r, "announce") /\ Request(r, "judging") /\ files' = put
           /\ UNCHANGED <<res, ctx, toClean>>
  <2>1. RunType' /\ run'[r] = "announce" /\ \A q \in Runs \ {r} : run'[q] = run[q]
    BY <1>0, <1>1, <1>4, GotoType
  <2>2. /\ ReqType' /\ \A q \in Runs \ {r} : req'[q] = req[q]
        /\ req'[r].kind = "judging" /\ req'[r].sent = 0 /\ req'[r].left = RequestRetries
    BY <1>1, <1>4, RequestType
  <2>3. \A s \in Submissions, f \in Names :
           <<s, f>> \in files' <=> <<s, f>> \in files \/ (s = Sub(r) /\ f \in toClean[r] /\ f # "code")
    BY <1>1, <1>4 DEF TypeOK, File
  <2>4. files' \subseteq Submissions \X Names
    BY <1>1, <1>4 DEF TypeOK, File
  <2>5. TypeOK'
    BY <1>1, <1>2, <1>3, <1>4, <2>1, <2>2, <2>4 DEF TypeOK, RunType, ReqType, StrayType
  <2>6. Others(r)
    BY <1>2, <1>3, <1>4, <2>1, <2>2, <2>3 DEF Others, StrayType
  <2>7. ASSUME NEW f \in Names
        PROVE  /\ f \in toClean[r] => File(r, f) \in files' \union strayed'
               /\ File(r, f) \in files' => f \in toClean[r] \/ File(r, f) \in strayed'
    BY <1>0, <1>1, <1>2, <2>3 DEF Local, Using, File, Names, InTry, StrayType
  <2>8. Local(r)'
    BY <1>0, <1>1, <1>3, <1>4, <2>1, <2>7 DEF Local, Inside, InTry, File
  <2>9. Requested(r)' /\ CallsStrayed'
    BY <1>0, <1>1, <1>2, <1>3, <1>4, <2>1, <2>2, JudgeAssumption DEF Requested, Holding, StrayType
  <2> QED
    BY <1>0, <1>3, <2>1, <2>5, <2>6, <2>8, <2>9, RunGoesOn
<1>5. ASSUME NEW result \in {"error", "aborted"}, Finally(r, toClean[r], result), UNCHANGED files
      PROVE  Inv'
  BY <1>0, <1>1, <1>2, <1>3, <1>5, FinallyOnly DEF TypeOK
<1> QED
  BY <1>4, <1>5 DEF Compiled

LEMMA JudgedKeeps == ASSUME Inv, NEW r \in Runs, Judged(r) PROVE Inv'
<1> USE DEF webVars, registryVars, historyVars
<1>0. run[r] \in Live /\ run[r] \in Inside
  BY DEF Judged, At, Live, InTry, Inside
<1>1. PICK result \in Results : Finally(r, toClean[r], result)
  BY DEF Judged, Results
<1>2. TypeOK /\ StrayType(r)
  BY <1>0, LiveRun, NothingStrays DEF Judged
<1> QED
  BY <1>0, <1>1, <1>2, FinallyOnly DEF Judged, TypeOK

LEMMA SettleKeeps == ASSUME Inv, NEW r \in Runs, Settle(r) PROVE Inv'
<1> USE DEF webVars, registryVars, historyVars
<1>0. run[r] \in Live /\ run[r] \in Inside /\ "aborted" \in Results
  BY DEF Settle, At, Live, Inside, Results
<1>1. TypeOK /\ StrayType(r)
  BY <1>0, LiveRun, NothingStrays DEF Settle
<1> QED
  BY <1>0, <1>1, FinallyOnly DEF Settle, TypeOK

LEMMA CleanKeeps == ASSUME Inv, NEW r \in Runs, Clean(r) PROVE Inv'
<1> USE DEF webVars, registryVars, historyVars
<1>0. run[r] \in Live /\ run[r] = "clean" /\ {"clean", "report"} \subseteq Live
  BY DEF Clean, At, Live
<1>1. Local(r) /\ Requested(r) /\ TypeOK /\ CallsStrayed /\ Sub(r) \in Submissions
  BY <1>0, LiveRun
<1>2. PICK f \in toClean[r] :
         /\ Remove(r, toClean[r] \ {f}, res[r])
         /\ \/ files' = files \ {File(r, f)} /\ strayed' = strayed
            \/ files' = files /\ strayed' = strayed \union {File(r, f)}
  BY DEF Clean
<1>3. UNCHANGED <<status, lang, posting, wire, cancel, byId, byProblem, update, ctx, calls,
                  told, gaveup, outside>>
  BY DEF Clean
<1> DEFINE K == toClean[r] \ {f}
<1>4. res[r] \in Results /\ f \in Names /\ K \in SUBSET Names
  BY <1>1 DEF TypeOK
<1> HIDE DEF K
<1>5. /\ RunType' /\ ResType' /\ ReqType' /\ toClean' \in [Runs -> SUBSET Names]
      /\ toClean'[r] = K
      /\ \/ /\ K = {} /\ run'[r] = "report"
            /\ req'[r].kind = "result" /\ req'[r].sent = 0 /\ req'[r].left = RequestRetries
         \/ K # {} /\ run'[r] = "clean" /\ req'[r] = NoReq
      /\ \A q \in Runs \ {r} :
            run'[q] = run[q] /\ req'[q] = req[q] /\ toClean'[q] = toClean[q]
  <2>1. Remove(r, K, res[r])
    BY <1>2 DEF K
  <2> QED
    BY <1>1, <1>4, <2>1, RemoveType
<1>6. TypeOK'
  BY <1>1, <1>2, <1>3, <1>4, <1>5 DEF TypeOK, RunType, ResType, ReqType, File
<1>7. Others(r)
  BY <1>2, <1>3, <1>5 DEF Others, File
<1>8. \A g \in Names : File(r, g) \in files' => g \in K \/ File(r, g) \in strayed'
  BY <1>1, <1>2 DEF Local, File, K
<1>9. Local(r)'
  BY <1>0, <1>1, <1>3, <1>5, <1>8 DEF Local, Inside, InTry, Using, File
<1>10. Requested(r)' /\ CallsStrayed'
  BY <1>1, <1>2, <1>3, <1>5, JudgeAssumption DEF Requested, CallsStrayed, Holding, NoReq
<1> QED
  BY <1>0, <1>3, <1>5, <1>6, <1>7, <1>9, <1>10, RunGoesOn

LEMMA CallEndsKeeps == ASSUME Inv, NEW c \in calls, CallEnds(c) PROVE Inv'
<1> USE DEF webVars, runVars, registryVars, historyVars
<1>1. <<c[1], c[2]>> \in strayed /\ <<c[1], c[2]>> \in Submissions \X Names
  BY DEF Inv, CallsStrayed, TypeOK, Calls
<1>2. /\ \A x : x # <<c[1], c[2]>> => (x \in files' <=> x \in files)
      /\ files' \subseteq files \union {<<c[1], c[2]>>}
      /\ calls' \subseteq calls
      /\ UNCHANGED <<status, lang, posting, wire, run, cancel, res, byId, byProblem, update, ctx,
                     req, toClean, told, gaveup, strayed, outside>>
  BY DEF CallEnds
<1>3. TypeOK'
  BY <1>1, <1>2 DEF Inv, TypeOK
<1>4. Registered' /\ OlderOver' /\ CallsStrayed' /\ \A r \in Runs : Requested(r)'
  BY <1>2 DEF Inv, Registered, OlderOver, CallsStrayed, Requested
<1>5. ASSUME NEW r \in Runs, run'[r] \in Live PROVE Local(r)'
  <2>1. Local(r)
    BY <1>2, <1>5, LiveRun
  <2> QED
    BY <1>1, <1>2, <2>1 DEF Local, File
<1>6. ASSUME NEW s \in Submissions, byId'[s] = 0 PROVE Free(s)'
  <2>1. Free(s)
    BY <1>2, <1>6 DEF Inv, Owned
  <2> QED
    BY <1>1, <1>2, <2>1 DEF Free
<1> QED
  BY <1>3, <1>4, <1>5, <1>6 DEF Inv, Owned

-----------------------------------------------------------------------------
(* make_request                                                            *)

\* What the web server makes of a request.
LEMMA HandleType ==
    ASSUME Inv, NEW r \in Runs, req[r] # NoReq, Handle(r)
    PROVE  /\ status' \in [Submissions -> Statuses]
           /\ told' = told \union (IF req[r].kind = "result" THEN {r} ELSE {})
<1>1. req[r] \in Reqs /\ res[r] \in Results
  BY DEF Inv, TypeOK
<1>2. (IF req[r].kind = "result" THEN res[r] ELSE req[r].kind) \in Statuses
  BY <1>1 DEF Reqs, Statuses, InProgress
<1> QED
  BY <1>2 DEF Handle, Inv, TypeOK

\* The request that carried the result is over.
LEMMA EndedKeeps ==
    ASSUME Inv, NEW r \in Runs, req[r].kind = "result", Ended(r),
           told' = told \union {r}, status' \in [Submissions -> Statuses],
           gaveup' \subseteq 0..RequestRetries,
           UNCHANGED <<lang, posting, wire, cancel, toClean, files, calls, strayed, outside>>
    PROVE  Inv'
<1>0. TypeOK /\ Requested(r) /\ CallsStrayed /\ Sub(r) \in Submissions
  BY RunParts DEF Inv
<1>1. ReqType' /\ req'[r] = NoReq /\ \A q \in Runs \ {r} : req'[q] = req[q]
  BY <1>0, NoRequestType DEF Ended
<1>2. UNCHANGED <<res, ctx>>
  BY DEF Ended
<1>3. CASE Awaited(r)
  <2>0. run[r] = "report" /\ run[r] \in Live /\ "ended" \in Over
    BY <1>3 DEF Awaited, Live, Over
  <2>1. Goto(r, "ended") /\ Unregister(r)
    BY <1>3 DEF Ended
  <2>2. RunType' /\ run'[r] = "ended" /\ \A q \in Runs \ {r} : run'[q] = run[q]
    BY <1>0, <2>0, <2>1, GotoType
  <2>3. /\ byId' \in [Submissions -> 0..MaxRuns] /\ byProblem' \subseteq Runs /\ update' = update
    BY <1>0, <2>1, JudgeAssumption DEF Unregister, TypeOK
  <2>4. TypeOK'
    BY <1>0, <1>1, <1>2, <2>2, <2>3 DEF TypeOK, RunType, ReqType
  <2>5. Others(r)
    BY <1>1, <1>2, <2>2 DEF Others
  <2>6. Local(r)
    BY <2>0, LiveRun
  <2>7. toClean[r] = {}
    BY <1>0, <2>0 DEF Requested, Holding
  <2>8. Free(Sub(r))'
    BY <1>0, <1>2, <2>0, <2>6, <2>7 DEF Local, Free, File, Inside, InTry
  <2>9. Requested(r)' /\ CallsStrayed'
    BY <1>0, <1>1, <2>2, <2>7 DEF Requested, CallsStrayed, NoReq
  <2> QED
    BY <2>0, <2>1, <2>2, <2>4, <2>5, <2>8, <2>9, RunEnds
<1>4. CASE ~ Awaited(r)
  <2>1. UNCHANGED <<run, byId, byProblem, update>>
    BY <1>4 DEF Ended, registryVars
  <2>2. TypeOK'
    BY <1>0, <1>1, <1>2, <2>1 DEF TypeOK, ReqType
  <2>3. Others(r)
    BY <1>1, <1>2, <2>1 DEF Others
  <2>4. Requested(r)'
    BY <1>0, <1>1, <2>1 DEF Requested, NoReq
  <2> QED
    BY <1>2, <2>1, <2>2, <2>3, <2>4, RunStays
<1> QED
  BY <1>3, <1>4

LEMMA RequestOkKeeps == ASSUME Inv, NEW r \in Runs, RequestOk(r) PROVE Inv'
<1> USE DEF registryVars, s3Vars
<1>0. TypeOK /\ Requested(r) /\ CallsStrayed /\ Sub(r) \in Submissions
  BY RunParts DEF Inv
<1>1. /\ status' \in [Submissions -> Statuses]
      /\ told' = told \union (IF req[r].kind = "result" THEN {r} ELSE {})
      /\ UNCHANGED <<lang, posting, wire, cancel, toClean, files, calls, gaveup, strayed,
                     outside>>
  BY HandleType DEF RequestOk, Sending
<1>2. CASE req[r].kind = "compiling" /\ NoRequest(r) /\ UNCHANGED <<run, res, ctx, registryVars>>
  <2>1. ReqType' /\ req'[r] = NoReq /\ \A q \in Runs \ {r} : req'[q] = req[q]
    BY <1>0, <1>2, NoRequestType
  <2>2. told' = told
    BY <1>1, <1>2
  <2>3. TypeOK'
    BY <1>0, <1>1, <1>2, <2>1, <2>2 DEF TypeOK, ReqType
  <2>4. Others(r) /\ Requested(r)'
    BY <1>0, <1>1, <1>2, <2>1, <2>2 DEF Others, Requested, NoReq
  <2> QED
    BY <1>1, <1>2, <2>3, <2>4, RunStays
<1>3. CASE /\ req[r].kind = "judging" /\ NoRequest(r) /\ Goto(r, "judge")
           /\ UNCHANGED <<res, ctx, registryVars>>
  <2>0. run[r] = "announce" /\ run[r] \in Live /\ "judge" \in Live
    BY <1>0, <1>3 DEF Requested, Live, InTry
  <2>1. ReqType' /\ req'[r] = NoReq /\ \A q \in Runs \ {r} : req'[q] = req[q]
    BY <1>0, <1>3, NoRequestType
  <2>2. RunType' /\ run'[r] = "judge" /\ \A q \in Runs \ {r} : run'[q] = run[q]
    BY <1>0, <1>3, <2>0, GotoType
  <2>3. told' = told
    BY <1>1, <1>3
  <2>4. TypeOK'
    BY <1>0, <1>1, <1>3, <2>1, <2>2, <2>3 DEF TypeOK, ReqType, RunType
  <2>5. Others(r)
    BY <1>0, <1>1, <1>3, <2>1, <2>2, <2>3 DEF Others
  <2>6. Local(r)
    BY <2>0, LiveRun
  <2>7. Local(r)'
    BY <1>1, <1>3, <2>0, <2>2, <2>6 DEF Local, Inside, InTry, Using, File
  <2>8. Requested(r)' /\ CallsStrayed'
    BY <1>0, <1>1, <2>1, <2>2 DEF Requested, CallsStrayed, Holding, NoReq
  <2> QED
    BY <1>3, <2>0, <2>2, <2>4, <2>5, <2>7, <2>8, RunGoesOn
<1>4. CASE req[r].kind = "result" /\ Ended(r)
  BY <1>0, <1>1, <1>4, EndedKeeps DEF TypeOK
<1> QED
  BY <1>2, <1>3, <1>4 DEF RequestOk

LEMMA RequestFailsKeeps == ASSUME Inv, NEW r \in Runs, RequestFails(r) PROVE Inv'
<1> USE DEF runVars, registryVars, s3Vars
<1>0. TypeOK /\ Requested(r)
  BY DEF Inv
<1>1. /\ status' \in [Submissions -> Statuses]
      /\ told' \in {told, told \union {r}}
      /\ UNCHANGED <<lang, posting, wire, run, cancel, res, byId, byProblem, update, ctx,
                     toClean, files, calls, gaveup, strayed, outside>>
  BY <1>0, HandleType DEF RequestFails, Sending, TypeOK
<1>2. /\ req[r] \in Reqs /\ req[r].left \in 1..RequestRetries /\ req[r].left > 1
      /\ req[r].sent \in 0..RequestRetries /\ req[r].sent + req[r].left <= RequestRetries
      /\ req[r] # NoReq
  BY <1>0 DEF RequestFails, Sending, Requested, TypeOK, Reqs
<1> DEFINE more == IF req[r].args = "body" THEN 1 ELSE 0
           next == [req[r] EXCEPT !.left = @ - 1, !.sent = @ + more, !.args = "log"]
<1>3. /\ req' = [req EXCEPT ![r] = next]
      /\ next.kind = req[r].kind /\ next.left = req[r].left - 1 /\ next.sent = req[r].sent + more
      /\ next \in Reqs
  <2>1. req' = [req EXCEPT ![r] = next]
    BY DEF RequestFails
  <2>2. next.kind = req[r].kind /\ next.left = req[r].left - 1 /\ next.sent = req[r].sent + more
    BY <1>2 DEF Reqs
  <2>3. /\ req[r].kind \in {"compiling", "judging", "result"}
        /\ req[r].left - 1 \in 1..RequestRetries /\ req[r].sent + more \in 0..RequestRetries
    BY <1>2, JudgeAssumption DEF Reqs
  <2>4. ASSUME NEW a \in 1..RequestRetries, NEW b \in 0..RequestRetries
        PROVE  [req[r] EXCEPT !.left = a, !.sent = b, !.args = "log"] \in Reqs
    BY <1>2 DEF Reqs
  <2>5. next \in Reqs
    BY <2>3, <2>4
  <2> QED
    BY <2>1, <2>2, <2>5
<1> HIDE DEF next
<1>4. TypeOK'
  BY <1>0, <1>1, <1>3 DEF TypeOK
<1>5. req'[r] = next /\ \A q \in Runs \ {r} : req'[q] = req[q]
  BY <1>0, <1>3 DEF TypeOK
<1>6. Others(r)
  BY <1>1, <1>5 DEF Others
<1>7. Requested(r)'
  BY <1>0, <1>1, <1>2, <1>3, <1>5, JudgeAssumption DEF Requested
<1> QED
  BY <1>1, <1>4, <1>6, <1>7, RunStays

LEMMA RequestGivesUpKeeps == ASSUME Inv, NEW r \in Runs, RequestGivesUp(r) PROVE Inv'
<1> USE DEF registryVars
<1>0. TypeOK /\ Requested(r) /\ CallsStrayed
  BY DEF Inv
<1>1. /\ status' \in [Submissions -> Statuses]
      /\ told' = told \union (IF req[r].kind = "result" THEN {r} ELSE {})
      /\ UNCHANGED <<lang, posting, wire, cancel, files, outside>>
  BY <1>0, HandleType DEF RequestGivesUp, Sending, TypeOK
<1>2. /\ req[r] \in Reqs /\ req[r].left = 1 /\ req[r].sent \in 0..RequestRetries
      /\ req[r].sent + req[r].left <= RequestRetries
  BY <1>0 DEF RequestGivesUp, Sending, Requested, TypeOK, Reqs
<1>3. gaveup' \subseteq 0..RequestRetries
  <2>1. req[r].sent + (IF req[r].args = "body" THEN 1 ELSE 0) \in 0..RequestRetries
    BY <1>2, JudgeAssumption
  <2> QED
    BY <1>0, <2>1 DEF RequestGivesUp, TypeOK
<1>4. CASE req[r].kind = "result"
  <2>1. Ended(r) /\ UNCHANGED <<toClean, calls, strayed>>
    BY <1>4 DEF RequestGivesUp
  <2> QED
    BY <1>1, <1>3, <1>4, <2>1, EndedKeeps
<1>5. CASE req[r].kind # "result"
  <2>1. /\ Finally(r, toClean[r], "error") /\ UNCHANGED registryVars
        /\ LeaveRunner(r) \/ UNCHANGED <<calls, strayed>>
    BY <1>5 DEF RequestGivesUp
  <2>2. run[r] \in Inside /\ told' = told /\ "error" \in Results
    BY <1>0, <1>1, <1>2, <1>5 DEF Requested, Reqs, Inside, InTry, Results
  <2>3. StrayType(r)
    BY <1>0, <2>1, RunnerStrays, NothingStrays
  <2> QED
    BY <1>0, <1>1, <1>3, <2>1, <2>2, <2>3, FinallyOnly DEF TypeOK
<1> QED
  BY <1>4, <1>5

LEMMA LateUpdateKeeps == ASSUME Inv, NEW w \in wire, LateUpdate(w) PROVE Inv'
<1> USE DEF runVars, registryVars, s3Vars, historyVars
<1>1. w[1] \in Submissions /\ w[2] \in Statuses
  BY DEF Inv, TypeOK, Statuses, InProgress
<1>2. TypeOK'
  BY <1>1 DEF Inv, TypeOK, LateUpdate
<1> QED
  BY <1>2 DEF Inv, LateUpdate, Registered, OlderOver, Owned, Local, Free, Requested, CallsStrayed

-----------------------------------------------------------------------------
(* The CancelledError of a run                                             *)

LEMMA UnregisterType ==
    ASSUME TypeOK, NEW r \in Runs, Unregister(r)
    PROVE  byId' \in [Submissions -> 0..MaxRuns] /\ byProblem' \subseteq Runs /\ update' = update
  BY JudgeAssumption, RunParts DEF Unregister, TypeOK

\* In its report, and before its first step.
LEMMA CutReportKeeps ==
    ASSUME Inv, NEW r \in Runs, CutReport(r) \/ CutCreated(r), cancel' = cancel \ {r},
           UNCHANGED <<status, lang, posting, files, told, gaveup, outside>>
    PROVE  Inv'
<1>0. /\ \/ run[r] = "report" /\ Goto(r, "cut")
         \/ run[r] = "created" /\ Goto(r, "unborn")
      /\ Unregister(r) /\ UNCHANGED <<res, ctx, req, toClean, calls, strayed, wire>>
  BY DEF CutReport, CutCreated
<1>1. run[r] \in Live /\ {"cut", "unborn"} \subseteq Over
  BY <1>0 DEF Live, Over
<1>2. Local(r) /\ Requested(r) /\ TypeOK /\ CallsStrayed
  BY <1>1, LiveRun
<1>3. /\ RunType' /\ \A q \in Runs \ {r} : run'[q] = run[q]
      /\ \/ run[r] = "report" /\ run'[r] = "cut"
         \/ run[r] = "created" /\ run'[r] = "unborn"
  BY <1>0, <1>1, <1>2, GotoType
<1>4. TypeOK'
  BY <1>0, <1>2, <1>3, UnregisterType DEF TypeOK, RunType
<1>5. Others(r)
  BY <1>0, <1>3 DEF Others
<1>6. toClean[r] = {}
  BY <1>2, <1>3 DEF Requested, Holding
<1>7. Free(Sub(r))'
  BY <1>0, <1>2, <1>3, <1>6 DEF Local, Free, File, Inside, InTry
<1>8. Requested(r)' /\ CallsStrayed'
  BY <1>0, <1>2, <1>3, <1>6 DEF Requested, CallsStrayed
<1> QED
  BY <1>0, <1>1, <1>3, <1>4, <1>5, <1>7, <1>8, RunEnds

\* Where run_judge has still to report the abort: outside the try statement of
\* execute_plan, and in its finally clause.
LEMMA CutOutsideKeeps ==
    ASSUME Inv, NEW r \in Runs, CutOutside(r) \/ CutClean(r), cancel' = cancel \ {r},
           UNCHANGED <<status, lang, posting, files, told, gaveup, outside>>
    PROVE  Inv'
<1>0. /\ run[r] \in {"plan", "quiz", "clean"} /\ Report(r, "aborted")
      /\ UNCHANGED <<byId, byProblem, update, ctx, wire>>
  BY DEF CutOutside, CutClean, registryVars
<1>1. run[r] \in Live /\ "report" \in Live /\ "aborted" \in Results
  BY <1>0 DEF Live, Results
<1>2. Local(r) /\ Requested(r) /\ TypeOK /\ CallsStrayed /\ Sub(r) \in Submissions
  BY <1>1, LiveRun
<1>3. /\ RunType' /\ ResType' /\ ReqType'
      /\ run'[r] = "report" /\ req'[r].kind = "result"
      /\ req'[r].sent = 0 /\ req'[r].left = RequestRetries
      /\ \A q \in Runs \ {r} : run'[q] = run[q] /\ req'[q] = req[q]
  BY <1>0, <1>1, <1>2, ReportType
<1>4. /\ StrayType(r) /\ toClean' \in [Runs -> SUBSET Names] /\ toClean'[r] = {}
      /\ \A q \in Runs \ {r} : toClean'[q] = toClean[q]
      /\ \A f \in toClean[r] : File(r, f) \in strayed'
  <2>1. CASE CutOutside(r)
    <3>1. toClean[r] = {} /\ UNCHANGED <<toClean, calls, strayed>>
      BY <1>2, <2>1 DEF CutOutside, Requested, Holding
    <3> QED
      BY <1>2, <3>1, NothingStrays DEF TypeOK
  <2>2. CASE CutClean(r)
    <3>1. /\ \E f \in toClean[r] : calls' = calls \union {<<Sub(r), f, "delete">>}
          /\ strayed' = strayed \union {File(r, f) : f \in toClean[r]}
          /\ toClean' = [toClean EXCEPT ![r] = {}]
      BY <2>2 DEF CutClean
    <3>2. toClean[r] \in SUBSET Names
      BY <1>2 DEF TypeOK
    <3>3. StrayType(r)
      BY <1>2, <3>1, <3>2, CallStrays
    <3> QED
      BY <1>2, <3>1, <3>3 DEF TypeOK
  <2> QED
    BY <2>1, <2>2
<1>5. TypeOK'
  BY <1>0, <1>2, <1>3, <1>4 DEF TypeOK, RunType, ResType, ReqType, StrayType
<1>6. Others(r)
  BY <1>0, <1>3, <1>4 DEF Others, StrayType
<1>7. Local(r)'
  BY <1>0, <1>2, <1>3, <1>4 DEF Local, Inside, InTry, Using, File, StrayType
<1>8. Requested(r)' /\ CallsStrayed'
  BY <1>0, <1>2, <1>3, <1>4, JudgeAssumption DEF Requested, StrayType
<1> QED
  BY <1>0, <1>1, <1>3, <1>5, <1>6, <1>7, <1>8, RunGoesOn

\* In the try statement.
LEMMA CutTryKeeps ==
    ASSUME Inv, NEW r \in Runs, CutTry(r), cancel' = cancel \ {r},
           UNCHANGED <<status, lang, posting, files, told, gaveup, outside>>
    PROVE  Inv'
<1>0. /\ run[r] \in InTry /\ Goto(r, "settle") /\ NoRequest(r)
      /\ UNCHANGED <<res, ctx, byId, byProblem, update>>
  BY DEF CutTry, registryVars
<1>1. run[r] \in Live /\ "settle" \in Live
  BY <1>0 DEF Live
<1>2. Local(r) /\ Requested(r) /\ TypeOK /\ CallsStrayed /\ Sub(r) \in Submissions
  BY <1>1, LiveRun
<1>3. RunType' /\ run'[r] = "settle" /\ \A q \in Runs \ {r} : run'[q] = run[q]
  BY <1>0, <1>1, <1>2, GotoType
<1>4. ReqType' /\ req'[r] = NoReq /\ \A q \in Runs \ {r} : req'[q] = req[q]
  BY <1>0, <1>2, NoRequestType
<1>5. /\ StrayType(r) /\ toClean' \in [Runs -> SUBSET Names]
      /\ \A q \in Runs \ {r} : toClean'[q] = toClean[q]
      /\ toClean[r] \subseteq toClean'[r]
  <2>1. CASE run[r] = "prepare"
    <3>1. PICK K \in SUBSET Names :
             /\ toClean' = [toClean EXCEPT ![r] = K]
             /\ Stray(r, "code", "copy") \/ UNCHANGED <<calls, strayed>>
      BY <2>1 DEF CutTry
    <3>2. toClean[r] = {}
      BY <1>2, <2>1 DEF Requested, Holding
    <3>3. StrayType(r)
      BY <1>2, <3>1, StrayStrays, NothingStrays DEF Names
    <3> QED
      BY <1>2, <3>1, <3>2, <3>3 DEF TypeOK
  <2>2. CASE run[r] = "compile"
    <3>1. LeaveRunner(r) /\ UNCHANGED toClean
      BY <2>2 DEF CutTry
    <3> QED
      BY <1>2, <3>1, RunnerStrays DEF TypeOK
  <2>3. CASE run[r] \notin {"prepare", "compile"}
    <3>1. UNCHANGED <<toClean, calls, strayed>>
      BY <2>3 DEF CutTry
    <3> QED
      BY <1>2, <3>1, NothingStrays DEF TypeOK
  <2> QED
    BY <2>1, <2>2, <2>3
<1>6. wire' \subseteq Submissions \X {"compiling", "judging"}
  <2>1. req[r] # NoReq => req[r].kind \in {"compiling", "judging"}
    BY <1>0, <1>2 DEF TypeOK, Reqs, Requested, InTry
  <2> QED
    BY <1>2, <2>1 DEF CutTry, TypeOK
<1>7. TypeOK'
  BY <1>0, <1>2, <1>3, <1>4, <1>5, <1>6 DEF TypeOK, RunType, ReqType, StrayType
<1>8. Others(r)
  BY <1>0, <1>3, <1>4, <1>5 DEF Others, StrayType
<1>9. Local(r)'
  BY <1>0, <1>2, <1>3, <1>5 DEF Local, Inside, InTry, Using, File, StrayType
<1>10. Requested(r)' /\ CallsStrayed'
  BY <1>0, <1>2, <1>3, <1>4, <1>5 DEF Requested, Holding, NoReq, StrayType
<1> QED
  BY <1>0, <1>1, <1>3, <1>7, <1>8, <1>9, <1>10, RunGoesOn

LEMMA CancelledKeeps == ASSUME Inv, NEW r \in Runs, Cancelled(r) PROVE Inv'
<1>1. /\ cancel' = cancel \ {r}
      /\ UNCHANGED <<status, lang, posting, files, told, gaveup, outside>>
  BY DEF Cancelled
<1>2. CASE CutReport(r) \/ CutCreated(r)
  BY <1>1, <1>2, CutReportKeeps
<1>3. CASE CutOutside(r) \/ CutClean(r)
  BY <1>1, <1>3, CutOutsideKeeps
<1>4. CASE CutTry(r)
  BY <1>1, <1>4, CutTryKeeps
<1>5. CASE CutSettle(r)
  <2>1. /\ run[r] \in Inside /\ "aborted" \in Results /\ Finally(r, toClean[r], "aborted")
        /\ UNCHANGED <<byId, byProblem, update, calls, strayed, wire>>
    BY <1>5 DEF CutSettle, Inside, Results, registryVars
  <2>2. TypeOK /\ StrayType(r)
    BY <2>1, NothingStrays DEF Inv
  <2> QED
    BY <1>1, <2>1, <2>2, FinallyOnly DEF TypeOK
<1> QED
  BY <1>2, <1>3, <1>4, <1>5 DEF Cancelled

-----------------------------------------------------------------------------
(* The handlers                                                            *)

\* What the invariant is not about.
LEMMA Elsewhere ==
    ASSUME Inv, TypeOK',
           UNCHANGED <<run, byId, byProblem, ctx, req, toClean, files, calls, told, strayed,
                       outside>>
    PROVE  Inv'
  BY DEF Inv, Registered, OlderOver, Owned, Local, Free, Requested, CallsStrayed

\* New runs are numbered behind all others and registered where no run is live.
LEMMA RegisterKeeps ==
    ASSUME Inv, NEW S \in SUBSET Submissions, Register(S),
           status' \in [Submissions -> Statuses], posting' \subseteq Submissions,
           update' \in [1..MaxUpdates -> (SUBSET Submissions) \union {Idle}],
           UNCHANGED <<lang, wire, cancel, res, ctx, req, toClean, files, calls, told, gaveup,
                       strayed, outside>>
    PROVE  Inv'
<1> DEFINE T == {s \in S : byId[s] = 0}
           fresh(q) == Sub(q) \in T /\ q[2] = Fresh(Sub(q))
<1>0. /\ \A s \in T : Fresh(s) <= MaxRuns
      /\ run' = [r \in Runs |-> IF fresh(r) THEN "created" ELSE run[r]]
      /\ byId' = [s \in Submissions |-> IF s \in T THEN Fresh(s) ELSE byId[s]]
      /\ byProblem' = byProblem \union {<<s, Fresh(s)>> : s \in T}
  BY DEF Register, Create
<1>1. \A s \in T : s \in Submissions /\ byId[s] = 0 /\ Fresh(s) \in 1..MaxRuns
  BY <1>0, FreshNumber, JudgeAssumption DEF Inv
<1>2. /\ \A q \in Runs : fresh(q) => run[q] = "new"
      /\ \A q \in Runs : Sub(q) \in T /\ q[2] < Fresh(Sub(q)) => run[q] # "new"
  BY FreshNumber, RunParts DEF Inv
<1>3. \A q \in Runs : Sub(q) \in T => run[q] \notin Live
  BY <1>1, RunParts, JudgeAssumption DEF Inv, Registered
<1>4. \A q \in Runs : q \in byProblem' <=> q \in byProblem \/ fresh(q)
  BY <1>0, <1>1, RunParts
<1> HIDE DEF T, fresh
<1>5. TypeOK'
  <2>1. run' \in [Runs -> Live \union Over \union {"new"}]
    BY <1>0 DEF Inv, TypeOK, Live
  <2>2. byId' \in [Submissions -> 0..MaxRuns]
    BY <1>0, <1>1 DEF Inv, TypeOK
  <2>3. byProblem' \subseteq Runs
    BY <1>0, <1>1, RunParts DEF Inv, TypeOK
  <2> QED
    BY <2>1, <2>2, <2>3 DEF Inv, TypeOK
<1>6. Registered'
  <2> SUFFICES ASSUME NEW q \in Runs
               PROVE  /\ run'[q] \in Live <=> byId'[Sub(q)] = q[2]
                      /\ run'[q] \in Live <=> q \in byProblem'
    BY DEF Registered
  <2>0. /\ run[q] \in Live <=> byId[Sub(q)] = q[2]
        /\ run[q] \in Live <=> q \in byProblem
        /\ Sub(q) \in Submissions
    BY RunParts DEF Inv, Registered
  <2>1. CASE fresh(q)
    <3>1. byId'[Sub(q)] = q[2]
      BY <1>0, <2>0, <2>1 DEF fresh
    <3> QED
      BY <1>0, <1>4, <2>1, <3>1 DEF Live
  <2>2. CASE ~ fresh(q) /\ Sub(q) \in T
    <3>1. byId'[Sub(q)] # q[2]
      BY <1>0, <2>0, <2>2 DEF fresh
    <3> QED
      BY <1>0, <1>3, <1>4, <2>0, <2>2, <3>1
  <2>3. CASE ~ fresh(q) /\ Sub(q) \notin T
    BY <1>0, <1>4, <2>0, <2>3
  <2> QED
    BY <2>1, <2>2, <2>3
<1>7. OlderOver'
  <2> SUFFICES ASSUME NEW q \in Runs, NEW r \in Runs, Sub(q) = Sub(r), q[2] < r[2],
                      run'[r] # "new"
               PROVE  run'[q] \in Over
    BY DEF OlderOver
  <2>1. run[q] \in Over
    <3>1. CASE fresh(r)
      BY <1>2, <1>3, <3>1 DEF Inv, TypeOK, fresh
    <3>2. CASE ~ fresh(r)
      BY <1>0, <3>2 DEF Inv, OlderOver
    <3> QED
      BY <3>1, <3>2
  <2>2. ~ fresh(q)
    BY <1>2, <2>1 DEF Over
  <2> QED
    BY <1>0, <2>1, <2>2
<1>8. ASSUME NEW q \in Runs, run'[q] \in Live PROVE Local(q)'
  <2>1. CASE fresh(q)
    <3>1. Free(Sub(q))
      BY <1>1, <2>1 DEF Inv, Owned, fresh
    <3>2. run'[q] = "created" /\ run[q] = "new" /\ Requested(q)
      BY <1>0, <1>2, <2>1 DEF Inv
    <3>3. toClean[q] = {}
      BY <3>2 DEF Requested, Holding
    <3>4. Sub(q) \in ctx => Sub(q) \in outside
      BY <3>1 DEF Free
    <3>5. \A f \in Names : File(q, f) \in files => File(q, f) \in strayed
      BY <3>1 DEF Free, File
    <3> QED
      BY <3>2, <3>3, <3>4, <3>5 DEF Local, Inside, InTry, Using, File
  <2>2. CASE ~ fresh(q)
    BY <1>0, <1>8, <2>2 DEF Inv, Owned, Local
  <2> QED
    BY <2>1, <2>2
<1>9. ASSUME NEW s \in Submissions, byId'[s] = 0 PROVE Free(s)'
  <2>1. byId[s] = 0
    BY <1>0, <1>1, <1>9
  <2>2. Free(s)
    BY <2>1 DEF Inv, Owned
  <2> QED
    BY <2>2 DEF Free
<1>10. ASSUME NEW q \in Runs PROVE Requested(q)'
  BY <1>0, <1>2 DEF Inv, Requested, Holding
<1> QED
  BY <1>5, <1>6, <1>7, <1>8, <1>9, <1>10 DEF Inv, Owned, CallsStrayed

LEMMA WebStepKeeps == ASSUME Inv, NEW s \in Submissions, WebStep(s) PROVE Inv'
<1> USE DEF webVars, runVars, registryVars, s3Vars, historyVars
<1>0. {"pending", "void", "system_error"} \subseteq Statuses /\ TypeOK
  BY DEF Statuses, InProgress, Inv
<1>1. CASE CreateSubmission(s)
  <2>1. TypeOK'
    BY <1>0, <1>1 DEF CreateSubmission, TypeOK
  <2> QED
    BY <1>1, <2>1, Elsewhere DEF CreateSubmission
<1>2. CASE ScheduleJudge(s)
  <2>1. /\ status' \in [Submissions -> Statuses] /\ posting' \subseteq Submissions
        /\ UNCHANGED <<lang, wire, cancel, res, update, ctx, req, toClean, files, calls, told,
                       gaveup, strayed, outside>>
    BY <1>0, <1>2 DEF ScheduleJudge, TypeOK
  <2>2. CASE Register({s})
    BY <1>0, <2>1, <2>2, RegisterKeeps DEF TypeOK
  <2>3. CASE UNCHANGED <<run, byId, byProblem>>
    <3>1. TypeOK'
      BY <1>0, <2>1, <2>3 DEF TypeOK
    <3> QED
      BY <2>1, <2>3, <3>1, Elsewhere
  <2> QED
    BY <1>2, <2>2, <2>3 DEF ScheduleJudge
<1>3. CASE MarkVoid(s)
  <2>1. TypeOK'
    BY <1>0, <1>3 DEF MarkVoid, TypeOK
  <2> QED
    BY <1>3, <2>1, Elsewhere DEF MarkVoid
<1>4. CASE AbortJudge(s)
  <2>1. <<s, byId[s]>> \in Runs
    BY <1>0, <1>4, RunParts, JudgeAssumption DEF AbortJudge, TypeOK
  <2>2. TypeOK'
    BY <1>0, <1>4, <2>1 DEF AbortJudge, TypeOK
  <2> QED
    BY <1>4, <2>2, Elsewhere DEF AbortJudge
<1> QED
  BY <1>1, <1>2, <1>3, <1>4 DEF WebStep, Submit, Rejudge

LEMMA UpdateKeeps ==
    ASSUME Inv, NEW u \in 1..MaxUpdates, UpdateProblem(u) \/ UpdateDone(u) PROVE Inv'
<1> USE DEF webVars, s3Vars, historyVars
<1>0. TypeOK
  BY DEF Inv
<1>1. CASE UpdateProblem(u)
  <2>1. {Sub(r) : r \in byProblem} \subseteq Submissions
    BY <1>0, RunParts DEF TypeOK
  <2>2. TypeOK'
    BY <1>0, <1>1, <2>1 DEF UpdateProblem, TypeOK
  <2> QED
    BY <1>1, <2>2, Elsewhere DEF UpdateProblem
<1>2. CASE UpdateDone(u)
  <2>1. update[u] \in SUBSET Submissions
    BY <1>0, <1>2 DEF UpdateDone, TypeOK
  <2>2. update' \in [1..MaxUpdates -> (SUBSET Submissions) \union {Idle}]
    BY <1>0, <1>2 DEF UpdateDone, TypeOK
  <2> QED
    BY <1>0, <1>2, <2>1, <2>2, RegisterKeeps DEF UpdateDone, TypeOK
<1> QED
  BY <1>1, <1>2

\* The calls that may be under way when the scheduler stops.
LEMMA UnderWayType ==
    ASSUME TypeOK, NEW r \in Runs PROVE UnderWay(r) \subseteq Calls
<1>1. Sub(r) \in Submissions /\ toClean[r] \in SUBSET Names /\ "code" \in Names
  BY RunParts DEF TypeOK, Names
<1> QED
  BY <1>1 DEF UnderWay, Calls

LEMMA RestartKeeps == ASSUME Inv, SchedulerRestart PROVE Inv'
<1> USE DEF webVars
<1>0. /\ TypeOK /\ \A r \in Runs : run'[r] = IF run[r] \in Live THEN "killed" ELSE run[r]
      /\ \A r \in Runs : req'[r] = NoReq /\ toClean'[r] = {}
      /\ ctx' = {} /\ files' = files
      /\ \A s \in Submissions : byId'[s] = 0
  BY DEF Inv, SchedulerRestart
<1>1. PICK C \in SUBSET UNION {UnderWay(r) : r \in Runs} :
         /\ calls' = calls \union C
         /\ strayed' = strayed \union files \union {<<c[1], c[2]>> : c \in C}
  BY DEF SchedulerRestart
<1>2. C \subseteq Calls
  BY <1>0, <1>1, UnderWayType
<1>3. strayed' \subseteq Submissions \X Names /\ calls' \subseteq Calls
  BY <1>0, <1>1, <1>2 DEF TypeOK, Calls
<1>4. CallsStrayed' /\ files \subseteq strayed'
  BY <1>1 DEF Inv, CallsStrayed
<1>5. TypeOK'
  <2>1. run' \in [Runs -> Live \union Over \union {"new"}]
    BY <1>0 DEF SchedulerRestart, TypeOK, Over
  <2>2. /\ byId' \in [Submissions -> 0..MaxRuns] /\ req' \in [Runs -> Reqs \union {NoReq}]
        /\ toClean' \in [Runs -> SUBSET Names]
    BY JudgeAssumption DEF SchedulerRestart
  <2>3. update' \in [1..MaxUpdates -> (SUBSET Submissions) \union {Idle}]
    BY DEF SchedulerRestart
  <2> QED
    BY <1>0, <1>3, <2>1, <2>2, <2>3 DEF SchedulerRestart, TypeOK
<1>6. \A r \in Runs : run'[r] \notin Live
  BY <1>0 DEF Live, InTry
<1>7. Registered'
  BY <1>0, <1>6, RunParts, JudgeAssumption DEF Registered, SchedulerRestart
<1>8. OlderOver'
  BY <1>0 DEF Inv, OlderOver, Over, Live, InTry
<1>9. Owned'
  BY <1>0, <1>4, <1>6 DEF Owned, Free
<1>10. ASSUME NEW r \in Runs PROVE Requested(r)'
  BY <1>0 DEF Inv, Requested, NoReq, SchedulerRestart
<1> QED
  BY <1>4, <1>5, <1>7, <1>8, <1>9, <1>10 DEF Inv

-----------------------------------------------------------------------------
(* The invariant                                                           *)

LEMMA InvInit == Init => Inv
<1> SUFFICES ASSUME Init PROVE Inv
  OBVIOUS
<1>1. TypeOK
  BY JudgeAssumption DEF Init, TypeOK, Statuses, Langs, Results
<1>2. \A r \in Runs : run[r] = "new" /\ req[r] = NoReq /\ toClean[r] = {} /\ run[r] \notin Live
  BY DEF Init, Live, InTry
<1>3. Registered
  BY <1>2, RunParts, JudgeAssumption DEF Init, Registered
<1>4. OlderOver /\ Owned /\ CallsStrayed
  BY <1>2 DEF Init, OlderOver, Owned, Free, CallsStrayed
<1>5. \A r \in Runs : Requested(r)
  BY <1>2 DEF Requested, NoReq
<1> QED
  BY <1>1, <1>3, <1>4, <1>5 DEF Inv

LEMMA InvStep == Inv /\ [Next]_vars => Inv'
<1> SUFFICES ASSUME Inv, [Next]_vars PROVE Inv'
  OBVIOUS
<1>1. ASSUME NEW r \in Runs, RunStep(r) PROVE Inv'
  BY <1>1, StartKeeps, ReadPlanKeeps, JudgeQuizKeeps, PrepareKeeps, CompileStartedKeeps,
     RunnerUploadsKeeps, CompiledKeeps, JudgedKeeps, SettleKeeps, CleanKeeps, RequestOkKeeps, RequestFailsKeeps,
     RequestGivesUpKeeps, CancelledKeeps
     DEF RunStep, UnwindStep
<1>2. ASSUME NEW s \in Submissions, WebStep(s) PROVE Inv'
  BY <1>2, WebStepKeeps
<1>3. ASSUME NEW w \in wire, LateUpdate(w) PROVE Inv'
  BY <1>3, LateUpdateKeeps
<1>4. ASSUME NEW c \in calls, CallEnds(c) PROVE Inv'
  BY <1>4, CallEndsKeeps
<1>5. ASSUME NEW u \in 1..MaxUpdates, UpdateProblem(u) \/ UpdateDone(u) PROVE Inv'
  BY <1>5, UpdateKeeps
<1>6. CASE SchedulerRestart
  BY <1>6, RestartKeeps
<1>7. CASE UNCHANGED vars
  <2>1. TypeOK'
    BY <1>7 DEF vars, webVars, runVars, registryVars, s3Vars, historyVars, Inv, TypeOK
  <2> QED
    BY <1>7, <2>1, Elsewhere DEF vars, webVars, runVars, registryVars, s3Vars, historyVars
<1> QED
  BY <1>1, <1>2, <1>3, <1>4, <1>5, <1>6, <1>7 DEF Next

\* The invariant holds in every reachable state of the judge service.
THEOREM InvAlways == Spec => []Inv
  BY InvInit, InvStep, PTL DEF Spec

\* Type correctness of the judge service; the numbers of requests in gaveup are
\* bounded because an attempt sent is an attempt fewer left.
THEOREM TypeCorrect == Spec => []TypeOK
<1>1. Inv => TypeOK
  BY DEF Inv
<1> QED
  BY <1>1, InvAlways, PTL

\* judge_tasks_from_submission_id, judge_tasks and the tasks agree: whatever
\* rejudges, aborts, updates and restarts come, a submission has one live run.
THEOREM RegistryAlwaysAgrees == Spec => []RegistryAgrees
<1>1. Inv => RegistryAgrees
  <2> SUFFICES ASSUME Inv, NEW s \in Submissions, NEW n \in 1..MaxRuns
               PROVE  /\ run[<<s, n>>] \in Live <=> byId[s] = n
                      /\ run[<<s, n>>] \in Live <=> <<s, n>> \in byProblem
    BY DEF RegistryAgrees
  <2> DEFINE r == <<s, n>>
  <2>1. r \in Runs /\ Sub(r) = s /\ r[2] = n
    BY RunParts
  <2> HIDE DEF r
  <2>2. /\ run[r] \in Live <=> byId[s] = n
        /\ run[r] \in Live <=> r \in byProblem
    BY <2>1 DEF Inv, Registered
  <2> QED
    BY <2>2 DEF r
<1> QED
  BY <1>1, InvAlways, PTL

\* run_judge does not end without having sent its result, or sending it still.
THEOREM ResultAlwaysSent == Spec => []ResultSent
<1>1. Inv => ResultSent
  BY DEF Inv, Requested, ResultSent
<1> QED
  BY <1>1, InvAlways, PTL

\* A request of an earlier run is on its way only if that run was cancelled
\* while its result was being sent.
THEOREM ResultsAlwaysInOrder == Spec => []ResultsInOrder
<1>1. Inv => ResultsInOrder
  <2> SUFFICES ASSUME Inv, NEW s \in Submissions, NEW m \in 1..MaxRuns, NEW n \in 1..MaxRuns,
                      m < n, run[<<s, n>>] # "new", req[<<s, m>>] # NoReq
               PROVE  run[<<s, m>>] = "cut"
    BY DEF ResultsInOrder
  <2>1. /\ <<s, m>> \in Runs /\ <<s, n>> \in Runs
        /\ run[<<s, m>>] \in Over
    BY RunParts DEF Inv, OlderOver
  <2>2. req[<<s, m>>] \in Reqs /\ Requested(<<s, m>>)
    BY <2>1 DEF Inv, TypeOK
  <2> QED
    BY <2>1, <2>2 DEF Requested, Reqs, Over
<1> QED
  BY <1>1, InvAlways, PTL

\* The code of a submission is in the artifacts bucket while a run compiles or
\* judges it, and the artifact once it is compiled, but for a file with an S3 call
\* that no run waited for.
THEOREM CodeAlwaysAvailable == Spec => []CodeAvailable
<1>1. Inv => CodeAvailable
  <2> SUFFICES ASSUME Inv, NEW r \in Runs, NEW f \in Names, f \in toClean[r], run[r] \in Using(f)
               PROVE  File(r, f) \in files \union strayed
    BY DEF CodeAvailable, Using
  <2>1. run[r] \in Live
    BY DEF Using, Live, InTry
  <2> QED
    BY <2>1, LiveRun DEF Local
<1> QED
  BY <1>1, InvAlways, PTL

\* While a submission has no run, a file of it is in the artifacts bucket only if
\* its removal failed or was not made, or if a call on it went on that no run waited
\* for, the late upload of a runner included.
THEOREM FilesAlwaysRemoved == Spec => []FilesRemoved
<1>1. Inv => FilesRemoved
  BY DEF Inv, Owned, Free, FilesRemoved
<1> QED
  BY <1>1, InvAlways, PTL

\* ctx_from_submission has the context of every run that is in the try statement
\* of execute_plan, and no other but of runs that left before it.
THEOREM ContextsAlwaysExact == Spec => []ContextsExact
<1>1. Inv => ContextsExact
  <2> SUFFICES ASSUME Inv, NEW s \in Submissions
               PROVE  LET inside == byId[s] # 0 /\ run[<<s, byId[s]>>] \in InTry \union {"settle"}
                      IN  /\ inside => s \in ctx
                          /\ s \in ctx => inside \/ s \in outside
    BY DEF ContextsExact
  <2>1. CASE byId[s] = 0
    BY <2>1 DEF Inv, Owned, Free
  <2>2. CASE byId[s] # 0
    <3> DEFINE r == <<s, byId[s]>>
    <3>1. r \in Runs /\ Sub(r) = s /\ run[r] \in Live
      BY <2>2, RunParts, JudgeAssumption DEF Inv, TypeOK, Registered
    <3>2. Local(r)
      BY <3>1, LiveRun
    <3> QED
      BY <2>2, <3>1, <3>2 DEF Local, Inside
  <2> QED
    BY <2>1, <2>2
<1> QED
  BY <1>1, InvAlways, PTL

-----------------------------------------------------------------------------
(* Judge implements Judging                                                *)

\* The stages a run may go through in one step, with the result handed over on
\* the way to the report and at no other time.
Advance(a, b, before, after) ==
    \/ a = b /\ (after <=> before)
    \/ a = "queued" /\ b = "judging" /\ (after <=> before)
    \/ a = "queued" /\ b = "lost" /\ (after <=> before)
    \/ a = "judging" /\ b = "reported" /\ after
    \/ a = "reported" /\ b = "done" /\ (after <=> before)

HandedOver(r) == r \in told \/ req[r].kind = "result"

\* A step of run r, and of no other.
Moved(r) ==
    /\ \A q \in Runs \ {r} : run'[q] = run[q] /\ (HandedOver(q)' <=> HandedOver(q))
    /\ Advance(Stage(run[r]), Stage(run'[r]), HandedOver(r), HandedOver(r)')

\* Where a run is has its stage.
LEMMA Staged ==
    ASSUME NEW where
    PROVE  /\ where = "new" => Stage(where) = "new"
           /\ where = "created" => Stage(where) = "queued"
           /\ where = "report" => Stage(where) = "reported"
           /\ where \in {"ended", "cut"} => Stage(where) = "done"
           /\ where \in {"unborn", "killed"} => Stage(where) = "lost"
           /\ where \in InTry \union {"plan", "quiz", "settle", "clean"} => Stage(where) = "judging"
  BY DEF Stage, InTry

\* A step of one run is a step of Judging, or changes nothing that it is about.
LEMMA MovedIsStep == ASSUME NEW r \in Runs, Moved(r) PROVE [Promise!Next]_(Promise!vars)
<1>1. Runs = Promise!Runs
  BY DEF Runs, Promise!Runs
<1>2. \A q \in Runs : Stages[q] = Stage(run[q]) /\ Stages'[q] = Stage(run'[q])
  BY DEF Stages
<1>3. \A q \in Runs : (q \in Handed <=> HandedOver(q)) /\ (q \in Handed' <=> HandedOver(q)')
  BY DEF Handed, HandedOver
<1>4. Handed \subseteq Runs /\ Handed' \subseteq Runs
  BY DEF Handed
<1>5. DOMAIN Stages = Runs /\ Stages' = [q \in Runs |-> Stages'[q]] /\ Stages = [q \in Runs |-> Stages[q]]
  BY DEF Stages
<1>6. \A q \in Runs \ {r} : Stages'[q] = Stages[q] /\ (q \in Handed' <=> q \in Handed)
  BY <1>2, <1>3 DEF Moved
<1>7. Advance(Stages[r], Stages'[r], r \in Handed, r \in Handed')
  BY <1>2, <1>3 DEF Moved, Advance
<1>8. (r \in Handed' <=> r \in Handed) => Handed' = Handed
  BY <1>4, <1>6
<1>9. r \in Handed' => Handed' = Handed \union {r}
  <2> SUFFICES ASSUME r \in Handed', NEW q PROVE q \in Handed' <=> q \in Handed \union {r}
    OBVIOUS
  <2> QED
    BY <1>4, <1>6
<1>10. Stages' = [Stages EXCEPT ![r] = Stages'[r]]
  BY <1>5, <1>6
<1>11. CASE Stages'[r] = Stages[r] /\ (r \in Handed' <=> r \in Handed)
  <2>1. Stages' = Stages
    BY <1>5, <1>6, <1>11
  <2> QED
    BY <1>8, <1>11, <2>1 DEF Promise!vars
<1>12. CASE Stages[r] = "queued" /\ Stages'[r] = "judging" /\ (r \in Handed' <=> r \in Handed)
  BY <1>1, <1>8, <1>10, <1>12 DEF Promise!Next, Promise!Judge, Promise!Move
<1>13. CASE Stages[r] = "queued" /\ Stages'[r] = "lost" /\ (r \in Handed' <=> r \in Handed)
  BY <1>1, <1>8, <1>10, <1>13 DEF Promise!Next, Promise!Drop, Promise!Move
<1>14. CASE Stages[r] = "judging" /\ Stages'[r] = "reported" /\ r \in Handed'
  BY <1>1, <1>9, <1>10, <1>14 DEF Promise!Next, Promise!HandOver, Promise!Move
<1>15. CASE Stages[r] = "reported" /\ Stages'[r] = "done" /\ (r \in Handed' <=> r \in Handed)
  BY <1>1, <1>8, <1>10, <1>15 DEF Promise!Next, Promise!End, Promise!Move
<1> QED
  BY <1>7, <1>11, <1>12, <1>13, <1>14, <1>15 DEF Advance

\* The run goes on being judged.
LEMMA GoesOnMoves ==
    ASSUME Inv, NEW r \in Runs,
           run[r] \in InTry \union {"plan", "quiz", "settle", "clean"},
           run'[r] \in InTry \union {"plan", "quiz", "settle", "clean"},
           req'[r] = req[r] \/ req'[r].kind # "result",
           r \in told' <=> r \in told,
           \A q \in Runs \ {r} : run'[q] = run[q] /\ req'[q] = req[q] /\ (q \in told' <=> q \in told)
    PROVE  Moved(r)
<1>1. Stage(run[r]) = "judging" /\ Stage(run'[r]) = "judging"
  BY Staged
<1>2. req[r].kind # "result"
  BY DEF Inv, Requested, InTry
<1>3. HandedOver(r)' <=> HandedOver(r)
  BY <1>2 DEF HandedOver
<1>4. \A q \in Runs \ {r} : HandedOver(q)' <=> HandedOver(q)
  BY DEF HandedOver
<1> QED
  BY <1>1, <1>3, <1>4 DEF Moved, Advance

\* The run gets to its report.
LEMMA ReportMoves ==
    ASSUME Inv, NEW r \in Runs, run[r] \in {"plan", "quiz", "clean"},
           NEW result \in Results, Report(r, result), told' = told
    PROVE  Moved(r)
<1>1. /\ run'[r] = "report" /\ req'[r].kind = "result"
      /\ \A q \in Runs \ {r} : run'[q] = run[q] /\ req'[q] = req[q]
  BY ReportType DEF Inv
<1>2. Stage(run[r]) = "judging" /\ Stage(run'[r]) = "reported"
  BY <1>1, Staged
<1>3. HandedOver(r)'
  BY <1>1 DEF HandedOver
<1>4. \A q \in Runs \ {r} : HandedOver(q)' <=> HandedOver(q)
  BY <1>1 DEF HandedOver
<1> QED
  BY <1>1, <1>2, <1>3, <1>4 DEF Moved, Advance

\* The files are still to be removed, or the run gets to its report.
LEMMA RemoveMoves ==
    ASSUME Inv, NEW r \in Runs, run[r] \in InTry \union {"settle", "clean"},
           NEW left \in SUBSET Names, NEW result \in Results, Remove(r, left, result), told' = told
    PROVE  Moved(r)
<1>1. /\ \/ run'[r] = "report" /\ req'[r].kind = "result"
         \/ run'[r] = "clean" /\ req'[r] = NoReq
      /\ \A q \in Runs \ {r} : run'[q] = run[q] /\ req'[q] = req[q]
  BY RemoveType DEF Inv
<1>2. CASE run'[r] = "clean" /\ req'[r] = NoReq
  <2>1. req'[r].kind # "result"
    BY <1>2 DEF NoReq
  <2> QED
    BY <1>1, <1>2, <2>1, GoesOnMoves
<1>3. CASE run'[r] = "report" /\ req'[r].kind = "result"
  <2>1. Stage(run[r]) = "judging" /\ Stage(run'[r]) = "reported"
    BY <1>3, Staged
  <2>2. HandedOver(r)' /\ \A q \in Runs \ {r} : HandedOver(q)' <=> HandedOver(q)
    BY <1>1, <1>3 DEF HandedOver
  <2> QED
    BY <1>1, <2>1, <2>2 DEF Moved, Advance
<1> QED
  BY <1>1, <1>2, <1>3

\* execute_plan is left by its finally clause.
LEMMA FinallyMoves ==
    ASSUME Inv, NEW r \in Runs, run[r] \in InTry \union {"settle"},
           NEW left \in SUBSET Names, NEW result \in Results, Finally(r, left, result), told' = told
    PROVE  Moved(r)
  BY RemoveMoves DEF Finally

\* The steps of run_judge that send nothing.
LEMMA WorkMoves ==
    ASSUME Inv, NEW r \in Runs,
           \/ Start(r) \/ ReadPlan(r) \/ JudgeQuiz(r) \/ Prepare(r) \/ CompileStarted(r)
           \/ RunnerUploads(r) \/ Compiled(r) \/ Judged(r) \/ Settle(r) \/ Clean(r)
    PROVE  Moved(r)
<1> USE DEF webVars, runVars, registryVars, s3Vars, historyVars
<1>0. TypeOK /\ {"error", "verdict", "aborted"} \subseteq Results /\ toClean[r] \in SUBSET Names
  BY DEF Inv, Results, TypeOK
<1>1. CASE Start(r)
  <2>1. run[r] = "created" /\ told' = told /\ req' = req /\ Goto(r, "plan")
    BY <1>1 DEF Start, At
  <2>2. run'[r] = "plan" /\ \A q \in Runs \ {r} : run'[q] = run[q]
    BY <1>0, <2>1, GotoType DEF Live
  <2>3. Stage(run[r]) = "queued" /\ Stage(run'[r]) = "judging"
    BY <2>1, <2>2, Staged
  <2>4. \A q \in Runs : HandedOver(q)' <=> HandedOver(q)
    BY <2>1 DEF HandedOver
  <2> QED
    BY <2>2, <2>3, <2>4 DEF Moved, Advance
<1>2. CASE ReadPlan(r)
  <2>1. run[r] = "plan" /\ told' = told
    BY <1>2 DEF ReadPlan, At
  <2>2. CASE Report(r, "error")
    BY <1>0, <2>1, <2>2, ReportMoves
  <2>3. ASSUME NEW to \in {"quiz", "prepare"}, Goto(r, to), req' = req PROVE Moved(r)
    <3>1. run'[r] = to /\ \A q \in Runs \ {r} : run'[q] = run[q]
      BY <1>0, <2>3, GotoType DEF Live, InTry
    <3> QED
      BY <2>1, <2>3, <3>1, GoesOnMoves DEF InTry
  <2> QED
    BY <1>2, <2>2, <2>3 DEF ReadPlan
<1>3. CASE JudgeQuiz(r)
  <2>1. run[r] = "quiz" /\ told' = told /\ \E result \in {"verdict", "error"} : Report(r, result)
    BY <1>3 DEF JudgeQuiz, At
  <2> QED
    BY <1>0, <2>1, ReportMoves
<1>4. CASE Prepare(r)
  <2>1. run[r] = "prepare" /\ told' = told
    BY <1>4 DEF Prepare, At
  <2>2. ASSUME NEW K \in SUBSET Names, Finally(r, K, "error") PROVE Moved(r)
    BY <1>0, <2>1, <2>2, FinallyMoves DEF InTry
  <2>3. CASE Goto(r, "compile") /\ req' = req
    <3>1. run'[r] = "compile" /\ \A q \in Runs \ {r} : run'[q] = run[q]
      BY <1>0, <2>3, GotoType DEF Live, InTry
    <3> QED
      BY <2>1, <2>3, <3>1, GoesOnMoves DEF InTry
  <2> QED
    BY <1>4, <2>2, <2>3 DEF Prepare
<1>5. CASE CompileStarted(r)
  <2>1. run[r] = "compile" /\ run' = run /\ told' = told /\ Request(r, "compiling")
    BY <1>5 DEF CompileStarted, At
  <2>2. req'[r].kind = "compiling" /\ \A q \in Runs \ {r} : req'[q] = req[q]
    BY <1>0, <2>1, RequestType
  <2> QED
    BY <2>1, <2>2, GoesOnMoves DEF InTry
<1>6. CASE Compiled(r)
  <2>1. run[r] = "compile" /\ told' = told
    BY <1>6 DEF Compiled, At
  <2>2. CASE Goto(r, "announce") /\ Request(r, "judging")
    <3>1. run'[r] = "announce" /\ \A q \in Runs \ {r} : run'[q] = run[q]
      BY <1>0, <2>2, GotoType DEF Live, InTry
    <3>2. req'[r].kind = "judging" /\ \A q \in Runs \ {r} : req'[q] = req[q]
      BY <1>0, <2>2, RequestType
    <3> QED
      BY <2>1, <3>1, <3>2, GoesOnMoves DEF InTry
  <2>3. ASSUME NEW result \in {"error", "aborted"}, Finally(r, toClean[r], result) PROVE Moved(r)
    BY <1>0, <2>1, <2>3, FinallyMoves DEF InTry
  <2> QED
    BY <1>6, <2>2, <2>3 DEF Compiled
<1>7. CASE Judged(r)
  <2>1. run[r] = "judge" /\ told' = told /\ \E result \in {"verdict", "error"} : Finally(r, toClean[r], result)
    BY <1>7 DEF Judged, At
  <2> QED
    BY <1>0, <2>1, FinallyMoves DEF InTry
<1>8. CASE Settle(r)
  <2>1. run[r] = "settle" /\ told' = told /\ Finally(r, toClean[r], "aborted")
    BY <1>8 DEF Settle, At
  <2> QED
    BY <1>0, <2>1, FinallyMoves
<1>9. CASE Clean(r)
  <2>1. run[r] = "clean" /\ told' = told /\ res[r] \in Results
    BY <1>0, <1>9 DEF Clean, At, TypeOK
  <2>2. PICK f \in toClean[r] : Remove(r, toClean[r] \ {f}, res[r])
    BY <1>9 DEF Clean
  <2>3. toClean[r] \ {f} \in SUBSET Names
    BY <1>0
  <2> QED
    BY <2>1, <2>2, <2>3, RemoveMoves
<1>10. CASE RunnerUploads(r)
  <2>1. UNCHANGED <<run, req, told>>
    BY <1>10 DEF RunnerUploads
  <2> QED
    BY <2>1 DEF Moved, Advance, HandedOver
<1> QED
  BY <1>1, <1>2, <1>3, <1>4, <1>5, <1>6, <1>7, <1>8, <1>9, <1>10

\* The request that carried the result is over.
LEMMA EndedMoves ==
    ASSUME Inv, NEW r \in Runs, req[r].kind = "result", Ended(r), told' = told \union {r}
    PROVE  Moved(r)
<1>0. TypeOK
  BY DEF Inv
<1>1. \A q \in Runs \ {r} : req'[q] = req[q]
  BY <1>0, NoRequestType DEF Ended
<1>2. HandedOver(r) /\ HandedOver(r)' /\ \A q \in Runs \ {r} : HandedOver(q)' <=> HandedOver(q)
  BY <1>1 DEF HandedOver
<1>3. CASE Awaited(r)
  <2>1. run'[r] = "ended" /\ \A q \in Runs \ {r} : run'[q] = run[q]
    BY <1>0, <1>3, GotoType DEF Ended, Over
  <2>2. Stage(run[r]) = "reported" /\ Stage(run'[r]) = "done"
    BY <1>3, <2>1, Staged DEF Awaited
  <2> QED
    BY <1>2, <2>1, <2>2 DEF Moved, Advance
<1>4. CASE ~ Awaited(r)
  <2>1. run' = run
    BY <1>4 DEF Ended
  <2> QED
    BY <1>2, <2>1 DEF Moved, Advance
<1> QED
  BY <1>3, <1>4

\* make_request: a request is answered, or fails.
LEMMA RequestMoves ==
    ASSUME Inv, NEW r \in Runs, RequestOk(r) \/ RequestFails(r) \/ RequestGivesUp(r)
    PROVE  Moved(r)
<1>0. TypeOK /\ Requested(r) /\ req[r] \in Reqs
  BY DEF Inv, TypeOK, RequestOk, RequestFails, RequestGivesUp, Sending
<1>1. req[r].kind \in {"compiling", "judging", "result"} /\ req[r] # NoReq
  BY <1>0 DEF Reqs, NoReq
<1>2. CASE RequestOk(r)
  <2>1. told' = told \union (IF req[r].kind = "result" THEN {r} ELSE {})
    BY <1>2 DEF RequestOk, Handle
  <2>2. CASE req[r].kind = "compiling"
    <3>1. NoRequest(r) /\ run' = run /\ run[r] = "compile" /\ told' = told
      BY <1>0, <1>2, <2>1, <2>2 DEF RequestOk, Requested
    <3>2. req'[r] = NoReq /\ \A q \in Runs \ {r} : req'[q] = req[q]
      BY <1>0, <3>1, NoRequestType
    <3> QED
      BY <3>1, <3>2, GoesOnMoves DEF InTry, NoReq
  <2>3. CASE req[r].kind = "judging"
    <3>1. NoRequest(r) /\ Goto(r, "judge") /\ run[r] = "announce" /\ told' = told
      BY <1>0, <1>2, <2>1, <2>3 DEF RequestOk, Requested
    <3>2. req'[r] = NoReq /\ \A q \in Runs \ {r} : req'[q] = req[q]
      BY <1>0, <3>1, NoRequestType
    <3>3. run'[r] = "judge" /\ \A q \in Runs \ {r} : run'[q] = run[q]
      BY <1>0, <3>1, GotoType DEF Live, InTry
    <3> QED
      BY <3>1, <3>2, <3>3, GoesOnMoves DEF InTry, NoReq
  <2>4. CASE req[r].kind = "result"
    <3>1. Ended(r) /\ told' = told \union {r}
      BY <1>2, <2>1, <2>4 DEF RequestOk
    <3> QED
      BY <2>4, <3>1, EndedMoves
  <2> QED
    BY <1>1, <2>2, <2>3, <2>4
<1>3. CASE RequestFails(r)
  <2>1. /\ run' = run /\ \A q \in Runs \ {r} : req'[q] = req[q]
        /\ req'[r].kind = req[r].kind
    BY <1>0, <1>3 DEF RequestFails, runVars, TypeOK, Reqs
  <2>2. told' = told \/ told' = told \union (IF req[r].kind = "result" THEN {r} ELSE {})
    BY <1>3 DEF RequestFails, Handle
  <2>3. \A q \in Runs : HandedOver(q)' <=> HandedOver(q)
    BY <2>1, <2>2 DEF HandedOver
  <2> QED
    BY <2>1, <2>3 DEF Moved, Advance
<1>4. CASE RequestGivesUp(r)
  <2>1. CASE req[r].kind = "result"
    <3>1. Ended(r) /\ told' = told \union {r}
      BY <1>4, <2>1 DEF RequestGivesUp
    <3> QED
      BY <2>1, <3>1, EndedMoves
  <2>2. CASE req[r].kind # "result"
    <3>1. Finally(r, toClean[r], "error") /\ told' = told /\ toClean[r] \in SUBSET Names
      BY <1>0, <1>4, <2>2 DEF RequestGivesUp, TypeOK
    <3>2. run[r] \in InTry
      BY <1>0, <1>1, <2>2 DEF Requested, InTry
    <3> QED
      BY <3>1, <3>2, FinallyMoves DEF Results
  <2> QED
    BY <2>1, <2>2
<1> QED
  BY <1>2, <1>3, <1>4

\* The CancelledError of a run, at whatever await it is.
LEMMA CancelledMoves == ASSUME Inv, NEW r \in Runs, Cancelled(r) PROVE Moved(r)
<1>0. TypeOK /\ told' = told /\ "aborted" \in Results
  BY DEF Inv, Cancelled, Results
<1>1. CASE CutReport(r) \/ CutCreated(r)
  <2>1. req' = req
    BY <1>1 DEF CutReport, CutCreated
  <2>2. \A q \in Runs : HandedOver(q)' <=> HandedOver(q)
    BY <1>0, <2>1 DEF HandedOver
  <2>3. CASE CutReport(r)
    <3>1. run[r] = "report" /\ run'[r] = "cut" /\ \A q \in Runs \ {r} : run'[q] = run[q]
      BY <1>0, <2>3, GotoType DEF CutReport, Over
    <3>2. Stage(run[r]) = "reported" /\ Stage(run'[r]) = "done"
      BY <3>1, Staged
    <3> QED
      BY <2>2, <3>1, <3>2 DEF Moved, Advance
  <2>4. CASE CutCreated(r)
    <3>1. run[r] = "created" /\ run'[r] = "unborn" /\ \A q \in Runs \ {r} : run'[q] = run[q]
      BY <1>0, <2>4, GotoType DEF CutCreated, Over
    <3>2. Stage(run[r]) = "queued" /\ Stage(run'[r]) = "lost"
      BY <3>1, Staged
    <3> QED
      BY <2>2, <3>1, <3>2 DEF Moved, Advance
  <2> QED
    BY <1>1, <2>3, <2>4
<1>2. CASE CutOutside(r) \/ CutClean(r)
  <2>1. run[r] \in {"plan", "quiz", "clean"} /\ Report(r, "aborted")
    BY <1>2 DEF CutOutside, CutClean
  <2> QED
    BY <1>0, <2>1, ReportMoves
<1>3. CASE CutTry(r)
  <2>1. run[r] \in InTry /\ Goto(r, "settle") /\ NoRequest(r)
    BY <1>3 DEF CutTry
  <2>2. run'[r] = "settle" /\ \A q \in Runs \ {r} : run'[q] = run[q]
    BY <1>0, <2>1, GotoType DEF Live
  <2>3. req'[r] = NoReq /\ \A q \in Runs \ {r} : req'[q] = req[q]
    BY <1>0, <2>1, NoRequestType
  <2> QED
    BY <1>0, <2>1, <2>2, <2>3, GoesOnMoves DEF NoReq
<1>4. CASE CutSettle(r)
  BY <1>0, <1>4, FinallyMoves DEF CutSettle, TypeOK
<1> QED
  BY <1>1, <1>2, <1>3, <1>4 DEF Cancelled

\* A step that leaves the runs, their requests and what was told alone.
LEMMA Stays ==
    ASSUME UNCHANGED <<run, req, told>> PROVE [Promise!Next]_(Promise!vars)
  BY DEF Stages, Handed, Promise!vars

\* Runs are registered: all the earlier runs of their submissions are over, none
\* of the later ones has begun.
LEMMA RegisterBegins ==
    ASSUME Inv, NEW S \in SUBSET Submissions, Register(S), UNCHANGED <<req, told>>
    PROVE  [Promise!Next]_(Promise!vars)
<1> DEFINE T == {s \in S : byId[s] = 0}
           B == {r \in Runs : Sub(r) \in T /\ r[2] = Fresh(Sub(r))}
<1>0. Runs = Promise!Runs /\ TypeOK
  BY DEF Runs, Promise!Runs, Inv
<1>1. run' = [r \in Runs |-> IF r \in B THEN "created" ELSE run[r]]
  BY DEF Register, Create
<1>2. \A s \in T : s \in Submissions /\ byId[s] = 0 /\ Fresh(s) \in Nat
  BY FreshNumber DEF Inv
<1>3. \A q \in Runs : Sub(q) \in T => (run[q] # "new" <=> q[2] < Fresh(Sub(q)))
  BY FreshNumber, RunParts DEF Inv
<1>4. \A q \in Runs : Sub(q) \in T => run[q] \notin Live
  BY <1>2, RunParts, JudgeAssumption DEF Inv, Registered
<1>5. \A r \in B : r \in Runs /\ Sub(r) \in T /\ r[2] = Fresh(Sub(r))
  OBVIOUS
<1> HIDE DEF T, B
<1>6. \A q \in Runs : Stages[q] = Stage(run[q])
  BY DEF Stages
<1>7. ASSUME NEW r \in B, NEW q \in Runs, q[1] = r[1]
      PROVE  IF q[2] < r[2] THEN Stages[q] \in Promise!Gone ELSE Stages[q] = "new"
  <2>1. Sub(q) = Sub(r) /\ Sub(q) \in T /\ r[2] = Fresh(Sub(q))
    BY <1>5, <1>7 DEF Sub
  <2>2. CASE q[2] < r[2]
    <3>1. run[q] \in Over
      BY <1>0, <1>3, <1>4, <2>1, <2>2 DEF TypeOK
    <3>2. Stage(run[q]) \in {"done", "lost"}
      BY <3>1, Staged DEF Over
    <3> QED
      BY <1>6, <2>2, <3>2 DEF Promise!Gone
  <2>3. CASE ~ (q[2] < r[2])
    <3>1. run[q] = "new"
      BY <1>3, <2>1, <2>3
    <3> QED
      BY <1>6, <2>3, <3>1, Staged
  <2> QED
    BY <2>2, <2>3
<1>8. Stages' = [r \in Runs |-> IF r \in B THEN "queued" ELSE Stages[r]]
  <2>1. \A r \in Runs : Stage(run'[r]) = IF r \in B THEN "queued" ELSE Stage(run[r])
    BY <1>1, Staged
  <2>2. Stages' = [r \in Runs |-> Stage(run'[r])]
    BY DEF Stages
  <2> QED
    BY <1>6, <2>1, <2>2
<1>9. Handed' = Handed
  BY DEF Handed
<1>10. B \in SUBSET Promise!Runs
  BY <1>0, <1>5
<1>11. Promise!Begin(B)
  BY <1>0, <1>5, <1>7, <1>8, <1>9 DEF Promise!Begin
<1> QED
  BY <1>10, <1>11 DEF Promise!Next

\* The scheduler stops: what is lost are the runs that were live.
LEMMA RestartStops == ASSUME Inv, SchedulerRestart PROVE [Promise!Next]_(Promise!vars)
<1>0. Runs = Promise!Runs /\ TypeOK
  BY DEF Runs, Promise!Runs, Inv
<1>1. /\ \A r \in Runs : run'[r] = IF run[r] \in Live THEN "killed" ELSE run[r]
      /\ \A r \in Runs : req'[r] = NoReq
      /\ told' = told \union {r \in Runs : req[r].kind = "result"}
  BY DEF SchedulerRestart
<1>2. \A r \in Runs : Stages[r] = Stage(run[r])
  BY DEF Stages
<1>3. ASSUME NEW r \in Runs
      PROVE  Stage(run'[r]) = IF Stages[r] \in {"queued", "judging", "reported"} THEN "lost" ELSE Stages[r]
  <2>1. CASE run[r] \in Live
    <3>1. Stage(run[r]) \in {"queued", "judging", "reported"}
      BY <2>1, Staged DEF Live
    <3>2. Stage(run'[r]) = "lost"
      BY <1>1, <2>1, Staged
    <3> QED
      BY <1>2, <3>1, <3>2
  <2>2. CASE run[r] \notin Live
    <3>1. run[r] \in Over \union {"new"}
      BY <1>0, <2>2 DEF TypeOK
    <3>2. Stage(run[r]) \in {"done", "lost", "new"}
      BY <3>1, Staged DEF Over
    <3> QED
      BY <1>1, <1>2, <2>2, <3>2
  <2> QED
    BY <2>1, <2>2
<1>4. Stages' = [r \in Runs |-> IF Stages[r] \in {"queued", "judging", "reported"} THEN "lost" ELSE Stages[r]]
  <2>1. Stages' = [r \in Runs |-> Stage(run'[r])]
    BY DEF Stages
  <2> QED
    BY <1>3, <2>1
<1>5. Handed' = Handed
  BY <1>1 DEF Handed, NoReq
<1>6. Promise!Stop
  BY <1>0, <1>4, <1>5 DEF Promise!Stop
<1> QED
  BY <1>6 DEF Promise!Next

\* The judge service implements Judging: at whatever awaits its runs are cancelled,
\* whatever requests fail and whenever it stops, the runs of a submission come one
\* after the other, and each that has begun hands its result over before it is done.
THEOREM JudgeImplementsJudging == Spec => RunsInOrder
<1>1. Init => Promise!Init
  <2> SUFFICES ASSUME Init PROVE Promise!Init
    OBVIOUS
  <2>0. Runs = Promise!Runs
    BY DEF Runs, Promise!Runs
  <2>1. \A r \in Runs : Stage(run[r]) = "new"
    BY Staged DEF Init
  <2>2. Stages = [r \in Runs |-> "new"]
    BY <2>1 DEF Stages
  <2>3. Handed = {}
    BY DEF Init, Handed, NoReq
  <2> QED
    BY <2>0, <2>2, <2>3 DEF Promise!Init
<1>2. Inv /\ [Next]_vars => [Promise!Next]_(Promise!vars)
  <2> SUFFICES ASSUME Inv, [Next]_vars PROVE [Promise!Next]_(Promise!vars)
    OBVIOUS
  <2> USE DEF webVars, runVars, registryVars, s3Vars, historyVars
  <2>1. ASSUME NEW r \in Runs, RunStep(r) PROVE [Promise!Next]_(Promise!vars)
    <3>1. Moved(r)
      BY <2>1, WorkMoves, RequestMoves, CancelledMoves DEF RunStep, UnwindStep
    <3> QED
      BY <3>1, MovedIsStep
  <2>2. ASSUME NEW s \in Submissions, WebStep(s) PROVE [Promise!Next]_(Promise!vars)
    <3>1. CASE CreateSubmission(s) \/ MarkVoid(s) \/ AbortJudge(s)
      BY <3>1, Stays DEF CreateSubmission, MarkVoid, AbortJudge
    <3>2. CASE ScheduleJudge(s)
      <4>1. UNCHANGED <<req, told>> /\ (Register({s}) \/ run' = run)
        BY <3>2 DEF ScheduleJudge
      <4> QED
        BY <4>1, RegisterBegins, Stays
    <3> QED
      BY <2>2, <3>1, <3>2 DEF WebStep, Submit, Rejudge
  <2>3. ASSUME NEW w \in wire, LateUpdate(w) PROVE [Promise!Next]_(Promise!vars)
    BY <2>3, Stays DEF LateUpdate
  <2>4. ASSUME NEW c \in calls, CallEnds(c) PROVE [Promise!Next]_(Promise!vars)
    BY <2>4, Stays DEF CallEnds
  <2>5. ASSUME NEW u \in 1..MaxUpdates, UpdateProblem(u) \/ UpdateDone(u)
        PROVE  [Promise!Next]_(Promise!vars)
    <3>1. CASE UpdateProblem(u)
      BY <3>1, Stays DEF UpdateProblem
    <3>2. CASE UpdateDone(u)
      <4>1. update[u] \in SUBSET Submissions
        BY <3>2 DEF UpdateDone, Inv, TypeOK
      <4>2. Register(update[u]) /\ UNCHANGED <<req, told>>
        BY <3>2 DEF UpdateDone
      <4> QED
        BY <4>1, <4>2, RegisterBegins
    <3> QED
      BY <2>5, <3>1, <3>2
  <2>6. CASE SchedulerRestart
    BY <2>6, RestartStops
  <2>7. CASE UNCHANGED vars
    BY <2>7, Stays DEF vars
  <2> QED
    BY <2>1, <2>2, <2>3, <2>4, <2>5, <2>6, <2>7 DEF Next
<1> QED
  BY <1>1, <1>2, InvAlways, PTL DEF Spec, RunsInOrder, Promise!Spec

=============================================================================
