------------------------------ MODULE PlanProofs ------------------------------
(***************************************************************************)
(* Proofs about Plan, for every number of testpoints, all their IDs, all   *)
(* problems that parse_testpoints accepts, all answers of the runners and  *)
(* every order the tasks end in: its type invariant, what a verdict says   *)
(* of dependencies, that no task is started twice where tasks form a tree, *)
(* and that a result is replaced only at the end of a run of its own task. *)
(*                                                                         *)
(* First what remove_skipped_testpoints_from_task does (SkippingOutcome):  *)
(* what it removes has a cause, it removes all that waits for the failed   *)
(* testpoints, and changes nothing else.  It calls itself, so this is by   *)
(* induction on how deep the calls may go; DepthSuffices shows that the    *)
(* bound the model puts on them is never met.                              *)
(*                                                                         *)
(* Then the loop of run_judge_tasks.  A testpoint that waits for nothing   *)
(* any more has had its dependency accepted in a task that has ended, and  *)
(* one that was removed has one that failed for good: this is inductive    *)
(* only while no task was started twice (OnceOK), since the second answer  *)
(* of a task may contradict the first.  That the tasks of a tree are       *)
(* started once needs that whatever waits to be looked at was not started  *)
(* and has had the one task it depends on end (TreeOK).                    *)
(***************************************************************************)
EXTENDS Plan, FiniteSetTheorems, WellFoundedInduction, TLAPS

\* Every nonempty set of naturals has a least element.
LEMMA LeastNatural ==
    ASSUME NEW S \in SUBSET Nat, S # {}
    PROVE  \E n \in S : \A m \in S : n <= m
<1> DEFINE R == OpToRel(<, Nat)
<1>1. IsWellFoundedOn(R, Nat)
  BY NatLessThanWellFounded
<1>2. \A m, n \in Nat : m < n => <<m, n>> \in R
  BY DEF OpToRel
<1> HIDE DEF R
<1>3. PICK n \in S : \A m \in S : ~(<<m, n>> \in R)
  BY <1>1, WFMin
<1>4. ASSUME NEW m \in S PROVE n <= m
  <2>1. m \in Nat /\ n \in Nat
    OBVIOUS
  <2>2. ~(m < n)
    BY <1>2, <1>3, <2>1, Zenon
  <2> QED
    BY <2>1, <2>2
<1> QED
  BY <1>4

\* Induction, with a set in place of a predicate.
LEMMA NaturalSteps ==
    ASSUME NEW S, 0 \in S, \A n \in Nat : n \in S => n + 1 \in S
    PROVE  \A n \in Nat : n \in S
<1> DEFINE T == {n \in Nat : n \notin S}
<1> SUFFICES ASSUME T # {} PROVE FALSE
  OBVIOUS
<1>1. T \in SUBSET Nat
  OBVIOUS
<1>2. PICK n \in T : \A m \in T : n <= m
  BY <1>1, LeastNatural
<1>3. n \in Nat /\ n \notin S
  BY <1>2
<1>4. n # 0 /\ n - 1 \in Nat
  BY <1>3
<1>5. n - 1 \notin T
  BY <1>2, <1>3, <1>4
<1>6. n - 1 \in S
  BY <1>4, <1>5
<1>7. (n - 1) + 1 \in S
  BY <1>4, <1>6
<1> QED
  BY <1>3, <1>7

-----------------------------------------------------------------------------
(* One pass over the testpoints of a task                                  *)

\* Testpoints are positions, and `Unsatisfied` is none of them.
LEMMA Positions == Len(Ids) \in Nat /\ Points = 1..Len(Ids) /\ Unsatisfied = Len(Ids) + 1
  BY PlanAssumption DEF Points, Unsatisfied

\* What a pass has removed up to testpoint n, from what it had removed before.
PassOn(st, S, unaccepted, before, n) ==
    IF n = 0 THEN {}
    ELSE IF n \in S /\ st.depOn[n] \in unaccepted \union before THEN before \union {n} ELSE before

Pass(g, k, st, S, unaccepted) == g = [n \in 0..k |-> PassOn(st, S, unaccepted, g[n - 1], n)]

\* The passes are well defined, by induction on how far they go.
LEMMA PassExists ==
    ASSUME NEW st, NEW S, NEW unaccepted
    PROVE  \A k \in Nat : \E g : Pass(g, k, st, S, unaccepted)
<1> DEFINE T == {k \in Nat : \E g : Pass(g, k, st, S, unaccepted)}
<1>1. 0 \in T
  <2> DEFINE g == [n \in 0..0 |-> {}]
  <2>1. \A n \in 0..0 : g[n] = PassOn(st, S, unaccepted, g[n - 1], n)
    BY DEF PassOn
  <2>2. g = [n \in 0..0 |-> g[n]]
    OBVIOUS
  <2> HIDE DEF g
  <2>3. Pass(g, 0, st, S, unaccepted)
    BY <2>1, <2>2 DEF Pass
  <2> QED
    BY <2>3
<1>2. ASSUME NEW k \in Nat, k \in T PROVE k + 1 \in T
  <2>1. PICK g : Pass(g, k, st, S, unaccepted)
    BY <1>2
  <2>2. g = [n \in 0..k |-> PassOn(st, S, unaccepted, g[n - 1], n)]
    BY <2>1 DEF Pass
  <2> DEFINE h == [n \in 0..(k + 1) |-> IF n = k + 1 THEN PassOn(st, S, unaccepted, g[k], n) ELSE g[n]]
  <2>3. ASSUME NEW n \in 0..(k + 1) PROVE h[n] = PassOn(st, S, unaccepted, h[n - 1], n)
    <3>1. CASE n = 0
      BY <2>2, <3>1 DEF PassOn
    <3>2. CASE n \in 1..k
      <4>1. h[n] = g[n] /\ h[n - 1] = g[n - 1] /\ n \in 0..k
        BY <3>2
      <4> QED
        BY <2>2, <4>1
    <3>3. CASE n = k + 1
      <4>1. h[n] = PassOn(st, S, unaccepted, g[k], n) /\ h[n - 1] = g[k]
        BY <3>3
      <4> QED
        BY <4>1
    <3> QED
      BY <3>1, <3>2, <3>3
  <2>4. h = [n \in 0..(k + 1) |-> h[n]]
    OBVIOUS
  <2> HIDE DEF h
  <2>5. Pass(h, k + 1, st, S, unaccepted)
    BY <2>3, <2>4 DEF Pass
  <2> QED
    BY <2>5
<1> HIDE DEF T
<1>3. \A k \in Nat : k \in T
  BY <1>1, <1>2, NaturalSteps
<1> QED
  BY <1>3 DEF T

\* Removed is what a pass has removed at its end.
LEMMA RemovedPass ==
    ASSUME NEW st, NEW S, NEW unaccepted
    PROVE  \E g : Pass(g, Len(Ids), st, S, unaccepted) /\ Removed(st, S, unaccepted) = g[Len(Ids)]
<1> DEFINE g == CHOOSE g : Pass(g, Len(Ids), st, S, unaccepted)
<1>1. Pass(g, Len(Ids), st, S, unaccepted)
  BY PassExists, Positions
<1>2. Removed(st, S, unaccepted) = g[Len(Ids)]
  BY DEF Removed, Pass, PassOn
<1> HIDE DEF g
<1> QED
  BY <1>1, <1>2

\* What a pass removes: all that depends on an unaccepted testpoint, and nothing
\* without such a cause.
LEMMA RemovedFacts ==
    ASSUME NEW st, NEW S \in SUBSET Points, NEW unaccepted
    PROVE  /\ Removed(st, S, unaccepted) \subseteq S
           /\ \A i \in S : st.depOn[i] \in unaccepted => i \in Removed(st, S, unaccepted)
           /\ \A i \in Removed(st, S, unaccepted) :
                 st.depOn[i] \in unaccepted \union Removed(st, S, unaccepted)
           /\ \A C : (\A i \in S : st.depOn[i] \in unaccepted \union C => i \in C) =>
                 Removed(st, S, unaccepted) \subseteq C
<1> DEFINE N == Len(Ids)
<1>1. PICK g : Pass(g, N, st, S, unaccepted) /\ Removed(st, S, unaccepted) = g[N]
  BY RemovedPass
<1>2. N \in Nat /\ Points = 1..N
  BY Positions
<1> HIDE DEF N
<1>3. \A n \in 0..N : g[n] = PassOn(st, S, unaccepted, g[n - 1], n)
  BY <1>1 DEF Pass
<1>4. g[0] = {}
  <2>1. 0 \in 0..N
    BY <1>2
  <2>2. PassOn(st, S, unaccepted, g[0 - 1], 0) = {}
    BY DEF PassOn
  <2> QED
    BY <1>3, <2>1, <2>2
<1>5. \A n \in Nat : n + 1 <= N =>
         g[n + 1] = IF n + 1 \in S /\ st.depOn[n + 1] \in unaccepted \union g[n]
                    THEN g[n] \union {n + 1} ELSE g[n]
  <2> SUFFICES ASSUME NEW n \in Nat, n + 1 <= N
               PROVE  g[n + 1] = IF n + 1 \in S /\ st.depOn[n + 1] \in unaccepted \union g[n]
                                 THEN g[n] \union {n + 1} ELSE g[n]
    OBVIOUS
  <2>1. n + 1 \in 0..N /\ n + 1 # 0 /\ (n + 1) - 1 = n
    BY <1>2
  <2> QED
    BY <1>3, <2>1 DEF PassOn
<1>6. g[N] \subseteq S
  <2> DEFINE T == {n \in Nat : n <= N => g[n] \subseteq S}
  <2>1. 0 \in T
    BY <1>4
  <2>2. ASSUME NEW n \in Nat, n \in T PROVE n + 1 \in T
    <3> SUFFICES ASSUME n + 1 <= N
                 PROVE  g[n + 1] \subseteq S
      OBVIOUS
    <3>1. n <= N
      BY <1>2
    <3> QED
      BY <1>5, <2>2, <3>1
  <2> HIDE DEF T
  <2>3. N \in T
    BY <1>2, <2>1, <2>2, NaturalSteps
  <2> QED
    BY <1>2, <2>3 DEF T
<1>7. \A i \in S : st.depOn[i] \in unaccepted => i \in g[N]
  <2> DEFINE T == {n \in Nat : n <= N => \A i \in S : i <= n /\ st.depOn[i] \in unaccepted => i \in g[n]}
  <2>1. 0 \in T
    BY <1>2
  <2>2. ASSUME NEW n \in Nat, n \in T PROVE n + 1 \in T
    <3> SUFFICES ASSUME n + 1 <= N, NEW i \in S, i <= n + 1, st.depOn[i] \in unaccepted
                 PROVE  i \in g[n + 1]
      OBVIOUS
    <3>1. i \in Nat /\ n <= N
      BY <1>2
    <3>2. CASE i = n + 1
      BY <1>5, <3>2
    <3>3. CASE i <= n
      <4>1. i \in g[n]
        BY <2>2, <3>1, <3>3
      <4> QED
        BY <1>5, <4>1
    <3> QED
      BY <3>1, <3>2, <3>3
  <2> HIDE DEF T
  <2>3. N \in T
    BY <1>2, <2>1, <2>2, NaturalSteps
  <2> QED
    BY <1>2, <2>3 DEF T
<1>8. \A i \in g[N] : st.depOn[i] \in unaccepted \union g[N]
  <2> DEFINE T == {n \in Nat : n <= N => \A i \in g[n] : st.depOn[i] \in unaccepted \union g[n]}
  <2>1. 0 \in T
    BY <1>4
  <2>2. ASSUME NEW n \in Nat, n \in T PROVE n + 1 \in T
    <3> SUFFICES ASSUME n + 1 <= N
                 PROVE  \A i \in g[n + 1] : st.depOn[i] \in unaccepted \union g[n + 1]
      OBVIOUS
    <3>1. n <= N
      BY <1>2
    <3> QED
      BY <1>5, <2>2, <3>1
  <2> HIDE DEF T
  <2>3. N \in T
    BY <1>2, <2>1, <2>2, NaturalSteps
  <2> QED
    BY <1>2, <2>3 DEF T
<1>9. ASSUME NEW C, \A i \in S : st.depOn[i] \in unaccepted \union C => i \in C
      PROVE  g[N] \subseteq C
  <2> DEFINE T == {n \in Nat : n <= N => g[n] \subseteq C}
  <2>1. 0 \in T
    BY <1>4
  <2>2. ASSUME NEW n \in Nat, n \in T PROVE n + 1 \in T
    <3> SUFFICES ASSUME n + 1 <= N
                 PROVE  g[n + 1] \subseteq C
      OBVIOUS
    <3>1. n <= N
      BY <1>2
    <3> QED
      BY <1>5, <1>9, <2>2, <3>1
  <2> HIDE DEF T
  <2>3. N \in T
    BY <1>2, <2>1, <2>2, NaturalSteps
  <2> QED
    BY <1>2, <2>3 DEF T
<1> QED
  BY <1>1, <1>6, <1>7, <1>8, <1>9

-----------------------------------------------------------------------------
(* What skipping does to the records                                       *)

\* The plan has a task for every testpoint.
PlanTyped ==
    /\ task \in [Points -> Points]
    /\ dependents \in [Tasks -> SUBSET Tasks]

\* Every task has only testpoints of its plan left.
Sound(st) == st \in State /\ \A t \in Tasks : st.left[t] \subseteq Members(t)

Has(st, i) == i \in st.left[task[i]]
Gone(st, out) == {i \in Points : Has(st, i) /\ ~Has(out, i)}

\* `out` is `st` without testpoints that had to go because of the unaccepted
\* ones; they are skipped.  Nothing else changes, but that accepted testpoints are
\* depended on no more.
Effect(st, out, accepted, unaccepted) ==
    /\ \A t \in Tasks : out.left[t] \subseteq st.left[t]
    /\ \A i \in Points \ Gone(st, out) :
          /\ out.results[i] = st.results[i]
          /\ out.depOn[i] = st.depOn[i] \/ (out.depOn[i] = 0 /\ st.depOn[i] \in accepted)
    /\ \A i \in Gone(st, out) :
          /\ out.results[i] = "skipped"
          /\ out.depOn[i] = Unsatisfied
          /\ st.depOn[i] \in unaccepted \union Gone(st, out)
    /\ \A C \in SUBSET Points :
          (\A i \in Points : Has(st, i) /\ st.depOn[i] \in unaccepted \union C => i \in C) =>
              Gone(st, out) \subseteq C

\* Every testpoint is in its task.
LEMMA TaskIn == PlanTyped => \A i \in Points : task[i] \in Tasks /\ i \in Members(task[i])
  BY DEF PlanTyped, Tasks, Members

\* A task has a number that a testpoint has too: there are finitely many.
LEMMA TasksArePoints == PlanTyped => Tasks \subseteq Points
  BY DEF PlanTyped, Tasks

\* The fields of a state have their types.
LEMMA StateTyped ==
    ASSUME NEW st \in State
    PROVE  /\ st.left \in [Tasks -> SUBSET Points]
           /\ st.depOn \in [Points -> 0..Unsatisfied]
           /\ st.results \in [Points -> Result]
  BY DEF State

\* What is left of tasks is told by Has.
LEMMA HasLeft ==
    ASSUME PlanTyped, NEW st, Sound(st), NEW t \in Tasks, NEW i
    PROVE  i \in st.left[t] <=> i \in Points /\ task[i] = t /\ Has(st, i)
<1>1. st.left \in [Tasks -> SUBSET Points]
  BY StateTyped DEF Sound
<1> QED
  BY <1>1 DEF Sound, Has, Members

\* What changes nothing is an effect.
LEMMA NothingGone ==
    ASSUME NEW st, NEW accepted, NEW unaccepted
    PROVE  Effect(st, st, accepted, unaccepted)
  BY DEF Effect, Gone

\* A task without some of its testpoints is still a sound state.
LEMMA DroppedTyped ==
    ASSUME PlanTyped, NEW st \in State, NEW t \in Tasks, NEW accepted, NEW gone \in SUBSET Points
    PROVE  /\ Dropped(st, t, accepted, gone) \in State
           /\ Sound(st) => Sound(Dropped(st, t, accepted, gone))
<1> DEFINE d == Dropped(st, t, accepted, gone)
<1>1. /\ st.left \in [Tasks -> SUBSET Points]
      /\ st.depOn \in [Points -> 0..Unsatisfied]
      /\ st.results \in [Points -> Result]
  BY StateTyped
<1>2. [st.left EXCEPT ![t] = @ \ gone] \in [Tasks -> SUBSET Points]
  BY <1>1
<1>3. \A i \in Points : st.depOn[i] \in 0..Unsatisfied
  BY <1>1
<1>4. 0 \in 0..Unsatisfied /\ Unsatisfied \in 0..Unsatisfied
  BY Positions
<1>5. [i \in Points |->
         IF i \in gone THEN Unsatisfied
         ELSE IF i \in st.left[t] /\ st.depOn[i] \in accepted THEN 0 ELSE st.depOn[i]]
      \in [Points -> 0..Unsatisfied]
  BY <1>3, <1>4
<1>6. [i \in Points |-> IF i \in gone THEN "skipped" ELSE st.results[i]] \in [Points -> Result]
  BY <1>1 DEF Result, Final
<1>7. d \in State
  BY <1>2, <1>5, <1>6 DEF Dropped, State
<1>8. \A u \in Tasks : d.left[u] \subseteq st.left[u]
  BY <1>1 DEF Dropped
<1> QED
  BY <1>7, <1>8 DEF Sound

\* The pass over one task.
LEMMA DroppedEffect ==
    ASSUME PlanTyped, NEW st, Sound(st), NEW t \in Tasks, NEW accepted,
           NEW unaccepted \in SUBSET Points, NEW gone, gone = Removed(st, st.left[t], unaccepted)
    PROVE  /\ gone \in SUBSET Points
           /\ Gone(st, Dropped(st, t, accepted, gone)) = gone
           /\ Effect(st, Dropped(st, t, accepted, gone), accepted, unaccepted)
<1> DEFINE d == Dropped(st, t, accepted, gone)
<1>0. st \in State
  BY DEF Sound
<1>1. /\ st.left \in [Tasks -> SUBSET Points]
      /\ st.depOn \in [Points -> 0..Unsatisfied]
      /\ st.results \in [Points -> Result]
  BY <1>0, StateTyped
<1>2. st.left[t] \in SUBSET Points
  BY <1>1
<1>3. /\ gone \subseteq st.left[t]
      /\ \A i \in gone : st.depOn[i] \in unaccepted \union gone
      /\ \A C : (\A i \in st.left[t] : st.depOn[i] \in unaccepted \union C => i \in C) => gone \subseteq C
  <2> DEFINE S == st.left[t]
  <2>1. S \in SUBSET Points /\ gone = Removed(st, S, unaccepted)
    BY <1>2
  <2> HIDE DEF S
  <2>2. /\ gone \subseteq S
        /\ \A i \in gone : st.depOn[i] \in unaccepted \union gone
        /\ \A C : (\A i \in S : st.depOn[i] \in unaccepted \union C => i \in C) => gone \subseteq C
    BY <2>1, RemovedFacts, ZenonT(60)
  <2> QED
    BY <2>2, Zenon DEF S
<1>4. gone \in SUBSET Points
  BY <1>2, <1>3
<1>5. /\ d.left = [st.left EXCEPT ![t] = @ \ gone]
      /\ d.depOn = [i \in Points |->
            IF i \in gone THEN Unsatisfied
            ELSE IF i \in st.left[t] /\ st.depOn[i] \in accepted THEN 0 ELSE st.depOn[i]]
      /\ d.results = [i \in Points |-> IF i \in gone THEN "skipped" ELSE st.results[i]]
  BY DEF Dropped
<1> HIDE DEF d
<1>6. \A u \in Tasks : d.left[u] = IF u = t THEN st.left[u] \ gone ELSE st.left[u]
  BY <1>1, <1>5
<1>7. \A i \in st.left[t] : task[i] = t /\ Has(st, i)
  BY HasLeft
<1>8. Gone(st, d) = gone
  <2>1. ASSUME NEW i \in gone PROVE i \in Gone(st, d)
    <3>1. i \in Points /\ i \in st.left[t] /\ task[i] = t /\ Has(st, i)
      BY <1>3, <1>4, <1>7
    <3>2. i \notin d.left[task[i]]
      BY <1>6, <3>1
    <3> QED
      BY <3>1, <3>2 DEF Gone, Has
  <2>2. ASSUME NEW i \in Gone(st, d) PROVE i \in gone
    <3>1. i \in Points /\ i \in st.left[task[i]] /\ i \notin d.left[task[i]]
      BY <2>2 DEF Gone, Has
    <3>2. task[i] \in Tasks
      BY <3>1, TaskIn
    <3> QED
      BY <1>6, <3>1, <3>2
  <2> QED
    BY <2>1, <2>2
<1>9. \A u \in Tasks : d.left[u] \subseteq st.left[u]
  BY <1>6
<1>10. \A i \in Points \ gone :
          /\ d.results[i] = st.results[i]
          /\ d.depOn[i] = st.depOn[i] \/ (d.depOn[i] = 0 /\ st.depOn[i] \in accepted)
  BY <1>5
<1>11. \A i \in gone :
          /\ d.results[i] = "skipped"
          /\ d.depOn[i] = Unsatisfied
          /\ st.depOn[i] \in unaccepted \union gone
  BY <1>3, <1>4, <1>5
<1>12. ASSUME NEW C \in SUBSET Points,
              \A i \in Points : Has(st, i) /\ st.depOn[i] \in unaccepted \union C => i \in C
       PROVE  gone \subseteq C
  BY <1>2, <1>3, <1>7, <1>12
<1>13. Effect(st, d, accepted, unaccepted)
  BY <1>8, <1>9, <1>10, <1>11, <1>12 DEF Effect
<1> QED
  BY <1>4, <1>8, <1>13 DEF d

\* One effect after the other is one effect, when the second has no other cause
\* than the first, or what the first removed.
LEMMA EffectsCompose ==
    ASSUME PlanTyped, NEW s1, NEW s2, NEW s3, Sound(s1), Sound(s2), Sound(s3),
           NEW A \in SUBSET Points, NEW U \in SUBSET Points,
           NEW a \in SUBSET A, NEW u \in SUBSET Points, u \subseteq U \union Gone(s1, s2),
           Effect(s1, s2, A, U), Effect(s2, s3, a, u)
    PROVE  /\ Gone(s1, s3) = Gone(s1, s2) \union Gone(s2, s3)
           /\ Effect(s1, s3, A, U)
<1> DEFINE G1 == Gone(s1, s2)
           G2 == Gone(s2, s3)
           G == Gone(s1, s3)
<1>1. \A t \in Tasks : s2.left[t] \subseteq s1.left[t] /\ s3.left[t] \subseteq s2.left[t]
  BY DEF Effect
<1>2. \A i \in Points : (Has(s2, i) => Has(s1, i)) /\ (Has(s3, i) => Has(s2, i))
  BY <1>1, TaskIn DEF Has
<1>3. G = G1 \union G2
  BY <1>2 DEF Gone
<1>4. \A i \in Points \ G1 :
         /\ s2.results[i] = s1.results[i]
         /\ s2.depOn[i] = s1.depOn[i] \/ (s2.depOn[i] = 0 /\ s1.depOn[i] \in A)
  BY DEF Effect
<1>5. \A i \in Points \ G2 :
         /\ s3.results[i] = s2.results[i]
         /\ s3.depOn[i] = s2.depOn[i] \/ (s3.depOn[i] = 0 /\ s2.depOn[i] \in a)
  BY DEF Effect
<1>6. \A i \in G1 : s2.results[i] = "skipped" /\ s2.depOn[i] = Unsatisfied /\ s1.depOn[i] \in U \union G1
  BY DEF Effect
<1>7. \A i \in G2 : s3.results[i] = "skipped" /\ s3.depOn[i] = Unsatisfied /\ s2.depOn[i] \in u \union G2
  BY DEF Effect
<1>8. G1 \subseteq Points /\ G2 \subseteq Points /\ G1 \cap G2 = {}
  BY DEF Gone
<1>9. 0 \notin Points /\ Unsatisfied \notin Points
  BY Positions
<1>10. \A C \in SUBSET Points :
          (\A i \in Points : Has(s1, i) /\ s1.depOn[i] \in U \union C => i \in C) => G1 \subseteq C
  BY DEF Effect
<1>11. \A C \in SUBSET Points :
          (\A i \in Points : Has(s2, i) /\ s2.depOn[i] \in u \union C => i \in C) => G2 \subseteq C
  BY DEF Effect
<1>12. \A i \in Points : Has(s2, i) => i \notin G1
  BY DEF Gone
<1> HIDE DEF G1, G2, G
<1>13. \A t \in Tasks : s3.left[t] \subseteq s1.left[t]
  BY <1>1
<1>14. ASSUME NEW i \in Points \ G
       PROVE  /\ s3.results[i] = s1.results[i]
              /\ s3.depOn[i] = s1.depOn[i] \/ (s3.depOn[i] = 0 /\ s1.depOn[i] \in A)
  <2>1. i \in Points \ G1 /\ i \in Points \ G2
    BY <1>3
  <2>2. s3.results[i] = s1.results[i]
    BY <1>4, <1>5, <2>1
  <2>3. CASE s2.depOn[i] = s1.depOn[i]
    BY <1>5, <2>1, <2>2, <2>3
  <2>4. CASE s2.depOn[i] = 0 /\ s1.depOn[i] \in A
    <3>1. s2.depOn[i] \notin a
      BY <1>9, <2>4
    <3> QED
      BY <1>5, <2>1, <2>2, <2>4, <3>1
  <2> QED
    BY <1>4, <2>1, <2>3, <2>4
<1>15. ASSUME NEW i \in G
       PROVE  s3.results[i] = "skipped" /\ s3.depOn[i] = Unsatisfied /\ s1.depOn[i] \in U \union G
  <2>1. CASE i \in G1
    <3>1. i \in Points \ G2
      BY <1>8, <2>1
    <3>2. s2.depOn[i] \notin a
      BY <1>6, <1>9, <2>1
    <3> QED
      BY <1>3, <1>5, <1>6, <2>1, <3>1, <3>2
  <2>2. CASE i \in G2
    <3>1. i \in Points \ G1
      BY <1>8, <2>2
    <3>2. s2.depOn[i] \in u \union G2
      BY <1>7, <2>2
    <3>3. s2.depOn[i] # 0
      BY <1>8, <1>9, <3>2
    <3>4. s2.depOn[i] = s1.depOn[i]
      BY <1>4, <3>1, <3>3
    <3>5. s1.depOn[i] \in U \union G
      BY <1>3, <3>2, <3>4 DEF G1
    <3> QED
      BY <1>7, <2>2, <3>5
  <2> QED
    BY <1>3, <2>1, <2>2
<1>16. ASSUME NEW C \in SUBSET Points,
              \A i \in Points : Has(s1, i) /\ s1.depOn[i] \in U \union C => i \in C
       PROVE  G \subseteq C
  <2>1. G1 \subseteq C
    BY <1>10, <1>16
  <2>2. ASSUME NEW i \in Points, Has(s2, i), s2.depOn[i] \in u \union C PROVE i \in C
    <3>1. s2.depOn[i] # 0
      BY <1>9, <2>2
    <3>2. s2.depOn[i] = s1.depOn[i]
      BY <1>4, <1>12, <2>2, <3>1
    <3>3. s1.depOn[i] \in U \union C
      BY <2>1, <2>2, <3>2 DEF G1
    <3> QED
      BY <1>2, <1>16, <2>2, <3>3
  <2>3. G2 \subseteq C
    BY <1>11, <2>2
  <2> QED
    BY <1>3, <2>1, <2>3
<1>17. Effect(s1, s3, A, U)
  BY <1>13, <1>14, <1>15, <1>16 DEF Effect, G
<1> QED
  BY <1>3, <1>17 DEF G, G1, G2

-----------------------------------------------------------------------------
(* The calls of remove_skipped_testpoints_from_task                        *)

\* The parts of FirstAndRest.
First(c) == Min(c.todo)
GoneAt(c) == Removed(c.st, c.st.left[First(c)], c.unaccepted)
Here(c) == Dropped(c.st, First(c), c.accepted, GoneAt(c))
BelowCall(c) == CallOn(Here(c), dependents[First(c)], {}, GoneAt(c), c.depth - 1)
Below(c, f) == IF GoneAt(c) = {} THEN Here(c) ELSE f[BelowCall(c)]
RestCall(c, f) ==
    CallOn(Below(c, f), c.todo \ {First(c)}, c.accepted, c.unaccepted \union GoneAt(c), c.depth - 1)

CallBody(c, f) == IF c.todo = {} \/ c.depth = 0 THEN c.st ELSE FirstAndRest(c, f)
Calls(f) == f = [c \in Call |-> CallBody(c, f)]

\* FirstAndRest is the last call it makes.
LEMMA FirstAndRestParts == \A c, f : FirstAndRest(c, f) = f[RestCall(c, f)]
  BY DEF FirstAndRest, RestCall, Below, BelowCall, Here, GoneAt, First

\* The fields of a call have their types, and make a call.
LEMMA CallTyped ==
    ASSUME NEW c \in Call
    PROVE  /\ c.depth \in 0..Depth
           /\ c.st \in State
           /\ c.todo \in SUBSET Tasks
           /\ c.accepted \in SUBSET Points
           /\ c.unaccepted \in SUBSET Points
  BY DEF Call

LEMMA CallOnTyped ==
    ASSUME NEW st \in State, NEW todo \in SUBSET Tasks, NEW accepted \in SUBSET Points,
           NEW unaccepted \in SUBSET Points, NEW depth \in 0..Depth
    PROVE  CallOn(st, todo, accepted, unaccepted, depth) \in Call
  BY DEF Call, CallOn

\* CallOn has the fields it was given.
LEMMA CallOnParts ==
    \A st, todo, accepted, unaccepted, depth :
        LET c == CallOn(st, todo, accepted, unaccepted, depth)
        IN  /\ c.st = st /\ c.todo = todo /\ c.accepted = accepted
            /\ c.unaccepted = unaccepted /\ c.depth = depth
  BY DEF CallOn

LEMMA DepthNat == Depth \in Nat
  BY Positions DEF Depth

\* The first task of a call is one of its tasks.
LEMMA FirstTyped ==
    ASSUME PlanTyped, NEW c \in Call, c.todo # {}
    PROVE  First(c) \in c.todo /\ First(c) \in Tasks
<1>1. c.todo \in SUBSET Tasks
  BY CallTyped
<1>2. c.todo \in SUBSET Nat
  BY <1>1, TasksArePoints, Positions
<1>3. \E n \in c.todo : \A m \in c.todo : n <= m
  BY <1>2, LeastNatural
<1>4. First(c) \in c.todo
  BY <1>3 DEF First, Min
<1> QED
  BY <1>1, <1>4

\* The call below the first task is a call.
LEMMA PartsTyped ==
    ASSUME PlanTyped, NEW c \in Call, c.todo # {}, c.depth # 0
    PROVE  /\ GoneAt(c) \in SUBSET Points
           /\ Here(c) \in State
           /\ BelowCall(c) \in Call
           /\ c.depth - 1 \in 0..Depth
<1>1. First(c) \in Tasks
  BY FirstTyped
<1>2. /\ c.depth \in 0..Depth /\ c.st \in State
      /\ c.accepted \in SUBSET Points /\ c.unaccepted \in SUBSET Points
  BY CallTyped
<1>3. c.st.left[First(c)] \in SUBSET Points
  BY <1>1, <1>2, StateTyped
<1>4. GoneAt(c) \in SUBSET Points
  <2>1. Removed(c.st, c.st.left[First(c)], c.unaccepted) \subseteq c.st.left[First(c)]
    BY <1>3, RemovedFacts, ZenonT(60)
  <2> QED
    BY <1>3, <2>1 DEF GoneAt
<1>5. Here(c) \in State
  BY <1>1, <1>2, <1>4, DroppedTyped DEF Here
<1>6. c.depth - 1 \in 0..Depth
  BY <1>2, DepthNat
<1>7. dependents[First(c)] \in SUBSET Tasks
  BY <1>1 DEF PlanTyped
<1>8. BelowCall(c) \in Call
  BY <1>4, <1>5, <1>6, <1>7, CallOnTyped DEF BelowCall
<1> QED
  BY <1>4, <1>5, <1>6, <1>8

\* The call on the other tasks is a call.
LEMMA RestTyped ==
    ASSUME PlanTyped, NEW c \in Call, c.todo # {}, c.depth # 0, NEW f,
           \A d \in Call : d.depth = c.depth - 1 => f[d] \in State
    PROVE  Below(c, f) \in State /\ RestCall(c, f) \in Call /\ FirstAndRest(c, f) \in State
<1>1. GoneAt(c) \in SUBSET Points /\ Here(c) \in State /\ BelowCall(c) \in Call /\ c.depth - 1 \in 0..Depth
  BY PartsTyped
<1>2. BelowCall(c).depth = c.depth - 1
  BY CallOnParts DEF BelowCall
<1>3. Below(c, f) \in State
  BY <1>1, <1>2 DEF Below
<1>4. c.todo \ {First(c)} \in SUBSET Tasks /\ c.accepted \in SUBSET Points
      /\ c.unaccepted \union GoneAt(c) \in SUBSET Points
  BY <1>1, CallTyped
<1>5. RestCall(c, f) \in Call
  BY <1>1, <1>3, <1>4, CallOnTyped DEF RestCall
<1>6. RestCall(c, f).depth = c.depth - 1
  BY CallOnParts DEF RestCall
<1> QED
  BY <1>3, <1>5, <1>6, FirstAndRestParts

\* A call only depends on those one deeper.
LEMMA BodyAgrees ==
    ASSUME PlanTyped, NEW c \in Call, NEW f, NEW h,
           \A d \in Call : d.depth = c.depth - 1 => f[d] \in State /\ h[d] = f[d]
    PROVE  CallBody(c, f) = CallBody(c, h)
<1>1. CASE c.todo = {} \/ c.depth = 0
  BY <1>1 DEF CallBody
<1>2. CASE ~(c.todo = {} \/ c.depth = 0)
  <2>1. BelowCall(c) \in Call /\ RestCall(c, f) \in Call
    BY <1>2, PartsTyped, RestTyped
  <2>2. BelowCall(c).depth = c.depth - 1 /\ RestCall(c, f).depth = c.depth - 1
    BY CallOnParts DEF BelowCall, RestCall
  <2>3. Below(c, f) = Below(c, h)
    BY <2>1, <2>2 DEF Below
  <2>4. RestCall(c, f) = RestCall(c, h)
    BY <2>3 DEF RestCall
  <2>5. FirstAndRest(c, f) = FirstAndRest(c, h)
    BY <2>1, <2>2, <2>4, FirstAndRestParts
  <2> QED
    BY <2>5 DEF CallBody
<1> QED
  BY <1>1, <1>2

\* The calls are well defined: by induction on how deep they may go.
LEMMA CallsExist == ASSUME PlanTyped PROVE \E f : Calls(f)
<1> DEFINE Upto(f, k) == /\ f \in [Call -> State]
                         /\ \A c \in Call : c.depth <= k => f[c] = CallBody(c, f)
           T == {k \in Nat : \E f : Upto(f, k)}
<1>1. 0 \in T
  <2> DEFINE f == [c \in Call |-> c.st]
  <2>1. f \in [Call -> State]
    BY CallTyped
  <2>2. ASSUME NEW c \in Call, c.depth <= 0 PROVE f[c] = CallBody(c, f)
    <3>1. c.depth = 0
      BY <2>2, CallTyped, DepthNat
    <3> QED
      BY <3>1 DEF CallBody
  <2> HIDE DEF f
  <2>3. Upto(f, 0)
    BY <2>1, <2>2
  <2> QED
    BY <2>3
<1>2. ASSUME NEW k \in Nat, k \in T PROVE k + 1 \in T
  <2>1. PICK f : Upto(f, k)
    BY <1>2
  <2> DEFINE h == [c \in Call |-> IF c.depth = k + 1 THEN CallBody(c, f) ELSE f[c]]
  <2>2. ASSUME NEW c \in Call PROVE CallBody(c, f) \in State
    <3>1. CASE c.todo = {} \/ c.depth = 0
      BY <3>1, CallTyped DEF CallBody
    <3>2. CASE ~(c.todo = {} \/ c.depth = 0)
      <4>1. \A d \in Call : d.depth = c.depth - 1 => f[d] \in State
        BY <2>1
      <4>2. FirstAndRest(c, f) \in State
        BY <3>2, <4>1, RestTyped
      <4> QED
        BY <3>2, <4>2 DEF CallBody
    <3> QED
      BY <3>1, <3>2
  <2>3. h \in [Call -> State]
    BY <2>1, <2>2
  <2>4. \A c \in Call : h[c] = IF c.depth = k + 1 THEN CallBody(c, f) ELSE f[c]
    OBVIOUS
  <2> HIDE DEF h
  <2>5. ASSUME NEW c \in Call, c.depth <= k + 1 PROVE h[c] = CallBody(c, h)
    <3>1. c.depth \in Nat
      BY CallTyped, DepthNat
    <3>2. \A d \in Call : d.depth = c.depth - 1 => f[d] \in State /\ h[d] = f[d]
      <4> SUFFICES ASSUME NEW d \in Call, d.depth = c.depth - 1 PROVE f[d] \in State /\ h[d] = f[d]
        OBVIOUS
      <4>1. d.depth # k + 1
        BY <2>5, <3>1
      <4> QED
        BY <2>1, <2>4, <4>1
    <3>3. CallBody(c, f) = CallBody(c, h)
      BY <3>2, BodyAgrees
    <3>4. CASE c.depth = k + 1
      BY <2>4, <3>3, <3>4
    <3>5. CASE c.depth # k + 1
      <4>1. c.depth <= k
        BY <2>5, <3>1, <3>5
      <4> QED
        BY <2>1, <2>4, <3>3, <3>5, <4>1
    <3> QED
      BY <3>4, <3>5
  <2>6. Upto(h, k + 1)
    BY <2>3, <2>5
  <2> QED
    BY <2>6
<1>3. Depth \in T
  <2> HIDE DEF T
  <2> QED
    BY <1>1, <1>2, NaturalSteps, DepthNat
<1>4. PICK f : Upto(f, Depth)
  BY <1>3
<1>5. \A c \in Call : f[c] = CallBody(c, f)
  <2> SUFFICES ASSUME NEW c \in Call PROVE f[c] = CallBody(c, f)
    OBVIOUS
  <2>1. c.depth <= Depth
    BY CallTyped, DepthNat
  <2> QED
    BY <1>4, <2>1
<1>6. f = [c \in Call |-> f[c]]
  BY <1>4
<1>7. f = [c \in Call |-> CallBody(c, f)]
  BY <1>5, <1>6
<1> QED
  BY <1>7 DEF Calls

\* RemoveSkipped is the outcome of the call it makes.
LEMMA RemoveSkippedCall ==
    ASSUME PlanTyped, NEW st, NEW todo, NEW accepted, NEW unaccepted
    PROVE  \E f : Calls(f) /\ RemoveSkipped(st, todo, accepted, unaccepted) =
                                 f[CallOn(st, todo, accepted, unaccepted, Depth)]
<1> DEFINE f == CHOOSE f : Calls(f)
<1>1. Calls(f)
  BY CallsExist
<1>2. RemoveSkipped(st, todo, accepted, unaccepted) = f[CallOn(st, todo, accepted, unaccepted, Depth)]
  BY DEF RemoveSkipped, Calls, CallBody
<1> HIDE DEF f
<1> QED
  BY <1>1, <1>2

LEMMA CallsStep ==
    ASSUME NEW f, Calls(f), NEW c \in Call
    PROVE  f[c] = CallBody(c, f)
  BY DEF Calls

\* Every call ends in a state, by induction on how deep it may go.
LEMMA CallsTyped == ASSUME PlanTyped, NEW f, Calls(f) PROVE \A c \in Call : f[c] \in State
<1> DEFINE T == {k \in Nat : \A c \in Call : c.depth = k => f[c] \in State}
<1>1. 0 \in T
  BY CallsStep, CallTyped DEF CallBody
<1>2. ASSUME NEW k \in Nat, k \in T PROVE k + 1 \in T
  <2> SUFFICES ASSUME NEW c \in Call, c.depth = k + 1 PROVE f[c] \in State
    OBVIOUS
  <2>1. \A d \in Call : d.depth = c.depth - 1 => f[d] \in State
    <3>1. c.depth - 1 = k
      OBVIOUS
    <3> QED
      BY <1>2, <3>1
  <2>2. c.st \in State /\ (c.todo # {} /\ c.depth # 0 => FirstAndRest(c, f) \in State)
    BY <2>1, CallTyped, RestTyped
  <2> QED
    BY <2>2, CallsStep DEF CallBody
<1> HIDE DEF T
<1>3. \A k \in Nat : k \in T
  BY <1>1, <1>2, NaturalSteps
<1> SUFFICES ASSUME NEW c \in Call PROVE f[c] \in State
  OBVIOUS
<1>4. c.depth \in Nat
  BY CallTyped, DepthNat
<1> QED
  BY <1>3, <1>4 DEF T

\* The first task of a call.
LEMMA HereEffect ==
    ASSUME PlanTyped, NEW c \in Call, Sound(c.st), c.todo # {}
    PROVE  /\ Gone(c.st, Here(c)) = GoneAt(c)
           /\ Effect(c.st, Here(c), c.accepted, c.unaccepted)
<1> DEFINE s == c.st
           a == c.accepted
           u == c.unaccepted
           t == First(c)
           gone == GoneAt(c)
<1>1. Sound(s) /\ t \in Tasks /\ u \in SUBSET Points
  BY FirstTyped, CallTyped
<1>2. gone = Removed(s, s.left[t], u) /\ Here(c) = Dropped(s, t, a, gone)
  BY DEF GoneAt, Here
<1> HIDE DEF s, a, u, t, gone
<1>3. /\ Gone(s, Dropped(s, t, a, gone)) = gone
      /\ Effect(s, Dropped(s, t, a, gone), a, u)
  BY <1>1, <1>2, DroppedEffect
<1> QED
  BY <1>2, <1>3 DEF s, a, u, gone

\* The pass over the first task of a call misses nothing.
LEMMA GoneAtAll ==
    ASSUME PlanTyped, NEW c \in Call, c.todo # {}
    PROVE  \A i \in c.st.left[First(c)] : c.st.depOn[i] \in c.unaccepted => i \in GoneAt(c)
<1> DEFINE s == c.st
           S == s.left[First(c)]
           u == c.unaccepted
<1>1. S \in SUBSET Points
  BY FirstTyped, CallTyped, StateTyped
<1> HIDE DEF s, S, u
<1>2. \A i \in S : s.depOn[i] \in u => i \in Removed(s, S, u)
  BY <1>1, RemovedFacts
<1> QED
  BY <1>2 DEF GoneAt, s, S, u

\* Only the tasks of the call, and those that depend on them, lose testpoints.
Within(c, out) ==
    \A V \in SUBSET Tasks :
        c.todo \subseteq V /\ (\A v \in V : dependents[v] \subseteq V) =>
            \A i \in Gone(c.st, out) : task[i] \in V

Outcome(c, out) ==
    Sound(out) /\ Effect(c.st, out, c.accepted, c.unaccepted) /\ Within(c, out)

\* The outcome of a call, from those of the calls it makes.
LEMMA OutcomeStep ==
    ASSUME PlanTyped, NEW c \in Call, Sound(c.st), c.todo # {}, c.depth # 0, NEW f,
           \A d \in Call : f[d] \in State,
           \A d \in Call : d.depth = c.depth - 1 /\ Sound(d.st) => Outcome(d, f[d])
    PROVE  /\ Sound(Below(c, f))
           /\ Effect(c.st, Below(c, f), c.accepted, c.unaccepted)
           /\ Outcome(c, FirstAndRest(c, f))
<1> DEFINE t == First(c)
           gone == GoneAt(c)
           here == Here(c)
           b == BelowCall(c)
           below == Below(c, f)
           r == RestCall(c, f)
           out == FirstAndRest(c, f)
<1>1. t \in c.todo /\ t \in Tasks
  BY FirstTyped
<1>2. /\ c.st \in State /\ c.todo \in SUBSET Tasks
      /\ c.accepted \in SUBSET Points /\ c.unaccepted \in SUBSET Points
  BY CallTyped
<1>3. gone \in SUBSET Points /\ here \in State /\ b \in Call
  BY PartsTyped
<1>4. below \in State /\ r \in Call /\ out = f[r]
  BY RestTyped, FirstAndRestParts
<1>5. /\ b.st = here /\ b.todo = dependents[t] /\ b.accepted = {}
      /\ b.unaccepted = gone /\ b.depth = c.depth - 1
  BY CallOnParts DEF BelowCall
<1>6. /\ r.st = below /\ r.todo = c.todo \ {t} /\ r.accepted = c.accepted
      /\ r.unaccepted = c.unaccepted \union gone /\ r.depth = c.depth - 1
  BY CallOnParts DEF RestCall
<1>7. gone = Removed(c.st, c.st.left[t], c.unaccepted) /\ here = Dropped(c.st, t, c.accepted, gone)
  BY DEF GoneAt, Here
<1>8. below = IF gone = {} THEN here ELSE f[b]
  BY DEF Below
<1> HIDE DEF t, gone, here, b, below, r, out
<1>9. Gone(c.st, here) = gone /\ Effect(c.st, here, c.accepted, c.unaccepted)
  BY HereEffect DEF here, gone
<1>10. Sound(here)
  BY <1>1, <1>2, <1>3, <1>7, DroppedTyped
<1>11. Sound(below) /\ Effect(here, below, {}, gone)
       /\ \A V \in SUBSET Tasks :
             t \in V /\ (\A v \in V : dependents[v] \subseteq V) => \A i \in Gone(here, below) : task[i] \in V
  <2>1. CASE gone = {}
    <3>1. below = here
      BY <1>8, <2>1
    <3>2. Gone(here, here) = {}
      BY DEF Gone
    <3> QED
      BY <1>10, <3>1, <3>2, NothingGone
  <2>2. CASE gone # {}
    <3>1. below = f[b]
      BY <1>8, <2>2
    <3>2. Outcome(b, below)
      BY <1>3, <1>5, <1>10, <3>1
    <3>3. Sound(below) /\ Effect(here, below, {}, gone) /\ Within(b, below)
      BY <1>5, <3>2 DEF Outcome
    <3>4. ASSUME NEW V \in SUBSET Tasks, t \in V, \A v \in V : dependents[v] \subseteq V
          PROVE  \A i \in Gone(here, below) : task[i] \in V
      <4>1. b.todo \subseteq V
        BY <1>5, <3>4
      <4> QED
        BY <1>5, <3>3, <3>4, <4>1 DEF Within
    <3> QED
      BY <3>3, <3>4
  <2> QED
    BY <2>1, <2>2
<1>12. Outcome(r, out)
  BY <1>4, <1>6, <1>11
<1>13. Sound(out) /\ Effect(below, out, c.accepted, c.unaccepted \union gone) /\ Within(r, out)
  BY <1>6, <1>12 DEF Outcome
<1>14. Gone(c.st, below) = gone \union Gone(here, below) /\ Effect(c.st, below, c.accepted, c.unaccepted)
  <2>1. {} \in SUBSET c.accepted /\ gone \subseteq c.unaccepted \union Gone(c.st, here)
    BY <1>9
  <2>2. /\ Gone(c.st, below) = Gone(c.st, here) \union Gone(here, below)
        /\ Effect(c.st, below, c.accepted, c.unaccepted)
    BY <1>2, <1>3, <1>9, <1>10, <1>11, <2>1, EffectsCompose
  <2> QED
    BY <1>9, <2>2
<1>15. Gone(c.st, out) = gone \union Gone(here, below) \union Gone(below, out)
       /\ Effect(c.st, out, c.accepted, c.unaccepted)
  <2>1. /\ c.accepted \in SUBSET c.accepted
        /\ c.unaccepted \union gone \in SUBSET Points
        /\ c.unaccepted \union gone \subseteq c.unaccepted \union Gone(c.st, below)
    BY <1>2, <1>3, <1>14
  <2>2. /\ Gone(c.st, out) = Gone(c.st, below) \union Gone(below, out)
        /\ Effect(c.st, out, c.accepted, c.unaccepted)
    BY <1>2, <1>11, <1>13, <1>14, <2>1, EffectsCompose
  <2> QED
    BY <1>14, <2>2
<1>16. Within(c, out)
  <2> SUFFICES ASSUME NEW V \in SUBSET Tasks, c.todo \subseteq V, \A v \in V : dependents[v] \subseteq V,
                      NEW i \in Gone(c.st, out)
               PROVE  task[i] \in V
    BY DEF Within
  <2>1. CASE i \in gone
    <3>1. i \in c.st.left[t]
      <4>1. c.st.left[t] \in SUBSET Points
        BY <1>1, <1>2, StateTyped
      <4>2. Removed(c.st, c.st.left[t], c.unaccepted) \subseteq c.st.left[t]
        <5> DEFINE S == c.st.left[t]
                   st == c.st
                   u == c.unaccepted
        <5>1. S \in SUBSET Points
          BY <4>1
        <5> HIDE DEF S, st, u
        <5>2. Removed(st, S, u) \subseteq S
          BY <5>1, RemovedFacts
        <5> QED
          BY <5>2 DEF S, st, u
      <4> QED
        BY <1>7, <2>1, <4>2
    <3>2. task[i] = t
      BY <1>1, <3>1, HasLeft
    <3> QED
      BY <1>1, <3>2
  <2>2. CASE i \in Gone(here, below)
    BY <1>1, <1>11, <2>2
  <2>3. CASE i \in Gone(below, out)
    <3>1. r.todo \subseteq V
      BY <1>6
    <3> QED
      BY <1>6, <1>13, <2>3, <3>1 DEF Within
  <2> QED
    BY <1>15, <2>1, <2>2, <2>3
<1> QED
  BY <1>11, <1>13, <1>14, <1>15, <1>16 DEF Outcome, below, out

\* The outcome of every call, by induction on how deep it may go.
LEMMA CallsOutcome ==
    ASSUME PlanTyped, NEW f, Calls(f)
    PROVE  \A c \in Call : Sound(c.st) => Outcome(c, f[c])
<1> DEFINE T == {k \in Nat : \A c \in Call : c.depth = k /\ Sound(c.st) => Outcome(c, f[c])}
<1>0. \A d \in Call : f[d] \in State
  BY CallsTyped
<1>1. ASSUME NEW c \in Call, Sound(c.st), c.todo = {} \/ c.depth = 0 PROVE Outcome(c, f[c])
  <2>1. f[c] = c.st
    BY <1>1, CallsStep DEF CallBody
  <2>2. Gone(c.st, c.st) = {}
    BY DEF Gone
  <2>3. Within(c, c.st)
    BY <2>2 DEF Within
  <2> QED
    BY <1>1, <2>1, <2>3, NothingGone DEF Outcome
<1>2. 0 \in T
  BY <1>1
<1>3. ASSUME NEW k \in Nat, k \in T PROVE k + 1 \in T
  <2> SUFFICES ASSUME NEW c \in Call, c.depth = k + 1, Sound(c.st) PROVE Outcome(c, f[c])
    OBVIOUS
  <2>1. CASE c.todo = {}
    BY <1>1, <2>1
  <2>2. CASE c.todo # {}
    <3>1. c.depth - 1 = k /\ c.depth # 0
      OBVIOUS
    <3>2. \A d \in Call : d.depth = c.depth - 1 /\ Sound(d.st) => Outcome(d, f[d])
      BY <1>3, <3>1
    <3>3. Outcome(c, FirstAndRest(c, f))
      BY <1>0, <2>2, <3>1, <3>2, OutcomeStep
    <3>4. f[c] = FirstAndRest(c, f)
      BY <2>2, <3>1, CallsStep DEF CallBody
    <3> QED
      BY <3>3, <3>4
  <2> QED
    BY <2>1, <2>2
<1> HIDE DEF T
<1>4. \A k \in Nat : k \in T
  BY <1>2, <1>3, NaturalSteps
<1> SUFFICES ASSUME NEW c \in Call, Sound(c.st) PROVE Outcome(c, f[c])
  OBVIOUS
<1>5. c.depth \in Nat
  BY CallTyped, DepthNat
<1> QED
  BY <1>4, <1>5 DEF T

\* How deep a call may still have to go.
Left(st) == {i \in Points : Has(st, i)}
Enough(c) == Cardinality(c.todo) + (Len(Ids) + 1) * Cardinality(Left(c.st)) <= c.depth

\* Sets of testpoints and of tasks are finite.
LEMMA FinitePoints ==
    ASSUME PlanTyped
    PROVE  /\ IsFiniteSet(Points) /\ Cardinality(Points) = Len(Ids)
           /\ \A S \in SUBSET Points :
                 IsFiniteSet(S) /\ Cardinality(S) \in Nat /\ Cardinality(S) <= Len(Ids)
           /\ \A S \in SUBSET Tasks :
                 IsFiniteSet(S) /\ Cardinality(S) \in Nat /\ Cardinality(S) <= Len(Ids)
<1>1. IsFiniteSet(Points) /\ Cardinality(Points) = Len(Ids)
  <2>1. Len(Ids) \in Nat /\ 1 \in Int /\ Len(Ids) \in Int
    BY Positions
  <2>2. IsFiniteSet(1..Len(Ids))
        /\ Cardinality(1..Len(Ids)) = IF 1 > Len(Ids) THEN 0 ELSE Len(Ids) - 1 + 1
    BY <2>1, FS_Interval
  <2> QED
    BY <2>1, <2>2, Positions
<1>2. \A S \in SUBSET Points :
         IsFiniteSet(S) /\ Cardinality(S) \in Nat /\ Cardinality(S) <= Len(Ids)
  BY <1>1, FS_Subset, FS_CardinalityType
<1>3. \A S \in SUBSET Tasks : S \in SUBSET Points
  BY TasksArePoints
<1> QED
  BY <1>1, <1>2, <1>3

\* The calls it makes have to go less deep: the bound on the depth is never met.
LEMMA DepthSuffices ==
    ASSUME PlanTyped, NEW c \in Call, Sound(c.st), Enough(c), c.todo # {}, NEW f, Calls(f)
    PROVE  c.depth # 0 /\ Enough(RestCall(c, f)) /\ (GoneAt(c) # {} => Enough(BelowCall(c)))
<1> DEFINE N == Len(Ids)
           t == First(c)
           gone == GoneAt(c)
           below == Below(c, f)
           td == Cardinality(c.todo)
           lf == Cardinality(Left(c.st))
<1>1. t \in c.todo /\ t \in Tasks
  BY FirstTyped
<1>2. c.st \in State /\ c.todo \in SUBSET Tasks /\ c.depth \in Nat
      /\ c.accepted \in SUBSET Points /\ c.unaccepted \in SUBSET Points
  BY CallTyped, DepthNat
<1>3. Left(c.st) \in SUBSET Points /\ N \in Nat
  BY Positions DEF Left
<1>4. td \in Nat /\ lf \in Nat /\ td # 0 /\ IsFiniteSet(c.todo) /\ IsFiniteSet(Left(c.st))
  BY <1>2, <1>3, FinitePoints, FS_EmptySet
<1>5. td + (N + 1) * lf <= c.depth
  BY DEF Enough
<1>6. c.depth # 0
  <2>1. (N + 1) * lf \in Nat
    BY <1>3, <1>4
  <2> HIDE DEF td, lf, N
  <2> QED
    BY <1>2, <1>4, <1>5, <2>1
<1>7. Cardinality(c.todo \ {t}) = td - 1
  BY <1>1, <1>4, FS_RemoveElement
<1>8. \A d \in Call : f[d] \in State
  BY CallsTyped
<1>9. \A d \in Call : d.depth = c.depth - 1 /\ Sound(d.st) => Outcome(d, f[d])
  BY CallsOutcome
<1>10. Sound(below) /\ Effect(c.st, below, c.accepted, c.unaccepted)
  BY <1>6, <1>8, <1>9, OutcomeStep
<1>11. Left(below) \subseteq Left(c.st)
  BY <1>10, TaskIn DEF Effect, Left, Has
<1>12. Cardinality(Left(below)) \in Nat /\ Cardinality(Left(below)) <= lf
  BY <1>3, <1>4, <1>11, FS_Subset, FS_CardinalityType
<1>13. Enough(RestCall(c, f))
  <2>1. /\ RestCall(c, f).todo = c.todo \ {t} /\ RestCall(c, f).st = below
        /\ RestCall(c, f).depth = c.depth - 1
    BY CallOnParts DEF RestCall
  <2> DEFINE lb == Cardinality(Left(below))
  <2>2. lb \in Nat /\ lb <= lf
    BY <1>12
  <2> HIDE DEF td, lf, N, lb
  <2>3. (N + 1) * lb <= (N + 1) * lf /\ (N + 1) * lb \in Nat /\ (N + 1) * lf \in Nat
    BY <1>3, <1>4, <2>2
  <2>4. (td - 1) + (N + 1) * lb <= c.depth - 1
    BY <1>2, <1>4, <1>5, <2>3
  <2> QED
    BY <1>7, <2>1, <2>4 DEF Enough, lb, N
<1>14. ASSUME gone # {} PROVE Enough(BelowCall(c))
  <2>1. /\ BelowCall(c).todo = dependents[t] /\ BelowCall(c).st = Here(c)
        /\ BelowCall(c).depth = c.depth - 1
    BY CallOnParts DEF BelowCall
  <2> HIDE DEF t, gone
  <2>2. Gone(c.st, Here(c)) = gone /\ Effect(c.st, Here(c), c.accepted, c.unaccepted)
    BY HereEffect DEF gone
  <2>3. Left(Here(c)) \subseteq Left(c.st)
    BY <2>2, TaskIn DEF Effect, Left, Has
  <2>4. PICK i : i \in gone
    BY <1>14
  <2>5. i \in Left(c.st) /\ i \notin Left(Here(c))
    BY <2>2, <2>4 DEF Gone, Left
  <2> DEFINE lh == Cardinality(Left(Here(c)))
  <2>6. lh \in Nat /\ lh <= lf - 1
    <3>1. Left(Here(c)) \in SUBSET (Left(c.st) \ {i})
      BY <2>3, <2>5
    <3>2. IsFiniteSet(Left(c.st) \ {i}) /\ Cardinality(Left(c.st) \ {i}) = lf - 1
      BY <1>4, <2>5, FS_RemoveElement
    <3> QED
      BY <3>1, <3>2, FS_Subset, FS_CardinalityType
  <2>7. dependents[t] \in SUBSET Tasks
    BY <1>1 DEF PlanTyped
  <2> DEFINE dt == Cardinality(dependents[t])
  <2>8. dt \in Nat /\ dt <= N
    BY <2>7, FinitePoints
  <2> HIDE DEF td, lf, N, lh, dt
  <2>9. (N + 1) * lh <= (N + 1) * (lf - 1)
    BY <1>3, <1>4, <2>6
  <2>10. (N + 1) * (lf - 1) = (N + 1) * lf - (N + 1)
    BY <1>3, <1>4
  <2>11. (N + 1) * lh \in Int /\ (N + 1) * lf \in Int
    BY <1>3, <1>4, <2>6
  <2>12. dt + (N + 1) * lh <= c.depth - 1
    BY <1>2, <1>3, <1>4, <1>5, <2>8, <2>9, <2>10, <2>11
  <2> QED
    BY <2>1, <2>12 DEF Enough, lh, dt, N
<1> QED
  BY <1>6, <1>13, <1>14

\* No task that the call goes through keeps a testpoint that depends on W.
LEMMA CallsComplete ==
    ASSUME PlanTyped, NEW f, Calls(f), NEW W
    PROVE  \A c \in Call :
              Sound(c.st) /\ Enough(c) /\ W \subseteq c.unaccepted /\ W \cap c.accepted = {} =>
                  \A i \in Points : Has(f[c], i) /\ task[i] \in c.todo => c.st.depOn[i] \notin W
<1> DEFINE Fits(c) == Sound(c.st) /\ Enough(c) /\ W \subseteq c.unaccepted /\ W \cap c.accepted = {}
           Clear(c) == \A i \in Points : Has(f[c], i) /\ task[i] \in c.todo => c.st.depOn[i] \notin W
           T == {k \in Nat : \A c \in Call : c.depth = k /\ Fits(c) => Clear(c)}
<1>0. \A d \in Call : f[d] \in State
  BY CallsTyped
<1>1. 0 \in T
  <2> SUFFICES ASSUME NEW c \in Call, c.depth = 0, Fits(c) PROVE Clear(c)
    OBVIOUS
  <2>1. c.todo = {}
    BY DepthSuffices
  <2> QED
    BY <2>1
<1>2. ASSUME NEW k \in Nat, k \in T PROVE k + 1 \in T
  <2> SUFFICES ASSUME NEW c \in Call, c.depth = k + 1, Fits(c) PROVE Clear(c)
    OBVIOUS
  <2>1. CASE c.todo = {}
    BY <2>1
  <2>2. CASE c.todo # {}
    <3> DEFINE t == First(c)
               below == Below(c, f)
               r == RestCall(c, f)
    <3>1. c.depth - 1 = k /\ c.depth # 0
      OBVIOUS
    <3>2. \A d \in Call : d.depth = c.depth - 1 /\ Sound(d.st) => Outcome(d, f[d])
      BY CallsOutcome
    <3>3. Sound(below) /\ Effect(c.st, below, c.accepted, c.unaccepted)
      BY <1>0, <2>2, <3>1, <3>2, OutcomeStep
    <3>4. r \in Call
      BY <1>0, <2>2, <3>1, RestTyped
    <3>5. /\ r.st = below /\ r.todo = c.todo \ {t} /\ r.accepted = c.accepted
          /\ r.unaccepted = c.unaccepted \union GoneAt(c) /\ r.depth = c.depth - 1
      BY CallOnParts DEF RestCall
    <3>6. Enough(r)
      BY <2>2, DepthSuffices
    <3>7. f[c] = f[r]
      BY <2>2, <3>1, CallsStep, FirstAndRestParts DEF CallBody
    <3>8. Outcome(r, f[r])
      BY <3>2, <3>3, <3>4, <3>5
    <3>9. Effect(below, f[r], r.accepted, r.unaccepted)
      BY <3>5, <3>8 DEF Outcome
    <3> HIDE DEF t, below, r
    <3>10. Clear(r)
      <4>1. Fits(r)
        BY <3>3, <3>5, <3>6
      <4> QED
        BY <1>2, <3>1, <3>4, <3>5, <4>1
    <3> SUFFICES ASSUME NEW i \in Points, Has(f[c], i), task[i] \in c.todo, c.st.depOn[i] \in W
                 PROVE  FALSE
      OBVIOUS
    <3>11. Has(below, i)
      <4>1. task[i] \in Tasks
        BY TaskIn
      <4> QED
        BY <3>7, <3>9, <4>1 DEF Effect, Has
    <3>12. CASE task[i] = t
      <4>1. Has(c.st, i)
        <5>1. task[i] \in Tasks
          BY TaskIn
        <5> QED
          BY <3>3, <3>11, <5>1 DEF Effect, Has
      <4>2. t \in Tasks /\ c.st \in State
        BY <2>2, FirstTyped, CallTyped DEF t
      <4>3. c.st.left[t] \in SUBSET Points
        BY <4>2, StateTyped
      <4>4. i \in c.st.left[t]
        BY <3>12, <4>1 DEF Has
      <4>5. i \in GoneAt(c)
        BY <2>2, <4>4, GoneAtAll DEF t
      <4>6. i \in Gone(c.st, Here(c))
        BY <2>2, <4>5, HereEffect
      <4>7. ~Has(Here(c), i)
        BY <4>6 DEF Gone
      <4>8. ~Has(below, i)
        <5>1. CASE GoneAt(c) = {}
          BY <4>5, <5>1
        <5>2. CASE GoneAt(c) # {}
          <6> DEFINE b == BelowCall(c)
          <6>1. b \in Call /\ Sound(Here(c))
            <7>1. GoneAt(c) \in SUBSET Points
              BY <2>2, <3>1, PartsTyped
            <7> QED
              BY <2>2, <3>1, <4>2, <7>1, PartsTyped, DroppedTyped DEF Here, t
          <6>2. b.st = Here(c) /\ b.depth = c.depth - 1
            BY CallOnParts DEF BelowCall
          <6>3. below = f[b]
            BY <5>2 DEF Below, below
          <6> HIDE DEF b
          <6>4. Outcome(b, f[b])
            BY <3>2, <6>1, <6>2
          <6>5. Effect(Here(c), f[b], b.accepted, b.unaccepted)
            BY <6>2, <6>4 DEF Outcome
          <6>6. task[i] \in Tasks
            BY TaskIn
          <6> QED
            BY <4>7, <6>3, <6>5, <6>6 DEF Effect, Has
        <5> QED
          BY <5>1, <5>2
      <4> QED
        BY <3>11, <4>8
    <3>13. CASE task[i] # t
      <4>1. task[i] \in r.todo /\ Has(f[r], i)
        BY <3>5, <3>7, <3>13
      <4>2. below.depOn[i] \notin W
        BY <3>5, <3>10, <4>1
      <4>3. i \in Points \ Gone(c.st, below)
        BY <3>11 DEF Gone
      <4>4. below.depOn[i] = c.st.depOn[i] \/ c.st.depOn[i] \in c.accepted
        BY <3>3, <4>3 DEF Effect
      <4> QED
        BY <4>2, <4>4
    <3> QED
      BY <3>12, <3>13
  <2> QED
    BY <2>1, <2>2
<1> HIDE DEF T
<1>3. \A k \in Nat : k \in T
  BY <1>1, <1>2, NaturalSteps
<1> SUFFICES ASSUME NEW c \in Call, Fits(c) PROVE Clear(c)
  BY Zenon
<1>4. c.depth \in Nat
  BY CallTyped, DepthNat
<1> QED
  BY <1>3, <1>4 DEF T

\* What remove_skipped_testpoints_from_task does when a task has ended.
SkipsTo(st, todo, accepted, unaccepted, out) ==
    /\ Sound(out)
    /\ Effect(st, out, accepted, unaccepted)
    /\ \A V \in SUBSET Tasks :
          todo \subseteq V /\ (\A v \in V : dependents[v] \subseteq V) =>
              \A i \in Gone(st, out) : task[i] \in V
    /\ \A i \in Points : Has(out, i) /\ task[i] \in todo => st.depOn[i] \notin unaccepted

\* What remove_skipped_testpoints_from_task does, whatever the dependents.
LEMMA SkippingOutcome ==
    ASSUME PlanTyped, NEW st, Sound(st), NEW todo \in SUBSET Tasks,
           NEW accepted \in SUBSET Points, NEW unaccepted \in SUBSET Points,
           accepted \cap unaccepted = {}
    PROVE  SkipsTo(st, todo, accepted, unaccepted, RemoveSkipped(st, todo, accepted, unaccepted))
<1> DEFINE out == RemoveSkipped(st, todo, accepted, unaccepted)
<1> HIDE DEF out
<1> DEFINE c == CallOn(st, todo, accepted, unaccepted, Depth)
<1>1. PICK f : Calls(f) /\ out = f[c]
  BY RemoveSkippedCall DEF out
<1>2. c \in Call
  BY CallOnTyped, DepthNat DEF Sound
<1>3. c.st = st /\ c.todo = todo /\ c.accepted = accepted /\ c.unaccepted = unaccepted /\ c.depth = Depth
  BY CallOnParts
<1> HIDE DEF c
<1>4. Outcome(c, out)
  BY <1>1, <1>2, <1>3, CallsOutcome
<1>5. Enough(c)
  <2> DEFINE N == Len(Ids)
             td == Cardinality(todo)
             lf == Cardinality(Left(st))
  <2>1. Left(st) \in SUBSET Points
    BY DEF Left
  <2>2. N \in Nat /\ td \in Nat /\ lf \in Nat /\ td <= N /\ lf <= N
    BY <2>1, FinitePoints, Positions
  <2>3. Depth = (N + 1) * (N + 1)
    BY DEF Depth
  <2> HIDE DEF N, td, lf
  <2>4. (N + 1) * lf <= (N + 1) * N
    BY <2>2
  <2>5. (N + 1) * (N + 1) = (N + 1) * N + (N + 1)
    BY <2>2
  <2>6. (N + 1) * lf \in Int /\ (N + 1) * N \in Int
    BY <2>2
  <2>7. td + (N + 1) * lf <= Depth
    BY <2>2, <2>3, <2>4, <2>5, <2>6
  <2> QED
    BY <1>3, <2>7 DEF Enough, N, td, lf
<1>6. unaccepted \subseteq c.unaccepted /\ unaccepted \cap c.accepted = {}
  BY <1>3
<1>7. \A i \in Points : Has(f[c], i) /\ task[i] \in c.todo => c.st.depOn[i] \notin unaccepted
  BY <1>1, <1>2, <1>3, <1>5, <1>6, CallsComplete
<1> QED
  BY <1>1, <1>3, <1>4, <1>7 DEF Outcome, Within, SkipsTo, out

-----------------------------------------------------------------------------
(* The inductive invariant                                                 *)

\* A task is under way, or has ended.
Live(t) == \E x \in running \union batch : x[1] = t
Settled(t) == starts[t] # 0 /\ ~Live(t)

\* What parse_testpoints makes of a problem: a task depends on another because
\* one of its testpoints does, and tasks of several testpoints depend on earlier
\* ones only.
PlanOK ==
    /\ PlanTyped
    /\ dep \in [Points -> Nat]
    /\ \A i \in Points : dep[i] # 0 => Target(i) \in Points
    /\ \A t \in Tasks : \A u \in dependents[t] :
          \E i \in Members(u) : dep[i] # 0 /\ task[Target(i)] = t
    /\ \/ \A t \in Tasks : \A u \in dependents[t] : u > t
       \/ \A i, k \in Points : task[i] = task[k] => i = k

\* A testpoint that is no more in its task was skipped, whatever its task ended
\* with; one that is depends on what its problem says, or on nothing any more.
RecordsOK ==
    /\ \A t \in Tasks : left[t] \subseteq Members(t)
    /\ \A i \in Points : i \in left[task[i]] => depOn[i] \in {0, Target(i)}
    /\ \A i \in Points : i \notin left[task[i]] =>
          depOn[i] = Unsatisfied /\ results[i] \in {"skipped", "system_error"}

\* Where the loop is.
LoopOK ==
    /\ \A x \in running \union batch : x[2] <= starts[x[1]]
    /\ running \cap batch = {}
    /\ phase = "begin" => running = {} /\ batch = {} /\ \A t \in Tasks : starts[t] = 0
    /\ phase = "begin" => \A i \in Points : i \in left[task[i]]
    /\ phase = "wait" => batch = {}
    /\ phase # "done" => pending = {}
    /\ phase \in {"synthesize", "loop detected"} \union Judged => running = {} /\ batch = {}

\* A task that was started waits for no other.
StartedReady ==
    \A t \in Tasks : starts[t] # 0 => \A i \in left[t] : depOn[i] \in {0} \union left[t]

\* The results of what was not started, or is under way.
ResultsOK ==
    /\ \A i \in Points : i \in left[task[i]] /\ starts[task[i]] = 0 => results[i] = "none"
    /\ \A i \in Points : results[i] = "judging" => Live(task[i])
    /\ phase \in Judged => \A i \in scored : results[i] # "none"

\* A dependency that is no more waited for was accepted, and stays so.
PassedFirst ==
    \A i \in Points : i \in left[task[i]] /\ depOn[i] = 0 /\ dep[i] # 0 =>
        /\ Target(i) \in left[task[Target(i)]]
        /\ Settled(task[Target(i)])
        /\ results[Target(i)] = "accepted"

\* The results of a task that has ended follow its dependencies.
SettledResults ==
    \A i \in Points : i \in left[task[i]] /\ Settled(task[i]) =>
        /\ results[i] \in Final
        /\ results[i] \in {"accepted", "wrong_answer"} /\ depOn[i] # 0 => results[depOn[i]] = "accepted"
        /\ results[i] = "skipped" => depOn[i] # 0 /\ results[depOn[i]] \in Final \ {"accepted"}

\* What was removed from its task depends on a testpoint that failed for good.
RemovedForCause ==
    \A i \in Points : i \notin left[task[i]] =>
        /\ dep[i] # 0
        /\ results[Target(i)] \in Final \ {"accepted"}
        /\ Target(i) \in left[task[Target(i)]] => Settled(task[Target(i)])

OnceOK == Once => PassedFirst /\ SettledResults /\ RemovedForCause

\* Where no task depends on two others, a task that was started is not looked at
\* again: the one it depends on has ended, and ends once.
TreeOK ==
    Tree =>
        /\ Once
        /\ \A t \in pending :
              \/ left[t] = {}
              \/ starts[t] = 0 /\ \E u \in Tasks : u # t /\ Settled(u) /\ t \in dependents[u]
        /\ \A t, u \in Tasks : starts[t] # 0 /\ t \in dependents[u] /\ u # t => Settled(u)
        /\ \A t \in Tasks : t \in dependents[t] /\ Settled(t) => left[t] = {}

\* A cancelled run leaves its tasks where they are.
Inv ==
    /\ TypeOK
    /\ PlanOK
    /\ StartedOnce
    /\ phase # "aborted" =>
          RecordsOK /\ LoopOK /\ StartedReady /\ ResultsOK /\ OnceOK /\ TreeOK

-----------------------------------------------------------------------------
(* Initial states                                                          *)

\* Tasks are numbered from 1; without groups each testpoint has its own.
LEMMA TaskOfTyped ==
    ASSUME NEW disk, NEW i \in Points
    PROVE  /\ TaskOf(disk, i) \in Points
           /\ ~Grouped(disk) => TaskOf(disk, i) = i
<1> DEFINE S == {k \in 1..i : k = 1 \/ disk[k] = "new"}
<1>1. Len(Ids) \in Nat /\ i \in 1..Len(Ids) /\ i \in Nat /\ i >= 1
  BY Positions
<1>2. IsFiniteSet(1..i) /\ Cardinality(1..i) = i
  BY <1>1, FS_Interval
<1>3. S \in SUBSET (1..i) /\ 1 \in S
  BY <1>1
<1> HIDE DEF S
<1>4. IsFiniteSet(S) /\ Cardinality(S) \in Nat /\ Cardinality(S) <= i
  BY <1>2, <1>3, FS_Subset, FS_CardinalityType
<1>5. Cardinality(S) # 0
  BY <1>3, <1>4, FS_EmptySet
<1>6. Cardinality(S) \in Points
  BY <1>1, <1>4, <1>5, Positions
<1> QED
  BY <1>6 DEF TaskOf, S

\* With groups, a later testpoint is in no earlier task.
LEMMA TaskOfMonotone ==
    ASSUME NEW disk, NEW i \in Points, NEW k \in Points, k <= i, Grouped(disk)
    PROVE  TaskOf(disk, k) <= TaskOf(disk, i)
<1> DEFINE S(n) == {j \in 1..n : j = 1 \/ disk[j] = "new"}
<1>1. i \in Nat /\ k \in Nat
  BY Positions
<1>2. IsFiniteSet(1..i) /\ 1 \in Int /\ i \in Int
  BY <1>1, FS_Interval
<1>3. S(i) \in SUBSET (1..i)
  OBVIOUS
<1>4. IsFiniteSet(S(i))
  BY <1>2, <1>3, FS_Subset
<1>5. S(k) \in SUBSET S(i)
  BY <1>1
<1>6. Cardinality(S(k)) <= Cardinality(S(i))
  BY <1>4, <1>5, FS_Subset
<1> QED
  BY <1>6 DEF TaskOf

\* The plans that parse_testpoints makes of the problems it accepts.
LEMMA InitPlan == Init => PlanOK
<1> SUFFICES ASSUME NEW disk, ParseTestpoints(disk) PROVE PlanOK
  BY DEF Init
<1>1. /\ dep \in [Points -> {0} \union {Ids[i] : i \in Points}]
      /\ task = [i \in Points |-> TaskOf(disk, i)]
      /\ Grouped(disk) => \A i \in Points : dep[i] # 0 => Target(i) <= i
      /\ dependents = [t \in Tasks |-> {u \in Tasks : t \in Dependencies(disk, u)}]
  BY DEF ParseTestpoints
<1>2. task \in [Points -> Points]
  BY <1>1, TaskOfTyped
<1>3. dependents \in [Tasks -> SUBSET Tasks]
  BY <1>1
<1>4. \A i \in Points : Ids[i] \in Nat
  BY PlanAssumption, Positions
<1>5. dep \in [Points -> Nat]
  BY <1>1, <1>4
<1>6. ASSUME NEW i \in Points, dep[i] # 0 PROVE Target(i) \in Points
  <2>1. \E k \in Points : Ids[k] = dep[i]
    BY <1>1, <1>6
  <2> QED
    BY <1>6, <2>1 DEF Target
<1>7. ASSUME NEW t \in Tasks, NEW u \in dependents[t]
      PROVE  \E i \in Members(u) :
                dep[i] # 0 /\ task[Target(i)] = t /\ (Grouped(disk) => task[Target(i)] # u)
  <2>1. u \in Tasks /\ t \in Dependencies(disk, u)
    BY <1>1, <1>7
  <2> QED
    BY <2>1 DEF Dependencies
<1>8. ASSUME Grouped(disk), NEW t \in Tasks, NEW u \in dependents[t] PROVE u > t
  <2>1. PICK i \in Members(u) : dep[i] # 0 /\ task[Target(i)] = t /\ task[Target(i)] # u
    BY <1>7, <1>8
  <2>2. i \in Points /\ task[i] = u
    BY DEF Members
  <2> DEFINE k == Target(i)
  <2>3. k \in Points /\ k <= i
    BY <1>1, <1>6, <1>8, <2>1, <2>2
  <2> HIDE DEF k
  <2>4. task[k] <= task[i]
    BY <1>1, <1>8, <2>2, <2>3, TaskOfMonotone
  <2>5. task[k] = t /\ t # u /\ t \in Nat /\ u \in Nat
    BY <1>2, <2>1, <2>2, <2>3, Positions DEF k
  <2> QED
    BY <2>2, <2>4, <2>5
<1>9. ASSUME ~Grouped(disk), NEW i \in Points, NEW k \in Points, task[i] = task[k] PROVE i = k
  BY <1>1, <1>9, TaskOfTyped
<1>10. \A t \in Tasks : \A u \in dependents[t] :
          \E i \in Members(u) : dep[i] # 0 /\ task[Target(i)] = t
  BY <1>7
<1> QED
  BY <1>2, <1>3, <1>5, <1>6, <1>8, <1>9, <1>10 DEF PlanOK, PlanTyped

\* The invariant holds when run_judge_tasks begins.
LEMMA InitInv == Init => Inv
<1> SUFFICES ASSUME Init PROVE Inv
  OBVIOUS
<1>1. PlanOK
  BY InitPlan
<1>2. PlanTyped /\ dep \in [Points -> Nat] /\ \A i \in Points : dep[i] # 0 => Target(i) \in Points
  BY <1>1 DEF PlanOK
<1>3. /\ left = [t \in Tasks |-> Members(t)]
      /\ depOn = [i \in Points |-> Target(i)]
      /\ results = [i \in Points |-> "none"]
      /\ starts = [t \in Tasks |-> 0]
      /\ running = {} /\ batch = {} /\ pending = {} /\ phase = "begin"
      /\ scored \subseteq Points
  BY DEF Init
<1>4. ASSUME NEW i \in Points PROVE Target(i) \in 0..Unsatisfied
  <2>1. dep[i] = 0 => Target(i) = 0
    BY DEF Target
  <2> QED
    BY <1>2, <2>1, Positions
<1>5. TypeOK
  BY <1>3, <1>4 DEF TypeOK, Members, Result
<1>6. \A i \in Points : i \in left[task[i]]
  BY <1>2, <1>3, TaskIn
<1>7. \A t \in Tasks : starts[t] = 0
  BY <1>3
<1>8. Once
  BY <1>7 DEF Once
<1>9. RecordsOK
  BY <1>3, <1>6 DEF RecordsOK
<1>10. LoopOK
  BY <1>3, <1>6, <1>7 DEF LoopOK, Judged
<1>11. StartedReady
  BY <1>7 DEF StartedReady
<1>12. ResultsOK
  BY <1>3 DEF ResultsOK, Judged
<1>13. \A i \in Points : task[i] \in Tasks
  BY <1>2, TaskIn
<1>14. PassedFirst
  BY <1>2, <1>3, Positions DEF PassedFirst
<1>15. SettledResults
  BY <1>7, <1>13 DEF SettledResults, Settled
<1>16. RemovedForCause
  BY <1>6 DEF RemovedForCause
<1>17. TreeOK
  BY <1>3, <1>7, <1>8 DEF TreeOK, Settled
<1>18. StartedOnce
  BY <1>8 DEF StartedOnce
<1> QED
  BY <1>1, <1>5, <1>9, <1>10, <1>11, <1>12, <1>14, <1>15, <1>16, <1>17, <1>18 DEF Inv, OnceOK

-----------------------------------------------------------------------------
(* Steps that only look at tasks under way                                 *)

\* No step of the loop changes the plan.
LEMMA PlanStays ==
    ASSUME PlanOK, UNCHANGED plan
    PROVE  /\ dep' = dep /\ task' = task /\ dependents' = dependents /\ scored' = scored
           /\ Tasks' = Tasks
           /\ \A i : Target(i)' = Target(i)
           /\ \A t : Members(t)' = Members(t)
           /\ PlanOK' /\ PlanTyped'
           /\ Tree' <=> Tree
<1>1. dep' = dep /\ task' = task /\ dependents' = dependents /\ scored' = scored
  BY DEF plan
<1>2. Tasks' = Tasks
  BY <1>1 DEF Tasks
<1>3. \A i : Target(i)' = Target(i)
  BY <1>1 DEF Target
<1>4. \A t : Members(t)' = Members(t)
  BY <1>1 DEF Members
<1>5. PlanTyped'
  BY <1>1, <1>2 DEF PlanOK, PlanTyped
<1>6. PlanOK'
  BY <1>1, <1>2, <1>3, <1>4, <1>5 DEF PlanOK
<1>7. Tree' <=> Tree
  BY <1>1, <1>2 DEF Tree
<1> QED
  BY <1>1, <1>2, <1>3, <1>4, <1>5, <1>6, <1>7

\* A task under way was started.
LEMMA LiveStarted ==
    ASSUME TypeOK, LoopOK, NEW t, Live(t)
    PROVE  t \in Tasks /\ starts[t] # 0
<1>1. PICK x \in running \union batch : x[1] = t
  BY DEF Live
<1>2. x[1] \in Tasks /\ x[2] \in Nat \ {0} /\ starts[t] \in Nat /\ x[2] <= starts[t]
  BY <1>1 DEF TypeOK, LoopOK
<1> QED
  BY <1>1, <1>2

\* What a testpoint of a started task depends on is in the same task.
LEMMA WaitsWithin ==
    ASSUME PlanOK, RecordsOK, StartedReady, NEW i \in Points, i \in left[task[i]],
           starts[task[i]] # 0, depOn[i] # 0
    PROVE  /\ depOn[i] \in Points /\ depOn[i] = Target(i) /\ dep[i] # 0
           /\ task[depOn[i]] = task[i] /\ depOn[i] \in left[task[i]]
<1>1. task[i] \in Tasks
  BY TaskIn DEF PlanOK
<1>2. depOn[i] \in left[task[i]]
  BY <1>1 DEF StartedReady
<1>3. depOn[i] \in Members(task[i])
  BY <1>1, <1>2 DEF RecordsOK
<1>4. depOn[i] = Target(i)
  BY DEF RecordsOK
<1>5. dep[i] # 0
  BY <1>4 DEF Target
<1> QED
  BY <1>2, <1>3, <1>4, <1>5 DEF Members

\* A step that at most changes results of tasks under way.
LEMMA QuietStep ==
    ASSUME TypeOK, PlanOK, RecordsOK, LoopOK, StartedReady, ResultsOK, OnceOK, TreeOK,
           UNCHANGED <<plan, records, starts, pending>>,
           running' \union batch' = running \union batch,
           \A i \in Points : results'[i] # results[i] => Live(task[i]) /\ i \in left[task[i]]
    PROVE  /\ RecordsOK' /\ StartedReady' /\ OnceOK' /\ TreeOK'
           /\ \A i \in Points : i \in left'[task[i]] /\ starts'[task[i]] = 0 => results'[i] = "none"
           /\ \A i \in Points : results'[i] = "judging" => Live(task[i])'
           /\ Once' <=> Once
<1>0. PlanTyped
  BY DEF PlanOK
<1>1. /\ dep' = dep /\ task' = task /\ dependents' = dependents
      /\ Tasks' = Tasks
      /\ \A i : Target(i)' = Target(i)
      /\ \A t : Members(t)' = Members(t)
      /\ Tree' <=> Tree /\ scored' = scored
  BY PlanStays
<1>2. left' = left /\ depOn' = depOn /\ starts' = starts /\ pending' = pending
  BY DEF records
<1>3. \A t : Live(t)' <=> Live(t)
  BY DEF Live
<1>4. \A t : Settled(t)' <=> Settled(t)
  BY <1>2, <1>3 DEF Settled
<1>5. Once' <=> Once
  BY <1>1, <1>2 DEF Once
<1>6. \A i \in Points : task[i] \in Tasks
  BY <1>0, TaskIn
<1>7. \A i \in Points : ~Live(task[i]) \/ i \notin left[task[i]] => results'[i] = results[i]
  OBVIOUS
<1>8. RecordsOK'
  BY <1>1, <1>2, <1>7 DEF RecordsOK, Unsatisfied
<1>9. StartedReady'
  BY <1>1, <1>2 DEF StartedReady
<1>10. ASSUME Once, PassedFirst PROVE PassedFirst'
  <2> SUFFICES ASSUME NEW i \in Points, i \in left[task[i]], depOn[i] = 0, dep[i] # 0
               PROVE  /\ Target(i) \in left[task[Target(i)]]
                      /\ Settled(task[Target(i)])
                      /\ results'[Target(i)] = "accepted"
    BY <1>1, <1>2, <1>4 DEF PassedFirst
  <2>1. /\ Target(i) \in left[task[Target(i)]]
        /\ Settled(task[Target(i)])
        /\ results[Target(i)] = "accepted"
    BY <1>10 DEF PassedFirst
  <2>2. Target(i) \in Points
    BY DEF PlanOK
  <2> QED
    BY <1>7, <2>1, <2>2 DEF Settled
<1>11. ASSUME Once, SettledResults PROVE SettledResults'
  <2> SUFFICES ASSUME NEW i \in Points, i \in left[task[i]], Settled(task[i])
               PROVE  /\ results'[i] \in Final
                      /\ results'[i] \in {"accepted", "wrong_answer"} /\ depOn[i] # 0 =>
                            results'[depOn[i]] = "accepted"
                      /\ results'[i] = "skipped" => depOn[i] # 0 /\ results'[depOn[i]] \in Final \ {"accepted"}
    BY <1>1, <1>2, <1>4 DEF SettledResults
  <2>1. /\ results[i] \in Final
        /\ results[i] \in {"accepted", "wrong_answer"} /\ depOn[i] # 0 => results[depOn[i]] = "accepted"
        /\ results[i] = "skipped" => depOn[i] # 0 /\ results[depOn[i]] \in Final \ {"accepted"}
    BY <1>11 DEF SettledResults
  <2>2. results'[i] = results[i]
    BY <1>7 DEF Settled
  <2>3. depOn[i] # 0 => results'[depOn[i]] = results[depOn[i]]
    BY <1>7, WaitsWithin DEF Settled
  <2> QED
    BY <2>1, <2>2, <2>3
<1>12. ASSUME Once, RemovedForCause PROVE RemovedForCause'
  <2> SUFFICES ASSUME NEW i \in Points, i \notin left[task[i]]
               PROVE  /\ dep[i] # 0
                      /\ results'[Target(i)] \in Final \ {"accepted"}
                      /\ Target(i) \in left[task[Target(i)]] => Settled(task[Target(i)])
    BY <1>1, <1>2, <1>4 DEF RemovedForCause
  <2>1. /\ dep[i] # 0
        /\ results[Target(i)] \in Final \ {"accepted"}
        /\ Target(i) \in left[task[Target(i)]] => Settled(task[Target(i)])
    BY <1>12 DEF RemovedForCause
  <2>2. Target(i) \in Points
    BY <2>1 DEF PlanOK
  <2> QED
    BY <1>7, <2>1, <2>2 DEF Settled
<1>13. OnceOK'
  BY <1>5, <1>10, <1>11, <1>12 DEF OnceOK
<1>14. TreeOK'
  BY <1>1, <1>2, <1>4, <1>5 DEF TreeOK
<1>15. ASSUME NEW i \in Points, i \in left[task[i]], starts[task[i]] = 0 PROVE results'[i] = "none"
  <2>1. ~Live(task[i])
    BY <1>15, LiveStarted
  <2> QED
    BY <1>7, <1>15, <2>1 DEF ResultsOK
<1>16. ASSUME NEW i \in Points, results'[i] = "judging" PROVE Live(task[i])'
  <2>1. Live(task[i])
    BY <1>7, <1>16 DEF ResultsOK
  <2> QED
    BY <1>1, <1>3, <2>1
<1> QED
  BY <1>1, <1>2, <1>5, <1>8, <1>9, <1>13, <1>14, <1>15, <1>16

\* Inv of a run that is not cancelled.
Running ==
    /\ TypeOK /\ PlanOK /\ RecordsOK /\ LoopOK /\ StartedReady /\ ResultsOK /\ OnceOK /\ TreeOK
    /\ phase # "aborted"

\* The two forms of the invariant agree until the run is cancelled.
LEMMA RunningInv == (Inv /\ phase # "aborted") <=> Running
<1>1. TreeOK => StartedOnce
  BY DEF TreeOK, StartedOnce
<1> QED
  BY <1>1 DEF Inv, Running

\* An answer has a final result for each testpoint left.
LEMMA AnswersTyped == \A t : \A v \in Answers(t) : v \in [left[t] -> Final]
  BY DEF Answers

\* onprogress keeps the invariant.
LEMMA ReportStep ==
    ASSUME Running, NEW x \in running, OnStarted(x) \/ OnProgress(x)
    PROVE  Running'
<1> USE DEF Running
<1>1. /\ phase = "wait" /\ phase' = phase
      /\ UNCHANGED <<plan, records, starts, pending, running, batch>>
  BY DEF OnStarted, OnProgress
<1>2. Live(x[1]) /\ x[1] \in Tasks /\ left[x[1]] \subseteq Members(x[1])
  BY DEF Live, TypeOK, RecordsOK
<1>3. results' \in [Points -> Result]
      /\ \A i \in Points : results'[i] # results[i] => i \in left[x[1]]
  <2>1. results \in [Points -> Result]
    BY DEF TypeOK
  <2>2. CASE OnStarted(x)
    BY <2>1, <2>2 DEF OnStarted, Result
  <2>3. CASE OnProgress(x)
    <3>1. PICK v \in Answers(x[1]), n \in left[x[1]] :
             results' = [i \in Points |->
                 IF i \in left[x[1]] /\ i <= n /\ results[i] \in {"none", "judging"}
                 THEN v[i] ELSE results[i]]
      BY <2>3 DEF OnProgress
    <3>2. v \in [left[x[1]] -> Final]
      BY AnswersTyped
    <3> QED
      BY <2>1, <3>1, <3>2 DEF Result
  <2> QED
    BY <2>2, <2>3
<1>4. \A i \in Points : results'[i] # results[i] => Live(task[i]) /\ i \in left[task[i]]
  BY <1>2, <1>3 DEF Members
<1>5. PlanOK' /\ Tasks' = Tasks /\ task' = task /\ scored' = scored
  BY <1>1, PlanStays
<1>6. TypeOK'
  BY <1>1, <1>3, <1>5 DEF TypeOK, records, Unsatisfied
<1>7. LoopOK'
  BY <1>1, <1>5 DEF LoopOK
<1>8. /\ RecordsOK' /\ StartedReady' /\ OnceOK' /\ TreeOK'
      /\ \A i \in Points : i \in left'[task[i]] /\ starts'[task[i]] = 0 => results'[i] = "none"
      /\ \A i \in Points : results'[i] = "judging" => Live(task[i])'
  BY <1>1, <1>4, QuietStep
<1>9. ResultsOK'
  BY <1>1, <1>5, <1>8 DEF ResultsOK, Judged
<1> QED
  BY <1>1, <1>5, <1>6, <1>7, <1>8, <1>9

\* wait() keeps the invariant.
LEMMA WakeStep == ASSUME Running, Wake PROVE Running'
<1> USE DEF Running
<1>1. /\ phase = "wait" /\ phase' = "done"
      /\ UNCHANGED <<plan, records, starts, pending, results>>
  BY DEF Wake
<1>2. PICK done \in SUBSET running : batch' = done /\ running' = running \ done
  BY DEF Wake
<1>3. batch = {}
  BY <1>1 DEF LoopOK
<1>4. running' \union batch' = running \union batch /\ running' \cap batch' = {}
  BY <1>2, <1>3
<1>5. PlanOK' /\ Tasks' = Tasks /\ task' = task /\ scored' = scored
  BY <1>1, PlanStays
<1>6. TypeOK'
  BY <1>1, <1>2, <1>5 DEF TypeOK, records, Unsatisfied
<1>7. \A x \in running' \union batch' : x[2] <= starts'[x[1]]
  BY <1>1, <1>4 DEF LoopOK
<1>8. LoopOK'
  BY <1>1, <1>4, <1>7 DEF LoopOK, Judged
<1>9. /\ RecordsOK' /\ StartedReady' /\ OnceOK' /\ TreeOK'
      /\ \A i \in Points : i \in left'[task[i]] /\ starts'[task[i]] = 0 => results'[i] = "none"
      /\ \A i \in Points : results'[i] = "judging" => Live(task[i])'
  BY <1>1, <1>4, QuietStep
<1>10. ResultsOK'
  BY <1>1, <1>5, <1>9 DEF ResultsOK, Judged
<1> QED
  BY <1>1, <1>5, <1>6, <1>8, <1>9, <1>10

\* synthesize_scores keeps the invariant.
LEMMA SynthesizeStep == ASSUME Running, Synthesize PROVE Running'
<1> USE DEF Running
<1>1. /\ phase = "synthesize" /\ phase' \in {"loop detected"} \union Judged
      /\ UNCHANGED <<plan, records, starts, pending, results, running, batch>>
      /\ phase' \in Judged => \A i \in scored : results[i] # "none"
  BY DEF Synthesize, Judged
<1>2. running = {} /\ batch = {} /\ pending = {}
  BY <1>1 DEF LoopOK
<1>3. running' \union batch' = running \union batch
  BY <1>1
<1>4. PlanOK' /\ Tasks' = Tasks /\ task' = task /\ scored' = scored
  BY <1>1, PlanStays
<1>5. TypeOK'
  BY <1>1, <1>4 DEF TypeOK, records, Unsatisfied, Verdicts
<1>6. LoopOK'
  BY <1>1, <1>2 DEF LoopOK, Judged
<1>7. /\ RecordsOK' /\ StartedReady' /\ OnceOK' /\ TreeOK'
      /\ \A i \in Points : i \in left'[task[i]] /\ starts'[task[i]] = 0 => results'[i] = "none"
      /\ \A i \in Points : results'[i] = "judging" => Live(task[i])'
  BY <1>1, <1>3, QuietStep
<1>8. ResultsOK'
  BY <1>1, <1>4, <1>7 DEF ResultsOK
<1>9. phase' # "aborted"
  BY <1>1 DEF Judged
<1> QED
  BY <1>4, <1>5, <1>6, <1>7, <1>8, <1>9

\* So does a cancellation, of which only the type, the plan and the starts stay.
LEMMA CancelStep == ASSUME Running, Cancel PROVE Inv'
<1> USE DEF Running
<1>1. /\ phase' = "aborted" /\ running' = {}
      /\ UNCHANGED <<plan, records, results, starts, batch, pending>>
  BY DEF Cancel
<1>2. PlanOK' /\ Tasks' = Tasks /\ (Tree' <=> Tree) /\ scored' = scored
  BY <1>1, PlanStays
<1>3. TypeOK'
  BY <1>1, <1>2 DEF TypeOK, records, Unsatisfied, Verdicts
<1>4. StartedOnce'
  BY <1>1, <1>2 DEF TreeOK, StartedOnce, Once
<1> QED
  BY <1>1, <1>2, <1>3, <1>4 DEF Inv

-----------------------------------------------------------------------------
(* Steps that start tasks                                                  *)

\* Starting tasks that wait for nothing keeps the invariant.
LEMMA StartStep ==
    ASSUME Running, phase # "wait", batch = {}, UNCHANGED <<plan, records, results, batch>>, pending' = {},
           NEW ready \in SUBSET Tasks, StartReady(ready), \A t \in ready : DependenciesSatisfied(t),
           Tree => \A t \in ready : left[t] # {} =>
               starts[t] = 0 /\ \A u \in Tasks : t \in dependents[u] /\ u # t => Settled(u)
    PROVE  Running'
<1> USE DEF Running
<1> DEFINE go == {t \in ready : left[t] # {}}
<1>0. PlanTyped /\ \A i \in Points : task[i] \in Tasks
  BY TaskIn DEF PlanOK
<1>1. /\ starts' = [t \in Tasks |-> starts[t] + (IF t \in go THEN 1 ELSE 0)]
      /\ running' = running \union {<<t, starts[t] + 1>> : t \in go}
      /\ phase' = IF running' = {} THEN "synthesize" ELSE "wait"
  BY DEF StartReady
<1>2. /\ PlanOK' /\ Tasks' = Tasks /\ task' = task /\ dep' = dep /\ dependents' = dependents /\ scored' = scored
      /\ (Tree' <=> Tree) /\ (\A i : Target(i)' = Target(i)) /\ (\A t : Members(t)' = Members(t))
  BY PlanStays
<1>3. left' = left /\ depOn' = depOn /\ results' = results /\ batch' = {} /\ pending' = {}
  BY DEF records
<1>4. starts \in [Tasks -> Nat] /\ running \subseteq Tasks \X (Nat \ {0})
  BY DEF TypeOK
<1>5. go \subseteq Tasks /\ go \subseteq ready
  OBVIOUS
<1>6. \A t \in go : DependenciesSatisfied(t) /\ left[t] # {}
  OBVIOUS
<1>7. Tree => \A t \in go : starts[t] = 0 /\ \A u \in Tasks : t \in dependents[u] /\ u # t => Settled(u)
  OBVIOUS
<1> HIDE DEF go
<1>8. \A t \in Tasks : starts'[t] \in Nat /\ starts'[t] = IF t \in go THEN starts[t] + 1 ELSE starts[t]
  BY <1>1, <1>4
<1>9. running' \subseteq Tasks \X (Nat \ {0})
  <2>1. \A t \in go : starts[t] + 1 \in Nat \ {0}
    BY <1>4, <1>5
  <2> QED
    BY <1>1, <1>4, <1>5, <2>1
<1>10. TypeOK'
  <2>1. starts' \in [Tasks -> Nat]
    BY <1>1, <1>8
  <2> QED
    BY <1>1, <1>2, <1>3, <1>9, <2>1 DEF TypeOK, Unsatisfied
<1>11. LoopOK'
  <2>1. ASSUME NEW x \in running' PROVE x[2] <= starts'[x[1]]
    <3>1. CASE x \in running
      <4>1. x[1] \in Tasks /\ x[2] \in Nat /\ x[2] <= starts[x[1]]
        BY <1>4, <3>1 DEF LoopOK
      <4>2. starts[x[1]] \in Nat
        BY <1>4, <4>1
      <4> QED
        BY <1>8, <4>1, <4>2
    <3>2. CASE x \in {<<t, starts[t] + 1>> : t \in go}
      <4>1. PICK t \in go : x = <<t, starts[t] + 1>>
        BY <3>2
      <4>2. x[1] = t /\ x[2] = starts[t] + 1 /\ t \in Tasks
        BY <1>5, <4>1
      <4> QED
        BY <1>4, <1>8, <4>2
    <3> QED
      BY <1>1, <2>1, <3>1, <3>2
  <2> QED
    BY <1>1, <1>3, <2>1 DEF LoopOK, Judged
<1>12. RecordsOK'
  BY <1>2, <1>3 DEF RecordsOK, Unsatisfied
<1>13. StartedReady'
  <2> SUFFICES ASSUME NEW t \in Tasks, starts'[t] # 0, NEW i \in left[t]
               PROVE  depOn[i] \in {0} \union left[t]
    BY <1>2, <1>3 DEF StartedReady
  <2>1. CASE starts[t] # 0
    BY <2>1 DEF StartedReady
  <2>2. CASE t \in go
    <3>1. depOn[i] \in {0, Unsatisfied} \union left[t]
      BY <1>6, <2>2 DEF DependenciesSatisfied
    <3>2. i \in Points /\ task[i] = t
      BY DEF RecordsOK, Members
    <3>3. depOn[i] \in {0, Target(i)}
      BY <3>2 DEF RecordsOK
    <3>4. Target(i) # Unsatisfied
      <4>1. dep[i] = 0 => Target(i) = 0
        BY DEF Target
      <4>2. dep[i] # 0 => Target(i) \in Points
        BY <3>2 DEF PlanOK
      <4> QED
        BY <4>1, <4>2, Positions
    <3>5. Unsatisfied # 0
      BY Positions
    <3> QED
      BY <3>1, <3>3, <3>4, <3>5
  <2> QED
    BY <1>8, <2>1, <2>2
<1>14. \A t \in Tasks : Live(t)' <=> Live(t) \/ t \in go
  <2> SUFFICES ASSUME NEW t \in Tasks PROVE Live(t)' <=> Live(t) \/ t \in go
    OBVIOUS
  <2>1. ASSUME Live(t)' PROVE Live(t) \/ t \in go
    <3>1. PICK x \in running' : x[1] = t
      BY <1>3, <2>1 DEF Live
    <3>2. CASE x \in running
      BY <3>1, <3>2 DEF Live
    <3>3. CASE x \in {<<u, starts[u] + 1>> : u \in go}
      BY <3>1, <3>3
    <3> QED
      BY <1>1, <3>1, <3>2, <3>3
  <2>2. ASSUME Live(t) PROVE Live(t)'
    BY <1>1, <1>3, <2>2 DEF Live
  <2>3. ASSUME t \in go PROVE Live(t)'
    <3>1. <<t, starts[t] + 1>> \in running'
      BY <1>1, <2>3
    <3>2. <<t, starts[t] + 1>>[1] = t
      OBVIOUS
    <3> QED
      BY <3>1, <3>2 DEF Live
  <2> QED
    BY <2>1, <2>2, <2>3
<1>15. ResultsOK'
  <2>1. phase' \notin Judged
    BY <1>1 DEF Judged
  <2>2. \A i \in Points : i \in left[task[i]] /\ starts'[task[i]] = 0 => results[i] = "none"
    BY <1>0, <1>4, <1>8 DEF ResultsOK
  <2>3. \A i \in Points : results[i] = "judging" => Live(task[i])'
    BY <1>0, <1>2, <1>14 DEF ResultsOK
  <2> QED
    BY <1>2, <1>3, <2>1, <2>2, <2>3 DEF ResultsOK
<1>16. Once' => Once
  BY <1>2, <1>4, <1>8 DEF Once
<1>17. ASSUME Once' PROVE \A t \in Tasks : Settled(t)' <=> Settled(t)
  <2> SUFFICES ASSUME NEW t \in Tasks PROVE Settled(t)' <=> Settled(t)
    OBVIOUS
  <2>1. starts'[t] <= 1 /\ starts[t] \in Nat
    BY <1>2, <1>4, <1>17 DEF Once
  <2>2. CASE t \in go
    <3>1. starts[t] = 0
      BY <1>8, <2>1, <2>2
    <3> QED
      BY <1>14, <2>2, <3>1 DEF Settled
  <2>3. CASE t \notin go
    BY <1>8, <1>14, <2>3 DEF Settled
  <2> QED
    BY <2>2, <2>3
<1>18. ASSUME Once' PROVE (PassedFirst /\ SettledResults /\ RemovedForCause)'
  <2>1. PassedFirst /\ SettledResults /\ RemovedForCause
    BY <1>16, <1>18 DEF OnceOK
  <2>2. \A i \in Points : dep[i] # 0 => task[Target(i)] \in Tasks
    BY <1>0 DEF PlanOK
  <2>3. PassedFirst'
    BY <1>0, <1>2, <1>3, <1>17, <1>18, <2>1, <2>2 DEF PassedFirst
  <2>4. SettledResults'
    BY <1>0, <1>2, <1>3, <1>17, <1>18, <2>1 DEF SettledResults
  <2>5. RemovedForCause'
    BY <1>0, <1>2, <1>3, <1>17, <1>18, <2>1, <2>2 DEF RemovedForCause
  <2> QED
    BY <2>3, <2>4, <2>5
<1>19. ASSUME Tree PROVE Once'
  <2>1. Once
    BY <1>19 DEF TreeOK
  <2> QED
    BY <1>2, <1>4, <1>7, <1>8, <1>19, <2>1 DEF Once
<1>20. TreeOK'
  <2> SUFFICES ASSUME Tree
               PROVE  /\ \A t, u \in Tasks : starts'[t] # 0 /\ t \in dependents[u] /\ u # t => Settled(u)
                      /\ \A t \in Tasks : t \in dependents[t] /\ Settled(t) => left[t] = {}
    BY <1>2, <1>3, <1>17, <1>19 DEF TreeOK
  <2>1. ASSUME NEW t \in Tasks, NEW u \in Tasks, starts'[t] # 0, t \in dependents[u], u # t
        PROVE  Settled(u)
    BY <1>7, <1>8, <2>1 DEF TreeOK
  <2> QED
    BY <2>1 DEF TreeOK
<1>21. phase' # "aborted"
  BY <1>1
<1> QED
  BY <1>2, <1>10, <1>11, <1>12, <1>13, <1>15, <1>18, <1>20, <1>21 DEF OnceOK

\* The first round starts no task that depends on another.
LEMMA BeginStep == ASSUME Running, Begin PROVE Running'
<1> USE DEF Running
<1> DEFINE ready == {t \in Tasks : DependenciesSatisfied(t)}
<1>1. /\ phase = "begin" /\ StartReady(ready) /\ UNCHANGED <<plan, records, results, batch>>
      /\ pending' = pending
  BY DEF Begin
<1>2. batch = {} /\ pending = {} /\ \A t \in Tasks : starts[t] = 0
  BY <1>1 DEF LoopOK
<1>3. ready \in SUBSET Tasks /\ \A t \in ready : DependenciesSatisfied(t)
  OBVIOUS
<1> HIDE DEF ready
<1>4. ASSUME NEW t \in ready, NEW u \in Tasks, t \in dependents[u], u # t PROVE FALSE
  <2>1. PICK i \in Members(t) : dep[i] # 0 /\ task[Target(i)] = u
    BY <1>4 DEF PlanOK
  <2>2. i \in Points /\ task[i] = t /\ t \in Tasks
    BY <1>3 DEF Members
  <2>3. i \in left[t] /\ i \in left[task[i]] /\ Target(i) \in Points
    BY <1>1, <2>1, <2>2 DEF LoopOK, PlanOK
  <2>4. depOn[i] # 0
    <3>1. Once
      BY <1>2 DEF Once
    <3>2. PassedFirst
      BY <3>1 DEF OnceOK
    <3>3. task[Target(i)] \in Tasks
      BY <1>4, <2>1
    <3> QED
      BY <1>2, <2>1, <2>2, <2>3, <3>2, <3>3 DEF PassedFirst, Settled
  <2>5. depOn[i] = Target(i)
    BY <2>2, <2>3, <2>4 DEF RecordsOK
  <2>6. depOn[i] \in {0, Unsatisfied} \union left[t]
    BY <1>3, <2>3 DEF DependenciesSatisfied
  <2>7. Target(i) \in left[t]
    BY <2>3, <2>4, <2>5, <2>6, Positions
  <2>8. task[Target(i)] = t
    BY <2>2, <2>7 DEF RecordsOK, Members
  <2> QED
    BY <1>4, <2>1, <2>8
<1> QED
  BY <1>1, <1>2, <1>3, <1>4, StartStep

\* The next rounds; in a tree, the one task that a dependent waited for has ended.
LEMMA NextRoundStep == ASSUME Running, NextRound PROVE Running'
<1> USE DEF Running
<1> DEFINE ready == {t \in pending : DependenciesSatisfied(t)}
<1>1. /\ phase = "done" /\ batch = {} /\ StartReady(ready)
      /\ UNCHANGED <<plan, records, results, batch>> /\ pending' = {}
  BY DEF NextRound
<1>2. ready \in SUBSET Tasks /\ ready \subseteq pending /\ \A t \in ready : DependenciesSatisfied(t)
  BY DEF TypeOK
<1> HIDE DEF ready
<1>3. ASSUME Tree, NEW t \in ready, left[t] # {}
      PROVE  starts[t] = 0 /\ \A u \in Tasks : t \in dependents[u] /\ u # t => Settled(u)
  <2>1. starts[t] = 0 /\ \E w \in Tasks : w # t /\ Settled(w) /\ t \in dependents[w]
    BY <1>2, <1>3 DEF TreeOK
  <2>2. PICK w \in Tasks : w # t /\ Settled(w) /\ t \in dependents[w]
    BY <2>1
  <2>3. ASSUME NEW u \in Tasks, t \in dependents[u] PROVE u = w
    <3> DEFINE P == {v \in Tasks : t \in dependents[v]}
    <3>1. u \in P /\ w \in P /\ P \in SUBSET Tasks
      BY <2>2, <2>3
    <3>2. Cardinality(P) <= 1
      BY <1>2, <1>3 DEF Tree
    <3> HIDE DEF P
    <3>3. IsFiniteSet(P) /\ Cardinality(P) \in Nat
      BY <3>1, FinitePoints DEF PlanOK
    <3>4. Cardinality(P) # 0
      BY <3>1, <3>3, FS_EmptySet
    <3>5. Cardinality(P) = 1
      BY <3>2, <3>3, <3>4
    <3>6. \E p : P = {p}
      BY <3>3, <3>5, FS_Singleton
    <3> QED
      BY <3>1, <3>6
  <2> QED
    BY <2>1, <2>2, <2>3
<1> QED
  BY <1>1, <1>2, <1>3, StartStep

-----------------------------------------------------------------------------
(* A task has ended                                                        *)

\* The results of a task, answered or in error, are consistent.
Judgement(t, over, accepted) ==
    /\ over \in [DOMAIN over -> Final]
    /\ left[t] \subseteq DOMAIN over
    /\ DOMAIN over \subseteq Members(t)
    /\ accepted = {i \in left[t] : over[i] = "accepted"}
    /\ \A i \in DOMAIN over \ left[t] : over[i] = "system_error"
    /\ \A i \in left[t] :
          /\ depOn[i] = i => over[i] = "system_error"
          /\ over[i] \in {"accepted", "wrong_answer"} /\ depOn[i] \in left[t] => over[depOn[i]] = "accepted"
          /\ over[i] = "skipped" => depOn[i] \in left[t] /\ over[depOn[i]] # "accepted"

\* Both outcomes of a task are judgements.
LEMMA SettleJudges ==
    ASSUME Running, NEW x \in batch, Settle(x)
    PROVE  \E over, accepted : Judgement(x[1], over, accepted) /\ Record(x[1], over, accepted)
<1> DEFINE t == x[1]
<1>1. t \in Tasks /\ left[t] \subseteq Members(t)
  BY DEF Running, TypeOK, RecordsOK
<1> HIDE DEF t
<1>2. ASSUME NEW v \in Answers(t), Record(t, v, {i \in left[t] : v[i] = "accepted"})
      PROVE  \E over, accepted : Judgement(t, over, accepted) /\ Record(t, over, accepted)
  <2>1. v \in [left[t] -> Final] /\ DOMAIN v = left[t]
    BY AnswersTyped
  <2>2. \A i \in left[t] :
           IF depOn[i] = i THEN v[i] = "system_error"
           ELSE IF depOn[i] \in left[t] /\ v[depOn[i]] # "accepted" THEN v[i] = "skipped"
           ELSE v[i] # "skipped"
    BY DEF Answers
  <2>3. \A i \in left[t] :
           /\ depOn[i] = i => v[i] = "system_error"
           /\ v[i] \in {"accepted", "wrong_answer"} /\ depOn[i] \in left[t] => v[depOn[i]] = "accepted"
           /\ v[i] = "skipped" => depOn[i] \in left[t] /\ v[depOn[i]] # "accepted"
    BY <2>2
  <2>4. Judgement(t, v, {i \in left[t] : v[i] = "accepted"})
    BY <1>1, <2>1, <2>3 DEF Judgement
  <2> QED
    BY <1>2, <2>4
<1>3. ASSUME Record(t, [i \in Members(t) |-> "system_error"], {})
      PROVE  \E over, accepted : Judgement(t, over, accepted) /\ Record(t, over, accepted)
  <2> DEFINE v == [i \in Members(t) |-> "system_error"]
  <2>1. v \in [Members(t) -> Final] /\ DOMAIN v = Members(t) /\ \A i \in Members(t) : v[i] = "system_error"
    BY DEF Final
  <2> HIDE DEF v
  <2>2. {} = {i \in left[t] : v[i] = "accepted"}
    BY <1>1, <2>1
  <2>3. \A i \in left[t] :
           /\ depOn[i] = i => v[i] = "system_error"
           /\ v[i] \in {"accepted", "wrong_answer"} /\ depOn[i] \in left[t] => v[depOn[i]] = "accepted"
           /\ v[i] = "skipped" => depOn[i] \in left[t] /\ v[depOn[i]] # "accepted"
    BY <1>1, <2>1
  <2>4. Judgement(t, v, {})
    BY <1>1, <2>1, <2>2, <2>3 DEF Judgement
  <2> QED
    BY <1>3, <2>4 DEF v
<1>4. \/ \E v \in Answers(t) : Record(t, v, {i \in left[t] : v[i] = "accepted"})
      \/ Record(t, [i \in Members(t) |-> "system_error"], {})
  BY DEF Settle, t
<1>5. \E over, accepted : Judgement(t, over, accepted) /\ Record(t, over, accepted)
  BY <1>2, <1>3, <1>4
<1> QED
  BY <1>5 DEF t

\* The testpoints that the step removes.
Drops == {i \in Points : i \in left[task[i]] /\ i \notin left'[task[i]]}

Overwritten(over, i) == IF i \in DOMAIN over THEN over[i] ELSE results[i]

\* What recording a judgement does to the records and the results.
LEMMA RecordEffect ==
    ASSUME Running, NEW t \in Tasks, starts[t] # 0, NEW over, NEW accepted,
           Judgement(t, over, accepted), Record(t, over, accepted)
    PROVE  /\ left' \in [Tasks -> SUBSET Points]
           /\ depOn' \in [Points -> 0..Unsatisfied]
           /\ results' \in [Points -> Result]
           /\ \A u \in Tasks : left'[u] \subseteq left[u]
           /\ \A i \in Points \ Drops :
                 /\ results'[i] = Overwritten(over, i)
                 /\ depOn'[i] = depOn[i] \/ (depOn'[i] = 0 /\ depOn[i] \in accepted)
           /\ \A i \in Drops :
                 /\ results'[i] = "skipped"
                 /\ depOn'[i] = Unsatisfied
                 /\ depOn[i] \in (left[t] \ accepted) \union Drops
           /\ \A u \in Tasks : starts[u] # 0 /\ u # t => left'[u] = left[u]
           /\ accepted \cap Drops = {}
           /\ left'[t] = left[t] \/ (left'[t] = {} /\ \E k : left[t] = {k} /\ depOn[k] = k)
           /\ \A u \in dependents[t] : \A i \in left'[u] : depOn[i] \notin left[t] \ accepted
<1> USE DEF Running
<1> DEFINE r0 == [i \in Points |-> IF i \in DOMAIN over THEN over[i] ELSE results[i]]
           st == [left |-> left, depOn |-> depOn, results |-> r0]
           U == left[t] \ accepted
           out == RemoveSkipped(st, dependents[t], accepted, U)
<1>0. PlanTyped
  BY DEF PlanOK
<1>1. /\ left \in [Tasks -> SUBSET Points]
      /\ depOn \in [Points -> 0..Unsatisfied]
      /\ results \in [Points -> Result]
  BY DEF TypeOK
<1>2. /\ \A u \in Tasks : left[u] \subseteq Members(u)
      /\ left[t] \subseteq Members(t)
  BY DEF RecordsOK
<1>3. r0 \in [Points -> Result]
  <2>1. \A i \in DOMAIN over : over[i] \in Result
    BY DEF Judgement, Result
  <2> QED
    BY <1>1, <2>1
<1>4. left' = out.left /\ depOn' = out.depOn /\ results' = out.results
  BY DEF Record
<1>5. st.left = left /\ st.depOn = depOn /\ st.results = r0
  OBVIOUS
<1>6. \A i \in Points : r0[i] = Overwritten(over, i)
  BY DEF Overwritten
<1> HIDE DEF r0
<1>7. st \in State
  BY <1>1, <1>3 DEF State
<1> HIDE DEF st
<1>8. Sound(st)
  BY <1>2, <1>5, <1>7 DEF Sound
<1>9. accepted \in SUBSET Points /\ U \in SUBSET Points /\ accepted \cap U = {} /\ accepted \subseteq left[t]
  BY <1>1 DEF Judgement
<1>10. dependents[t] \in SUBSET Tasks
  BY <1>0 DEF PlanTyped
<1> HIDE DEF U, out
<1>11. /\ Sound(out)
       /\ Effect(st, out, accepted, U)
       /\ \A V \in SUBSET Tasks :
             dependents[t] \subseteq V /\ (\A v \in V : dependents[v] \subseteq V) =>
                 \A i \in Gone(st, out) : task[i] \in V
       /\ \A i \in Points : Has(out, i) /\ task[i] \in dependents[t] => st.depOn[i] \notin U
  <2>1. SkipsTo(st, dependents[t], accepted, U, RemoveSkipped(st, dependents[t], accepted, U))
    BY <1>0, <1>8, <1>9, <1>10, SkippingOutcome
  <2> QED
    BY <2>1 DEF SkipsTo, out
<1>12. out \in State /\ \A u \in Tasks : out.left[u] \subseteq Members(u)
  BY <1>11 DEF Sound
<1>13. /\ left' \in [Tasks -> SUBSET Points]
       /\ depOn' \in [Points -> 0..Unsatisfied]
       /\ results' \in [Points -> Result]
  BY <1>4, <1>12, StateTyped
<1>14. Gone(st, out) = Drops
  BY <1>4, <1>5 DEF Gone, Drops, Has
<1>15. \A u \in Tasks : left'[u] \subseteq left[u]
  BY <1>4, <1>5, <1>11 DEF Effect
<1>16. \A i \in Points \ Drops :
          /\ results'[i] = Overwritten(over, i)
          /\ depOn'[i] = depOn[i] \/ (depOn'[i] = 0 /\ depOn[i] \in accepted)
  BY <1>4, <1>5, <1>6, <1>11, <1>14 DEF Effect
<1>17. \A i \in Drops :
          /\ results'[i] = "skipped"
          /\ depOn'[i] = Unsatisfied
          /\ depOn[i] \in U \union Drops
  BY <1>4, <1>5, <1>11, <1>14 DEF Effect
<1>18. \A C \in SUBSET Points :
          (\A i \in Points : i \in left[task[i]] /\ depOn[i] \in U \union C => i \in C) => Drops \subseteq C
  BY <1>5, <1>11, <1>14 DEF Effect, Has
<1>19. \A i \in Points : task[i] \in Tasks
  BY <1>0, TaskIn
<1>20. 0 \notin Points
  BY Positions
<1>21. \A u \in Tasks : \A i \in left[u] : i \in Points /\ task[i] = u
  BY <1>2 DEF Members
<1>22. ASSUME NEW u \in Tasks, starts[u] # 0, u # t PROVE left'[u] = left[u]
  <2> DEFINE C == Points \ left[u]
  <2>1. ASSUME NEW i \in Points, i \in left[task[i]], depOn[i] \in U \union C PROVE i \in C
    <3> SUFFICES ASSUME i \in left[u] PROVE FALSE
      OBVIOUS
    <3>1. depOn[i] \in {0} \union left[u]
      BY <1>22 DEF StartedReady
    <3>2. depOn[i] \in left[u]
      BY <1>9, <1>20, <2>1, <3>1
    <3>3. depOn[i] \in left[t]
      BY <2>1, <3>2 DEF U
    <3> QED
      BY <1>21, <1>22, <3>2, <3>3
  <2>2. C \in SUBSET Points
    OBVIOUS
  <2> HIDE DEF C
  <2>3. Drops \subseteq C
    BY <1>18, <2>1, <2>2
  <2>4. ASSUME NEW i \in left[u] PROVE i \in left'[u]
    <3>1. i \in Points /\ task[i] = u
      BY <1>21, <2>4
    <3>2. i \notin Drops
      BY <2>3 DEF C
    <3> QED
      BY <3>1, <3>2 DEF Drops
  <2> QED
    BY <1>15, <2>4
<1>23. accepted \cap Drops = {}
  <2> DEFINE C == Points \ accepted
  <2>1. ASSUME NEW i \in Points, i \in left[task[i]], depOn[i] \in U \union C PROVE i \in C
    <3> SUFFICES ASSUME i \in accepted PROVE FALSE
      OBVIOUS
    <3>1. i \in left[t] /\ over[i] = "accepted"
      BY DEF Judgement
    <3>2. depOn[i] \in {0} \union left[t]
      BY <3>1 DEF StartedReady
    <3>3. depOn[i] \in left[t]
      BY <1>9, <1>20, <2>1, <3>2
    <3>4. over[depOn[i]] = "accepted"
      BY <3>1, <3>3 DEF Judgement
    <3>5. depOn[i] \in accepted
      BY <3>3, <3>4 DEF Judgement
    <3> QED
      BY <2>1, <3>5 DEF U
  <2>2. C \in SUBSET Points
    OBVIOUS
  <2> HIDE DEF C
  <2>3. Drops \subseteq C
    BY <1>18, <2>1, <2>2
  <2> QED
    BY <2>3 DEF C
<1>24. left'[t] = left[t] \/ (left'[t] = {} /\ \E k : left[t] = {k} /\ depOn[k] = k)
  <2>1. CASE \A v \in Tasks : \A u \in dependents[v] : u > v
    <3> DEFINE V == {v \in Tasks : v > t}
    <3>1. Tasks \subseteq Nat
      BY <1>0, TasksArePoints, Positions
    <3>2. dependents[t] \subseteq V
      BY <1>10, <2>1
    <3>3. ASSUME NEW v \in V, NEW u \in dependents[v] PROVE u \in V
      <4>1. u > v /\ v > t /\ u \in Tasks
        BY <1>0, <2>1 DEF PlanTyped
      <4>2. t \in Nat /\ u \in Nat /\ v \in Nat
        BY <3>1, <4>1
      <4>3. u > t
        BY <4>1, <4>2
      <4> QED
        BY <4>1, <4>3
    <3>4. V \in SUBSET Tasks /\ t \notin V
      BY <3>1
    <3> HIDE DEF V
    <3>5. \A i \in Drops : task[i] \in V
      BY <1>11, <1>14, <3>2, <3>3, <3>4
    <3>6. ASSUME NEW i \in left[t] PROVE i \in left'[t]
      BY <1>21, <3>4, <3>5 DEF Drops
    <3> QED
      BY <1>15, <3>6
  <2>2. CASE \A i, k \in Points : task[i] = task[k] => i = k
    <3>1. CASE \E k \in left[t] : k \notin left'[t]
      <4>1. PICK k \in left[t] : k \notin left'[t]
        BY <3>1
      <4>2. left[t] = {k}
        BY <1>21, <2>2
      <4>3. left'[t] = {}
        BY <1>15, <4>1, <4>2
      <4>4. k \in Points /\ task[k] = t /\ k \in Drops
        BY <1>21, <4>1 DEF Drops
      <4>5. depOn[k] \in Points
        BY <1>9, <1>17, <4>4 DEF Drops
      <4>6. depOn[k] \in {0} \union left[t]
        BY <4>1 DEF StartedReady
      <4>7. depOn[k] = k
        BY <1>20, <4>2, <4>5, <4>6
      <4> QED
        BY <4>2, <4>3, <4>7
    <3>2. CASE \A k \in left[t] : k \in left'[t]
      BY <1>15, <3>2
    <3> QED
      BY <3>1, <3>2
  <2> QED
    BY <2>1, <2>2 DEF PlanOK
<1>25. \A u \in dependents[t] : \A i \in left'[u] : depOn[i] \notin U
  <2> SUFFICES ASSUME NEW u \in dependents[t], NEW i \in left'[u] PROVE depOn[i] \notin U
    OBVIOUS
  <2>1. u \in Tasks
    BY <1>10
  <2>2. i \in Points /\ task[i] = u
    BY <1>15, <1>21, <2>1
  <2>3. Has(out, i)
    BY <1>4, <2>2 DEF Has
  <2> QED
    BY <1>5, <1>11, <2>2, <2>3
<1> QED
  BY <1>13, <1>15, <1>16, <1>17, <1>22, <1>23, <1>24, <1>25 DEF U

\* Recording a judgement keeps the invariant.
LEMMA SettleStep == ASSUME Running, NEW x \in batch, Settle(x) PROVE Running'
<1> USE DEF Running
<1> DEFINE t == x[1]
<1>1. PICK over, accepted : Judgement(t, over, accepted) /\ Record(t, over, accepted)
  BY SettleJudges
<1>2. /\ phase = "done" /\ phase' = "done" /\ batch' = batch \ {x} /\ running' = running
      /\ starts' = starts /\ pending' = pending \union dependents[t] /\ UNCHANGED plan
  BY DEF Settle, TakeDone
<1>3. Live(t)
  BY DEF Live
<1>4. t \in Tasks /\ starts[t] # 0
  BY <1>3, LiveStarted
<1>5. x \in Tasks \X (Nat \ {0}) /\ x \notin running /\ x[2] <= starts[t]
  BY DEF TypeOK, LoopOK
<1>6. \A y \in running' \union batch' : y \in running \union batch /\ y # x
  BY <1>2, <1>5
<1>7. \A u : u # t => (Live(u)' <=> Live(u))
  BY <1>2 DEF Live
<1>8. Once => ~Live(t)'
  <2> SUFFICES ASSUME Once, Live(t)' PROVE FALSE
    OBVIOUS
  <2>1. PICK y \in running' \union batch' : y[1] = t
    <3> HIDE DEF t
    <3>1. PICK u : u = t
      OBVIOUS
    <3> QED
      BY <1>2, <3>1 DEF Live, t
  <2>2. y \in running \union batch /\ y # x
    BY <1>6
  <2>3. y \in Tasks \X (Nat \ {0}) /\ y[2] <= starts[t]
    BY <2>1, <2>2 DEF TypeOK, LoopOK
  <2>4. starts[t] <= 1 /\ starts[t] \in Nat
    BY <1>4 DEF Once, TypeOK
  <2>5. y[2] = 1 /\ x[2] = 1
    BY <1>5, <2>3, <2>4
  <2> QED
    BY <1>5, <2>1, <2>2, <2>3, <2>5
<1> HIDE DEF t
<1>9. \A u : u # t => (Settled(u)' <=> Settled(u))
  BY <1>2, <1>7 DEF Settled
<1>10. Once => Settled(t)'
  BY <1>2, <1>4, <1>8 DEF Settled
<1>11. ~Settled(t)
  BY <1>3 DEF Settled
<1>12. /\ PlanOK' /\ Tasks' = Tasks /\ task' = task /\ dep' = dep /\ dependents' = dependents /\ scored' = scored
       /\ (Tree' <=> Tree) /\ (\A i : Target(i)' = Target(i)) /\ (\A u : Members(u)' = Members(u))
  BY <1>2, PlanStays
<1>13. /\ left' \in [Tasks -> SUBSET Points]
       /\ depOn' \in [Points -> 0..Unsatisfied]
       /\ results' \in [Points -> Result]
       /\ \A u \in Tasks : left'[u] \subseteq left[u]
  BY <1>1, <1>4, RecordEffect
<1>14. \A i \in Points \ Drops :
          /\ results'[i] = Overwritten(over, i)
          /\ depOn'[i] = depOn[i] \/ (depOn'[i] = 0 /\ depOn[i] \in accepted)
  BY <1>1, <1>4, RecordEffect
<1>15. \A i \in Drops :
          /\ results'[i] = "skipped"
          /\ depOn'[i] = Unsatisfied
          /\ depOn[i] \in (left[t] \ accepted) \union Drops
  BY <1>1, <1>4, RecordEffect
<1>16. \A u \in Tasks : starts[u] # 0 /\ u # t => left'[u] = left[u]
  BY <1>1, <1>4, RecordEffect
<1>17. /\ accepted \cap Drops = {}
       /\ left'[t] = left[t] \/ left'[t] = {}
       /\ \A u \in dependents[t] : \A i \in left'[u] : depOn[i] \notin left[t] \ accepted
  BY <1>1, <1>4, RecordEffect
<1>18. \A i \in Points : task[i] \in Tasks
  BY TaskIn DEF PlanOK
<1>19. \A u \in Tasks : \A i \in left[u] : i \in Points /\ task[i] = u
  BY DEF RecordsOK, Members
<1>20. 0 \notin Points /\ Unsatisfied \notin Points
  BY Positions
<1>21. accepted \subseteq left[t] /\ \A i \in left[t] : i \in accepted <=> over[i] = "accepted"
  BY <1>1 DEF Judgement
<1>22. \A i \in Points : task[i] # t => Overwritten(over, i) = results[i]
  BY <1>1 DEF Judgement, Overwritten, Members
<1>23. \A i \in left[t] : Overwritten(over, i) = over[i] /\ over[i] \in Final
  BY <1>1 DEF Judgement, Overwritten
<1>24. \A i \in Points : i \notin left[task[i]] => Overwritten(over, i) \in {"skipped", "system_error"}
  <2> SUFFICES ASSUME NEW i \in Points, i \notin left[task[i]]
               PROVE  Overwritten(over, i) \in {"skipped", "system_error"}
    OBVIOUS
  <2>1. CASE i \in DOMAIN over
    <3>1. task[i] = t
      BY <1>1, <2>1 DEF Judgement, Members
    <3> QED
      BY <1>1, <2>1, <3>1 DEF Judgement, Overwritten
  <2>2. CASE i \notin DOMAIN over
    BY <2>2 DEF Overwritten, RecordsOK
  <2> QED
    BY <2>1, <2>2
<1>25. \A i \in Points : i \in left'[task[i]] => i \in left[task[i]] /\ i \in Points \ Drops
  BY <1>13, <1>18 DEF Drops
<1>26. \A i \in Points : i \notin left'[task[i]] => i \in Drops \/ i \notin left[task[i]]
  BY DEF Drops
<1>27. \A i \in Drops : i \in Points /\ i \in left[task[i]] /\ i \notin left'[task[i]]
  BY DEF Drops
<1>28. TypeOK'
  <2>1. dependents[t] \subseteq Tasks
    BY <1>4 DEF PlanOK, PlanTyped
  <2> QED
    BY <1>2, <1>12, <1>13, <2>1 DEF TypeOK, Unsatisfied
<1>29. LoopOK'
  BY <1>2, <1>6 DEF LoopOK, Judged
<1>30. RecordsOK'
  <2>1. \A u \in Tasks : left'[u] \subseteq Members(u)
    BY <1>13 DEF RecordsOK
  <2>2. ASSUME NEW i \in Points, i \in left'[task[i]] PROVE depOn'[i] \in {0, Target(i)}
    BY <1>14, <1>25, <2>2 DEF RecordsOK
  <2>3. ASSUME NEW i \in Points, i \notin left'[task[i]]
        PROVE  depOn'[i] = Unsatisfied /\ results'[i] \in {"skipped", "system_error"}
    <3>1. CASE i \in Drops
      BY <1>15, <3>1
    <3>2. CASE i \notin Drops
      <4>1. i \notin left[task[i]] /\ i \in Points \ Drops
        BY <1>26, <2>3, <3>2
      <4>2. depOn[i] = Unsatisfied
        BY <4>1 DEF RecordsOK
      <4>3. depOn[i] \notin accepted
        BY <1>4, <1>19, <1>20, <1>21, <4>2
      <4> QED
        BY <1>14, <1>24, <4>1, <4>2, <4>3
    <3> QED
      BY <3>1, <3>2
  <2> QED
    BY <1>12, <2>1, <2>2, <2>3 DEF RecordsOK, Unsatisfied
<1>31. StartedReady'
  <2> SUFFICES ASSUME NEW u \in Tasks, starts[u] # 0, NEW i \in left'[u]
               PROVE  depOn'[i] \in {0} \union left'[u]
    BY <1>2, <1>12 DEF StartedReady
  <2>1. left'[u] = left[u]
    BY <1>16, <1>17
  <2>2. i \in Points /\ task[i] = u /\ depOn[i] \in {0} \union left[u]
    BY <1>19, <2>1 DEF StartedReady
  <2> QED
    BY <1>14, <1>25, <2>1, <2>2
<1>32. ResultsOK'
  <2>1. ASSUME NEW i \in Points, i \in left'[task[i]], starts[task[i]] = 0 PROVE results'[i] = "none"
    BY <1>4, <1>14, <1>22, <1>25, <2>1 DEF ResultsOK
  <2>2. ASSUME NEW i \in Points, results'[i] = "judging" PROVE Live(task[i])'
    <3>1. i \in Points \ Drops /\ Overwritten(over, i) = "judging"
      BY <1>14, <1>15, <2>2
    <3>2. i \in left[task[i]]
      BY <1>24, <3>1
    <3>3. task[i] # t
      BY <1>23, <3>1, <3>2 DEF Final
    <3>4. Live(task[i])
      BY <1>22, <3>1, <3>3 DEF ResultsOK
    <3> QED
      BY <1>7, <1>12, <3>3, <3>4
  <2> QED
    BY <1>2, <1>12, <2>1, <2>2 DEF ResultsOK, Judged
<1>33. Once' <=> Once
  BY <1>2, <1>12 DEF Once
<1>34. ASSUME Once PROVE PassedFirst'
  <2> SUFFICES ASSUME NEW i \in Points, i \in left'[task[i]], depOn'[i] = 0, dep[i] # 0,
                      NEW k, k = Target(i)
               PROVE  k \in left'[task[k]] /\ Settled(task[k])' /\ results'[k] = "accepted"
    BY <1>12 DEF PassedFirst
  <2>1. k \in Points /\ i \in Points \ Drops /\ i \in left[task[i]]
    BY <1>25 DEF PlanOK
  <2>2. CASE depOn[i] = 0
    <3>1. k \in left[task[k]] /\ Settled(task[k]) /\ results[k] = "accepted"
      BY <1>34, <2>1, <2>2 DEF OnceOK, PassedFirst
    <3>2. task[k] # t /\ starts[task[k]] # 0 /\ task[k] \in Tasks
      BY <1>11, <1>18, <2>1, <3>1 DEF Settled
    <3>3. k \in left'[task[k]]
      BY <1>16, <3>1, <3>2
    <3>4. results'[k] = "accepted"
      BY <1>14, <1>22, <1>25, <2>1, <3>1, <3>2, <3>3
    <3> QED
      BY <1>9, <1>12, <3>1, <3>2, <3>3, <3>4
  <2>3. CASE depOn[i] # 0
    <3>1. depOn[i] = k
      BY <2>1, <2>3 DEF RecordsOK
    <3>2. k \in accepted
      BY <1>14, <2>1, <2>3, <3>1
    <3>3. k \in left[t] /\ task[k] = t /\ k \in Points \ Drops
      BY <1>4, <1>17, <1>19, <1>21, <2>1, <3>2
    <3>4. k \in left'[task[k]]
      BY <3>3 DEF Drops
    <3>5. results'[k] = "accepted"
      BY <1>14, <1>21, <1>23, <3>2, <3>3
    <3> QED
      BY <1>10, <1>12, <1>34, <3>3, <3>4, <3>5
  <2> QED
    BY <2>2, <2>3
<1>35. ASSUME Once PROVE SettledResults'
  <2> SUFFICES ASSUME NEW i \in Points, i \in left'[task[i]], Settled(task[i])'
               PROVE  /\ results'[i] \in Final
                      /\ results'[i] \in {"accepted", "wrong_answer"} /\ depOn'[i] # 0 =>
                            results'[depOn'[i]] = "accepted"
                      /\ results'[i] = "skipped" =>
                            depOn'[i] # 0 /\ results'[depOn'[i]] \in Final \ {"accepted"}
    BY <1>12 DEF SettledResults
  <2>1. i \in Points \ Drops /\ i \in left[task[i]] /\ task[i] \in Tasks
    BY <1>18, <1>25
  <2>2. CASE task[i] # t
    <3>1. Settled(task[i]) /\ starts[task[i]] # 0
      BY <1>9, <1>12, <2>2 DEF Settled
    <3>2. /\ results[i] \in Final
          /\ results[i] \in {"accepted", "wrong_answer"} /\ depOn[i] # 0 => results[depOn[i]] = "accepted"
          /\ results[i] = "skipped" => depOn[i] # 0 /\ results[depOn[i]] \in Final \ {"accepted"}
      BY <1>35, <2>1, <3>1 DEF OnceOK, SettledResults
    <3>3. results'[i] = results[i]
      BY <1>14, <1>22, <2>1, <2>2
    <3>4. depOn[i] # 0 => depOn[i] \in Points /\ task[depOn[i]] = task[i] /\ depOn[i] \in left[task[i]]
      BY <2>1, <3>1, WaitsWithin
    <3>5. depOn[i] \notin accepted
      BY <1>4, <1>19, <1>20, <1>21, <2>2, <3>4
    <3>6. depOn'[i] = depOn[i]
      BY <1>14, <2>1, <3>5
    <3>7. left'[task[i]] = left[task[i]]
      BY <1>16, <2>1, <2>2, <3>1
    <3>8. depOn[i] # 0 => results'[depOn[i]] = results[depOn[i]]
      BY <1>14, <1>22, <1>25, <2>2, <3>4, <3>7
    <3> QED
      BY <3>2, <3>3, <3>6, <3>8
  <2>3. CASE task[i] = t
    <3>1. left'[t] = left[t] /\ i \in left[t]
      BY <1>17, <2>1, <2>3
    <3>2. \A j \in left[t] : results'[j] = over[j]
      <4> SUFFICES ASSUME NEW j \in left[t] PROVE results'[j] = over[j]
        OBVIOUS
      <4>1. j \in Points /\ task[j] = t
        BY <1>4, <1>19
      <4> QED
        BY <1>14, <1>23, <1>25, <3>1, <4>1
    <3>3. depOn[i] \in {0} \union left[t]
      BY <1>4, <3>1 DEF StartedReady
    <3>4. /\ over[i] \in {"accepted", "wrong_answer"} /\ depOn[i] \in left[t] => over[depOn[i]] = "accepted"
          /\ over[i] = "skipped" => depOn[i] \in left[t] /\ over[depOn[i]] # "accepted"
      BY <1>1, <3>1 DEF Judgement
    <3>5. results'[i] = over[i] /\ over[i] \in Final
      BY <1>23, <3>1, <3>2
    <3>6. ASSUME over[i] \in {"accepted", "wrong_answer"}, depOn'[i] # 0
          PROVE  results'[depOn'[i]] = "accepted"
      <4>1. depOn'[i] = depOn[i]
        BY <1>14, <2>1, <3>6
      <4> QED
        BY <3>2, <3>3, <3>4, <3>6, <4>1
    <3>7. ASSUME over[i] = "skipped"
          PROVE  depOn'[i] # 0 /\ results'[depOn'[i]] \in Final \ {"accepted"}
      <4>1. depOn[i] \in left[t] /\ over[depOn[i]] # "accepted"
        BY <3>4, <3>7
      <4>2. depOn'[i] = depOn[i]
        BY <1>14, <1>21, <2>1, <4>1
      <4>3. depOn[i] # 0
        BY <1>4, <1>19, <1>20, <4>1
      <4> QED
        BY <1>23, <3>2, <4>1, <4>2, <4>3
    <3> QED
      BY <3>5, <3>6, <3>7
  <2> QED
    BY <2>2, <2>3
<1>36. ASSUME Once PROVE RemovedForCause'
  <2> SUFFICES ASSUME NEW i \in Points, i \notin left'[task[i]], NEW k, k = Target(i)
               PROVE  /\ dep[i] # 0
                      /\ results'[k] \in Final \ {"accepted"}
                      /\ k \in left'[task[k]] => Settled(task[k])'
    BY <1>12 DEF RemovedForCause
  <2>0. "skipped" \in Final \ {"accepted"} /\ "system_error" \in Final \ {"accepted"}
    BY DEF Final
  <2>1. CASE i \in Drops
    <3>1. i \in left[task[i]] /\ depOn[i] \in (left[t] \ accepted) \union Drops
      BY <1>15, <1>27, <2>1
    <3>2. depOn[i] \in Points
      BY <1>4, <1>19, <1>27, <3>1
    <3>3. depOn[i] = k
      BY <1>20, <3>1, <3>2 DEF RecordsOK
    <3>4. dep[i] # 0
      BY <1>20, <3>2, <3>3 DEF Target
    <3>5. CASE k \in Drops
      BY <1>15, <1>27, <2>0, <3>4, <3>5
    <3>6. CASE k \notin Drops
      <4>1. k \in left[t] \ accepted /\ k \in Points \ Drops
        BY <3>1, <3>2, <3>3, <3>6
      <4>2. task[k] = t
        BY <1>4, <1>19, <4>1
      <4>3. results'[k] \in Final \ {"accepted"}
        BY <1>14, <1>21, <1>23, <4>1
      <4> QED
        BY <1>10, <1>12, <1>36, <3>4, <4>2, <4>3
    <3> QED
      BY <3>5, <3>6
  <2>2. CASE i \notin Drops
    <3>1. i \notin left[task[i]]
      BY <1>26, <2>2
    <3>2. dep[i] # 0 /\ results[k] \in Final \ {"accepted"} /\ (k \in left[task[k]] => Settled(task[k]))
      BY <1>36, <3>1 DEF OnceOK, RemovedForCause
    <3>3. k \in Points
      BY <3>2 DEF PlanOK
    <3>4. CASE k \in Drops
      BY <1>15, <1>27, <2>0, <3>2, <3>4
    <3>5. CASE k \notin Drops /\ k \in left[task[k]]
      <4>1. Settled(task[k]) /\ task[k] # t
        BY <1>11, <3>2, <3>5
      <4>2. results'[k] = results[k]
        BY <1>14, <1>22, <3>3, <3>5, <4>1
      <4> QED
        BY <1>9, <1>12, <3>2, <4>1, <4>2
    <3>6. CASE k \notin Drops /\ k \notin left[task[k]]
      <4>1. results'[k] \in Final \ {"accepted"}
        BY <1>14, <1>24, <2>0, <3>3, <3>6
      <4>2. k \notin left'[task[k]]
        BY <1>25, <3>3, <3>6
      <4> QED
        BY <3>2, <4>1, <4>2
    <3> QED
      BY <3>4, <3>5, <3>6
  <2> QED
    BY <2>1, <2>2
<1>37. OnceOK'
  BY <1>33, <1>34, <1>35, <1>36 DEF OnceOK
<1>38. TreeOK'
  <2> SUFFICES ASSUME Tree PROVE TreeOK'
    BY <1>12 DEF TreeOK
  <2>1. /\ Once
        /\ \A p \in pending :
              \/ left[p] = {}
              \/ starts[p] = 0 /\ \E u \in Tasks : u # p /\ Settled(u) /\ p \in dependents[u]
        /\ \A p, u \in Tasks : starts[p] # 0 /\ p \in dependents[u] /\ u # p => Settled(u)
        /\ \A p \in Tasks : p \in dependents[p] /\ Settled(p) => left[p] = {}
    BY DEF TreeOK
  <2>2. ASSUME t \in dependents[t] PROVE left'[t] = {}
    <3>1. t \in Nat
      BY <1>4, TasksArePoints, Positions DEF PlanOK
    <3>2. \A i, k \in Points : task[i] = task[k] => i = k
      BY <1>4, <2>2, <3>1 DEF PlanOK
    <3>3. PICK i \in Members(t) : dep[i] # 0 /\ task[Target(i)] = t
      BY <1>4, <2>2 DEF PlanOK
    <3>4. i \in Points /\ task[i] = t
      BY DEF Members
    <3>5. Target(i) = i
      BY <3>2, <3>3, <3>4 DEF PlanOK
    <3> SUFFICES ASSUME NEW j \in left'[t] PROVE FALSE
      OBVIOUS
    <3>6. j \in left[t] /\ j \in Points /\ task[j] = t
      BY <1>4, <1>13, <1>19
    <3>7. j = i
      BY <3>2, <3>4, <3>6
    <3>8. depOn[i] # 0
      BY <1>11, <2>1, <3>3, <3>4, <3>5, <3>6, <3>7 DEF OnceOK, PassedFirst
    <3>9. depOn[i] = i
      BY <3>4, <3>5, <3>6, <3>7, <3>8 DEF RecordsOK
    <3>10. over[i] = "system_error"
      BY <1>1, <3>6, <3>7, <3>9 DEF Judgement
    <3>11. i \in left[t] \ accepted
      BY <1>21, <3>6, <3>7, <3>10
    <3>12. depOn[j] \notin left[t] \ accepted
      BY <1>17, <2>2
    <3> QED
      BY <3>7, <3>9, <3>11, <3>12
  <2>3. \A p \in Tasks : p # t => (Settled(p)' <=> Settled(p))
    BY <1>9
  <2>4. ASSUME NEW p \in pending'
        PROVE  \/ left'[p] = {}
               \/ starts[p] = 0 /\ \E u \in Tasks : u # p /\ Settled(u)' /\ p \in dependents[u]
    <3>0. p \in Tasks
      BY <1>2, <1>4 DEF TypeOK, PlanOK, PlanTyped
    <3>1. CASE p \in pending
      <4>1. CASE left[p] = {}
        BY <1>13, <3>0, <4>1
      <4>2. CASE starts[p] = 0 /\ \E u \in Tasks : u # p /\ Settled(u) /\ p \in dependents[u]
        BY <1>11, <2>3, <4>2
      <4> QED
        BY <2>1, <3>1, <4>1, <4>2
    <3>2. CASE p \in dependents[t] /\ p # t
      <4>1. starts[p] = 0
        BY <1>4, <1>11, <2>1, <3>0, <3>2
      <4>2. Settled(t)'
        BY <1>10, <2>1
      <4> QED
        BY <1>4, <3>2, <4>1, <4>2
    <3>3. CASE p \in dependents[t] /\ p = t
      BY <2>2, <3>3
    <3> QED
      BY <1>2, <2>4, <3>1, <3>2, <3>3
  <2>5. ASSUME NEW p \in Tasks, NEW u \in Tasks, starts[p] # 0, p \in dependents[u], u # p
        PROVE  Settled(u)'
    BY <1>11, <2>1, <2>3, <2>5
  <2>6. ASSUME NEW p \in Tasks, p \in dependents[p], Settled(p)' PROVE left'[p] = {}
    <3>1. CASE p = t
      BY <2>2, <2>6, <3>1
    <3>2. CASE p # t
      BY <1>13, <2>1, <2>3, <2>6, <3>2
    <3> QED
      BY <3>1, <3>2
  <2> QED
    BY <1>2, <1>12, <1>33, <2>1, <2>4, <2>5, <2>6 DEF TreeOK
<1> QED
  BY <1>2, <1>12, <1>28, <1>29, <1>30, <1>31, <1>32, <1>37, <1>38

-----------------------------------------------------------------------------
(* The invariant is inductive, and what follows from it                    *)

\* Every step of Plan keeps the invariant; nothing follows a cancellation.
LEMMA Inductive == Inv /\ [Next]_vars => Inv'
<1> SUFFICES ASSUME Inv, [Next]_vars PROVE Inv'
  OBVIOUS
<1>1. Running' => Inv'
  BY RunningInv, PTL
<1>2. CASE UNCHANGED vars
  <2>1. /\ UNCHANGED plan /\ phase' = phase
        /\ left' = left /\ depOn' = depOn /\ results' = results /\ starts' = starts
        /\ running' = running /\ batch' = batch /\ pending' = pending
    BY <1>2 DEF vars, records
  <2>2. PlanOK' /\ Tasks' = Tasks /\ task' = task /\ dep' = dep /\ dependents' = dependents /\ scored' = scored
        /\ (Tree' <=> Tree) /\ (\A i : Target(i)' = Target(i)) /\ (\A t : Members(t)' = Members(t))
    BY <2>1, PlanStays DEF Inv
  <2>3. TypeOK' /\ StartedOnce'
    BY <2>1, <2>2 DEF Inv, TypeOK, Unsatisfied, StartedOnce, Once
  <2>4. CASE phase = "aborted"
    BY <2>1, <2>2, <2>3, <2>4 DEF Inv
  <2>5. CASE phase # "aborted"
    <3>1. Running
      BY <2>5, RunningInv
    <3>2. /\ RecordsOK' /\ StartedReady' /\ OnceOK' /\ TreeOK'
          /\ \A i \in Points : i \in left'[task[i]] /\ starts'[task[i]] = 0 => results'[i] = "none"
          /\ \A i \in Points : results'[i] = "judging" => Live(task[i])'
      <4>1. UNCHANGED <<plan, records, starts, pending>>
        BY <2>1 DEF records
      <4> QED
        BY <2>1, <3>1, <4>1, QuietStep DEF Running
    <3>3. ResultsOK'
      BY <2>1, <2>2, <3>1, <3>2 DEF ResultsOK, Running
    <3>4. LoopOK'
      BY <2>1, <2>2, <3>1 DEF LoopOK, Running
    <3> QED
      BY <2>2, <2>3, <3>2, <3>3, <3>4 DEF Inv
  <2> QED
    BY <2>4, <2>5
<1>3. CASE Next
  <2>1. phase # "aborted"
    BY <1>3 DEF Next, Begin, Wake, NextRound, Synthesize, Cancel, Settle, TakeDone, OnStarted, OnProgress
  <2>2. Running
    BY <2>1, RunningInv
  <2>3. CASE Begin
    BY <1>1, <2>2, <2>3, BeginStep
  <2>4. CASE Wake
    BY <1>1, <2>2, <2>4, WakeStep
  <2>5. CASE NextRound
    BY <1>1, <2>2, <2>5, NextRoundStep
  <2>6. CASE Synthesize
    BY <1>1, <2>2, <2>6, SynthesizeStep
  <2>7. CASE Cancel
    BY <2>2, <2>7, CancelStep
  <2>8. ASSUME NEW x \in batch, Settle(x) PROVE Inv'
    BY <1>1, <2>2, <2>8, SettleStep
  <2>9. ASSUME NEW x \in running, OnStarted(x) \/ OnProgress(x) PROVE Inv'
    BY <1>1, <2>2, <2>9, ReportStep
  <2> QED
    BY <1>3, <2>3, <2>4, <2>5, <2>6, <2>7, <2>8, <2>9 DEF Next
<1> QED
  BY <1>2, <1>3

\* Inv is an invariant of Plan.
LEMMA Invariance == Spec => []Inv
  BY InitInv, Inductive, PTL DEF Spec

\* When a verdict is reached no task is under way; every task of a testpoint that
\* has a result was started, except those of which every testpoint was skipped.
LEMMA VerdictSettled ==
    ASSUME Inv, phase \in Judged
    PROVE  /\ Running
           /\ \A t : ~Live(t)
           /\ \A i \in Points : i \in left[task[i]] /\ results[i] # "none" => Settled(task[i])
<1>1. Running
  BY RunningInv DEF Judged
<1>2. running = {} /\ batch = {}
  BY <1>1 DEF Running, LoopOK
<1>3. \A t : ~Live(t)
  BY <1>2 DEF Live
<1>4. \A i \in Points : i \in left[task[i]] /\ results[i] # "none" => starts[task[i]] # 0
  BY <1>1 DEF Running, ResultsOK
<1> QED
  BY <1>1, <1>3, <1>4 DEF Settled

\* What the invariant says of a verdict.
LEMMA InvSafe == Inv => DependencyPassed /\ SkippedForCause /\ VerdictIsFinal
<1> SUFFICES ASSUME Inv, phase \in Judged
             PROVE  /\ \A i \in scored : results[i] \in Final
                    /\ \A i \in Points : results[i] # "judging"
                    /\ Once => \A i \in Points :
                          /\ dep[i] # 0 /\ results[i] \in {"accepted", "wrong_answer"} =>
                                results[Target(i)] = "accepted"
                          /\ results[i] = "skipped" =>
                                dep[i] # 0 /\ results[Target(i)] \in Final \ {"accepted"}
  BY DEF DependencyPassed, RunIfPassed, SkippedForCause, VerdictIsFinal
<1>1. /\ Running
      /\ \A t : ~Live(t)
      /\ \A i \in Points : i \in left[task[i]] /\ results[i] # "none" => Settled(task[i])
  BY VerdictSettled
<1>2. \A i \in Points : results[i] # "judging"
  BY <1>1 DEF Running, ResultsOK
<1>3. \A i \in scored : results[i] \in Final
  <2>1. scored \subseteq Points /\ results \in [Points -> Result]
    BY <1>1 DEF Running, TypeOK
  <2>2. \A i \in scored : results[i] # "none"
    BY <1>1 DEF Running, ResultsOK
  <2> QED
    BY <1>2, <2>1, <2>2 DEF Result
<1>4. ASSUME Once, NEW i \in Points, results[i] # "none"
      PROVE  /\ dep[i] # 0 /\ results[i] \in {"accepted", "wrong_answer"} => results[Target(i)] = "accepted"
             /\ results[i] = "skipped" => dep[i] # 0 /\ results[Target(i)] \in Final \ {"accepted"}
  <2>1. PassedFirst /\ SettledResults /\ RemovedForCause
    BY <1>1, <1>4 DEF Running, OnceOK
  <2>2. CASE i \notin left[task[i]]
    <3>1. results[i] \in {"skipped", "system_error"}
      BY <1>1, <2>2 DEF Running, RecordsOK
    <3>2. dep[i] # 0 /\ results[Target(i)] \in Final \ {"accepted"}
      BY <2>1, <2>2 DEF RemovedForCause
    <3> QED
      BY <3>1, <3>2
  <2>3. CASE i \in left[task[i]] /\ depOn[i] = 0
    <3>1. dep[i] # 0 => results[Target(i)] = "accepted"
      BY <2>1, <2>3 DEF PassedFirst
    <3>2. results[i] # "skipped"
      BY <1>1, <1>4, <2>1, <2>3 DEF SettledResults
    <3> QED
      BY <3>1, <3>2
  <2>4. CASE i \in left[task[i]] /\ depOn[i] # 0
    <3>1. Settled(task[i]) /\ starts[task[i]] # 0
      BY <1>1, <1>4, <2>4 DEF Settled
    <3>2. depOn[i] = Target(i) /\ dep[i] # 0
      BY <1>1, <2>4, <3>1, WaitsWithin DEF Running
    <3> QED
      BY <2>1, <2>4, <3>1, <3>2 DEF SettledResults
  <2> QED
    BY <2>2, <2>3, <2>4
<1> QED
  BY <1>2, <1>3, <1>4

\* Testpoints that are alone in their tasks make them a tree.
LEMMA AloneIsTree ==
    ASSUME PlanOK, \A i, k \in Points : task[i] = task[k] => i = k
    PROVE  Tree
<1> SUFFICES ASSUME NEW t \in Tasks PROVE Cardinality({u \in Tasks : t \in dependents[u]}) <= 1
  BY DEF Tree
<1> DEFINE P == {u \in Tasks : t \in dependents[u]}
<1>1. ASSUME NEW u \in P, NEW w \in P PROVE u = w
  <2>1. PICK i \in Members(t) : dep[i] # 0 /\ task[Target(i)] = u
    BY <1>1 DEF PlanOK
  <2>2. PICK k \in Members(t) : dep[k] # 0 /\ task[Target(k)] = w
    BY <1>1 DEF PlanOK
  <2>3. i = k
    BY DEF Members
  <2> QED
    BY <2>1, <2>2, <2>3
<1> HIDE DEF P
<1>2. CASE P = {}
  BY <1>2, FS_EmptySet DEF P
<1>3. CASE P # {}
  <2>1. PICK u : P = {u}
    BY <1>1, <1>3
  <2>2. Cardinality(P) = 1
    BY <2>1, FS_Singleton
  <2> QED
    BY <2>2 DEF P
<1> QED
  BY <1>2, <1>3

\* A final result of testpoint i that a step leaves alone, or makes another final
\* one because a run of its own task has ended.
Stays(i) ==
    /\ results'[i] \in Final
    /\ results'[i] # results[i] => \E x \in batch \ batch' : x[1] = task[i]

\* No report changes a final result.  The end of a task changes those of its own
\* testpoints and skips testpoints of tasks that were not started, which have none.
LEMMA FinalStays ==
    ASSUME Inv, [Next]_vars
    PROVE  \A i \in Points : results[i] \in Final => Stays(i)
<1>1. CASE results' = results
  BY <1>1 DEF Stays
<1>2. ASSUME NEW x \in running, OnStarted(x)
      PROVE  \A i \in Points : results[i] \in Final => Stays(i)
  BY <1>2 DEF OnStarted, Final, Stays
<1>3. ASSUME NEW x \in running, OnProgress(x)
      PROVE  \A i \in Points : results[i] \in Final => Stays(i)
  BY <1>3 DEF OnProgress, Final, Stays
<1>4. ASSUME NEW x \in batch, Settle(x)
      PROVE  \A i \in Points : results[i] \in Final => Stays(i)
  <2>1. Running
    BY <1>4, RunningInv DEF Settle, TakeDone
  <2>2. PICK over, accepted : Judgement(x[1], over, accepted) /\ Record(x[1], over, accepted)
    BY <1>4, <2>1, SettleJudges
  <2>3. x[1] \in Tasks /\ starts[x[1]] # 0
    BY <2>1, LiveStarted DEF Running, Live
  <2>4. /\ \A i \in Points \ Drops : results'[i] = Overwritten(over, i)
        /\ \A i \in Drops : results'[i] = "skipped"
        /\ \A u \in Tasks : starts[u] # 0 /\ u # x[1] => left'[u] = left[u]
    BY <2>1, <2>2, <2>3, RecordEffect
  <2>5. x \in batch \ batch'
    BY <1>4 DEF Settle, TakeDone
  <2> SUFFICES ASSUME NEW i \in Points, results[i] \in Final PROVE Stays(i)
    OBVIOUS
  <2>6. CASE i \in Drops
    <3>1. results'[i] = "skipped"
      BY <2>4, <2>6
    <3>2. i \in left[task[i]] /\ i \notin left'[task[i]]
      BY <2>6 DEF Drops
    <3>3. starts[task[i]] # 0
      BY <2>1, <3>2 DEF Running, ResultsOK, Final
    <3>4. task[i] \in Tasks
      BY <2>1, TaskIn DEF Running, PlanOK
    <3>5. task[i] = x[1]
      BY <2>4, <3>2, <3>3, <3>4
    <3> QED
      BY <2>5, <3>1, <3>5 DEF Stays, Final
  <2>7. CASE i \notin Drops
    <3>1. results'[i] = Overwritten(over, i)
      BY <2>4, <2>7
    <3>2. CASE i \in DOMAIN over
      <4>1. over[i] \in Final /\ task[i] = x[1]
        BY <2>2, <3>2 DEF Judgement, Members
      <4> QED
        BY <2>5, <3>1, <3>2, <4>1 DEF Stays, Overwritten
    <3>3. CASE i \notin DOMAIN over
      BY <3>1, <3>3 DEF Stays, Overwritten
    <3> QED
      BY <3>2, <3>3
  <2> QED
    BY <2>6, <2>7
<1>5. \/ results' = results
      \/ \E x \in running : OnStarted(x) \/ OnProgress(x)
      \/ \E x \in batch : Settle(x)
  BY DEF Next, vars, Begin, Wake, NextRound, Synthesize, Cancel
<1> QED
  BY <1>1, <1>2, <1>3, <1>4, <1>5

-----------------------------------------------------------------------------
(* Theorems                                                                *)

\* run_judge_tasks and remove_skipped_testpoints_from_task keep the records, the
\* results and the sets of tasks of their types, for every problem.
THEOREM TypeCorrect == Spec => []TypeOK
<1>1. Inv => TypeOK
  BY DEF Inv
<1> QED
  BY <1>1, Invariance, PTL

\* For every problem, every order the tasks end in and every answer of the
\* runners: if no task was started twice, a verdict of synthesize_scores has run
\* only testpoints whose dependency was accepted.
THEOREM DependencyHolds == Spec => []DependencyPassed
  BY InvSafe, Invariance, PTL

\* So the premise is not needed where no task depends on two others, which is
\* always the case when each testpoint is a task of its own (AloneIsTree).
THEOREM TreeDependencyHolds == Spec => [](Tree => RunIfPassed)
<1>1. Inv => (Tree => RunIfPassed)
  BY InvSafe DEF Inv, StartedOnce, DependencyPassed
<1> QED
  BY <1>1, Invariance, PTL

\* Under the same condition remove_skipped_testpoints_from_task skips only what
\* depends on a testpoint that failed or was skipped, through any number of tasks.
THEOREM SkippingJustified == Spec => []SkippedForCause
  BY InvSafe, Invariance, PTL

\* synthesize_scores gives a verdict only when every testpoint of a score group has
\* its result, and no testpoint is left under way, also when tasks were started twice.
THEOREM VerdictComplete == Spec => []VerdictIsFinal
  BY InvSafe, Invariance, PTL

\* The loop of run_judge_tasks, which has no check for it, starts no task twice
\* when no task depends on two others.
THEOREM TreeStartsOnce == Spec => []StartedOnce
<1>1. Inv => StartedOnce
  BY DEF Inv
<1> QED
  BY <1>1, Invariance, PTL

\* The result that get_partial_result shows of a testpoint stays one, and is replaced
\* only by what a run of its own task has ended with: not by onprogress, and not by
\* the answers and skips of other tasks, whichever were started twice.
THEOREM FinalResultsStay == Spec => ResultsStay
<1>1. Inv /\ [Next]_vars =>
          [\A i \in Points : results[i] \in Final =>
              /\ results'[i] \in Final
              /\ results'[i] # results[i] => \E x \in batch \ batch' : x[1] = task[i]]_vars
  BY FinalStays DEF Stays
<1> QED
  BY <1>1, Invariance, PTL DEF Spec, ResultsStay
=============================================================================
