----------------------------- MODULE FanInProofs -----------------------------
(***************************************************************************)
(* Delegation implements FanIn: step by step for the legs, for every plan, *)
(* and in full for the plans whose retries and blocks the code keeps apart.*)
(***************************************************************************)
EXTENDS DelegationProofs

-----------------------------------------------------------------------------
(* The current attempt *)

\* CurrentAttempt, of the rows rw
Latest(rw, l) ==
    LET there == {k \in Attempts : rw[<<l, k>>] # "absent"}
        retries == {k \in there : k > 0}
    IN IF retries # {} THEN Max(retries)
       ELSE IF Resume \in there THEN Resume ELSE 0

\* No attempt of a leg is there before the one before it has failed, nor more
\* than the plan grants.
InOrder(rw) ==
    \A l \in Legs, n \in Attempts : rw[<<l, n>>] # "absent" =>
        /\ n <= plan.retry[l]
        /\ \A k \in Attempts : k < n => Failed(rw[<<l, k>>])

\* Nobody but the engine retries.
NoResume == "retry" \notin Verbs

LEMMA AttemptsPlain == ASSUME NoResume PROVE Attempts = 0..MaxRetry /\ 0 \in Attempts
BY DelegationAssumption DEF NoResume, Attempts

LEMMA LatestSame ==
    ASSUME NEW rw, NEW rv, NEW l \in Legs, \A k \in Attempts : rw[<<l, k>>] = rv[<<l, k>>]
    PROVE  Latest(rw, l) = Latest(rv, l)
<1>1. {k \in Attempts : rw[<<l, k>>] # "absent"} = {k \in Attempts : rv[<<l, k>>] # "absent"}
  OBVIOUS
<1> QED BY <1>1 DEF Latest

LEMMA LatestIs ==
    ASSUME NoResume, NEW rw, NEW l \in Legs, NEW k \in Attempts,
           rw[<<l, k>>] # "absent" \/ k = 0,
           \A n \in Attempts : n > k => rw[<<l, n>>] = "absent"
    PROVE  Latest(rw, l) = k
<1> DEFINE there == {n \in Attempts : rw[<<l, n>>] # "absent"}
           retries == {n \in there : n > 0}
<1>1. MaxRetry \in Nat /\ k \in 0..MaxRetry /\ retries \in SUBSET (0..MaxRetry)
  BY AttemptsPlain, DelegationAssumption
<1>2. Resume \notin there
  BY AttemptsPlain DEF Resume
<1>3. \A n \in retries : n \in 0..MaxRetry /\ n > 0 /\ n <= k
  BY <1>1
<1>4. CASE retries # {}
  <2>1. Max(retries) \in retries /\ \A n \in retries : n <= Max(retries)
    <3> HIDE DEF retries
    <3> QED BY <1>1, <1>4, MaxBounded
  <2>2. k \in retries
    <3>1. PICK n \in retries : TRUE
      BY <1>4
    <3>2. k > 0 /\ rw[<<l, k>>] # "absent"
      BY <3>1, <1>1, <1>3
    <3> QED BY <3>2
  <2>3. PICK m \in retries : m = Max(retries) /\ \A n \in retries : n <= m
    <3> HIDE DEF retries
    <3> QED BY <2>1
  <2>4. m <= k /\ k <= m /\ m \in Int /\ k \in Int
    <3> HIDE DEF retries
    <3> QED BY <1>1, <1>3, <2>2, <2>3
  <2>5. Max(retries) = k
    <3> HIDE DEF retries
    <3> QED BY <2>3, <2>4
  <2> QED BY <1>4, <2>5 DEF Latest
<1>5. CASE retries = {}
  <2>1. k = 0
    BY <1>1, <1>5
  <2> QED BY <1>2, <1>5, <2>1 DEF Latest
<1> QED BY <1>4, <1>5

\* What the current attempt is
LEMMA LatestFacts ==
    ASSUME NoResume, NEW rw, InOrder(rw), NEW l \in Legs
    PROVE  /\ Latest(rw, l) \in Attempts
           /\ rw[<<l, Latest(rw, l)>>] = "absent" => Latest(rw, l) = 0
           /\ \A n \in Attempts : n > Latest(rw, l) => rw[<<l, n>>] = "absent"
           /\ \A n \in Attempts : n < Latest(rw, l) => Failed(rw[<<l, n>>])
<1>a. MaxRetry \in Nat /\ Attempts = 0..MaxRetry /\ 0 \in Attempts
  BY AttemptsPlain, DelegationAssumption
<1>1. CASE rw[<<l, 0>>] = "absent"
  <2>1. \A n \in Attempts : n > 0 => rw[<<l, n>>] = "absent"
    BY <1>1, <1>a DEF InOrder, Failed
  <2>2. Latest(rw, l) = 0
    BY <2>1, <1>a, LatestIs
  <2> QED BY <2>1, <2>2, <1>a
<1>2. CASE rw[<<l, 0>>] # "absent"
  <2> DEFINE S == {n \in Attempts : rw[<<l, n>>] # "absent"}
  <2>1. S \in SUBSET (0..MaxRetry) /\ S # {}
    BY <1>2, <1>a
  <2>2. Max(S) \in S /\ \A n \in S : n <= Max(S)
    <3> HIDE DEF S
    <3> QED BY <2>1, <1>a, MaxBounded
  <2>3. PICK m \in S : \A n \in S : n <= m
    BY <2>2
  <2>4. m \in Attempts /\ rw[<<l, m>>] # "absent"
    OBVIOUS
  <2>5. \A n \in Attempts : n > m => rw[<<l, n>>] = "absent"
    BY <2>3, <2>4, <1>a
  <2>6. Latest(rw, l) = m
    BY <2>4, <2>5, LatestIs
  <2> QED BY <2>4, <2>5, <2>6 DEF InOrder
<1> QED BY <1>1, <1>2

\* An attempt that has not failed is the current one, and so is one that has
\* failed for the last time.
LEMMA LatestLast ==
    ASSUME NoResume, NEW rw, InOrder(rw), NEW l \in Legs, plan.retry[l] \in Nat,
           NEW k \in Attempts, rw[<<l, k>>] # "absent",
           ~Failed(rw[<<l, k>>]) \/ k >= plan.retry[l]
    PROVE  Latest(rw, l) = k
<1>1. Attempts = 0..MaxRetry /\ MaxRetry \in Nat
  BY AttemptsPlain, DelegationAssumption
<1>2. \A n \in Attempts : n > k => rw[<<l, n>>] = "absent"
  BY <1>1 DEF InOrder
<1> QED BY <1>2, LatestIs
-----------------------------------------------------------------------------
(* The legs *)

Stand(rw) == [l \in Legs |-> Standing(rw[<<l, Latest(rw, l)>>])]
Tried(rw) == [l \in Legs |-> RetryCount(Latest(rw, l))]

\* A row is inserted that was due.
Inserted ==
    \E l \in Legs, k \in Attempts :
        /\ row[<<l, k>>] = "absent" /\ row' = [row EXCEPT ![<<l, k>>] = "active"]
        /\ Due(l, k)

\* A run comes to an end, or gets the result it lacked.
Ran ==
    \E c \in Children, st \in States :
        /\ row' = [row EXCEPT ![c] = st]
        /\ \/ row[c] = "active" /\ Settled(st)
           \/ row[c] = "dead" /\ st = "failed"

LEMMA RowChanges ==
    ASSUME TypeOK, Know, [Next]_vars
    PROVE  \/ UNCHANGED row
           \/ (Inserted \/ Ran) /\ UNCHANGED <<plan, cont, task>>
<1>1. ASSUME NEW x \in Actors, Engine(x), row' # row
      PROVE  Inserted /\ UNCHANGED <<plan, cont, task>>
  <2>1. Inserted
    BY <1>1, EngineInserts DEF Inserts, Inserted
  <2>2. Spawn(x) \/ Retry(x) \/ Deps(x) \/ ResumeRow(x)
    BY <1>1 DEF Engine, AdvanceJob, Ask, AskRequest, AfterAdvance, Dispatch, Events, Pause,
                PauseRequest, RequestRound, Reread, Gate, AnswerGate, Continue, Correct,
                EnqueueContinuation, ContinueEvent, FinalizeGuard, FinalizeEnqueue, FinalizeEvent,
                ResumeTask, ResumeDone, Block, MarkDone, MarkBlocked, store
  <2>3. UNCHANGED <<plan, cont, task>>
    BY <2>2 DEF Spawn, Retry, Deps, ResumeRow, still
  <2> QED BY <2>1, <2>3
<1>2. ASSUME NEW c \in Children, Run(c) \/ Attach(c)
      PROVE  Ran /\ UNCHANGED <<plan, cont, task>>
  <2>1. UNCHANGED <<plan, cont, task>>
    BY <1>2 DEF Run, Deliver, TimeOut, DeliveryFail, Attach, still
  <2>2. \/ row[c] = "active"
        \/ row[c] = "dead" /\ row' = [row EXCEPT ![c] = "failed"]
    BY <1>2 DEF Run, Deliver, TimeOut, DeliveryFail, Attach, Know
  <2>3. \E st \in {"approved", "changes", "asking", "failed", "dead"} :
          /\ row' = [row EXCEPT ![c] = st]
          /\ \/ row[c] = "active"
             \/ row[c] = "dead" /\ st = "failed"
    BY <1>2, <2>2 DEF Run, Deliver, TimeOut, DeliveryFail, Attach, Decisions
  <2>4. \A st \in {"approved", "changes", "asking", "failed", "dead"} : st \in States /\ Settled(st)
    BY DEF States, Settled, Succeeded, Failed
  <2> QED BY <2>1, <2>3, <2>4 DEF Ran
<1>3. ASSUME \/ \E j \in Jobs : TickRetry(j)
             \/ \E x \in {Poller, Chat}, verb \in Verbs, t \in Texts : Human(x, verb, t)
             \/ Expire \/ Trip \/ Crash \/ UNCHANGED vars
      PROVE  UNCHANGED row
  BY <1>3 DEF TickRetry, Human, Expire, Trip, Crash, vars, store
<1> QED BY <1>1, <1>2, <1>3 DEF Next

LEMMA AttemptsInOrder ==
    ASSUME NoResume, TypeOK, AttemptInv
    PROVE  /\ InOrder(row)
           /\ \A l \in Legs : plan.retry[l] \in Nat
<1>1. Attempts = 0..MaxRetry /\ MaxRetry \in Nat
  BY AttemptsPlain, DelegationAssumption
<1>2. \A l \in Legs : plan.retry[l] \in 0..MaxRetry
  BY PlanType
<1>3. ASSUME NEW l \in Legs, NEW n \in Attempts, row[<<l, n>>] # "absent"
      PROVE  n <= plan.retry[l] /\ \A k \in Attempts : k < n => Failed(row[<<l, k>>])
  BY <1>1, <1>2, <1>3 DEF AttemptInv, Precedes
<1> QED BY <1>1, <1>2, <1>3 DEF InOrder

LEMMA MappedLegs ==
    /\ LegsSeen = Stand(row) /\ LegsSeen' = Stand(row')
    /\ TriesSeen = Tried(row) /\ TriesSeen' = Tried(row')
BY DEF LegsSeen, TriesSeen, Stand, Tried, CurrentAttempt, Latest

\* A leg whose row is inserted starts, or is tried again.
LEMMA InsertedLeg ==
    ASSUME NoResume, TypeOK, DepsFirst, InOrder(row), InOrder(row'),
           \A l \in Legs : plan.retry[l] \in Nat,
           Inserted, UNCHANGED <<plan, cont, task>>
    PROVE  \E l \in Legs : Join!Start(l) \/ Join!Again(l)
<1>a. Attempts = 0..MaxRetry /\ 0 \in Attempts /\ MaxRetry \in Nat /\ row \in [Children -> States]
  BY AttemptsPlain, DelegationAssumption DEF TypeOK
<1>b. \A l \in Legs, k \in Attempts : <<l, k>> \in Children
  BY DEF Children
<1>1. PICK l \in Legs, k \in Attempts :
        /\ row[<<l, k>>] = "absent" /\ row' = [row EXCEPT ![<<l, k>>] = "active"]
        /\ Due(l, k)
  BY DEF Inserted
<1>2. \A m \in Legs, n \in Attempts :
          row'[<<m, n>>] = IF m = l /\ n = k THEN "active" ELSE row[<<m, n>>]
  BY <1>1, <1>a, <1>b
<1>3. /\ Latest(row', l) = k /\ Stand(row')[l] = "active"
      /\ Tried(row')[l] = k
  <2>1. row'[<<l, k>>] = "active" /\ ~Failed("active")
    BY <1>2 DEF Failed
  <2>2. Latest(row', l) = k
    BY <2>1, LatestLast
  <2> QED BY <1>a, <2>1, <2>2 DEF Stand, Tried, Standing, RetryCount, Resume
<1>4. \A m \in Legs \ {l} : Stand(row')[m] = Stand(row)[m] /\ Tried(row')[m] = Tried(row)[m]
  <2> SUFFICES ASSUME NEW m \in Legs \ {l}
               PROVE  Stand(row')[m] = Stand(row)[m] /\ Tried(row')[m] = Tried(row)[m]
    OBVIOUS
  <2>a. \A n \in Attempts : row'[<<m, n>>] = row[<<m, n>>]
    BY <1>2
  <2>b. Latest(row', m) = Latest(row, m)
    BY <2>a, LatestSame
  <2>1. Latest(row', m) = Latest(row, m) /\ Latest(row, m) \in Attempts
    BY <2>b, LatestFacts
  <2> QED BY <1>2, <2>1 DEF Stand, Tried
<1>5. Stand(row') = [Stand(row) EXCEPT ![l] = "active"]
  BY <1>3, <1>4 DEF Stand
<1>6. Outcome' = Outcome
  BY DEF Outcome
<1>7. CASE k = 0
  <2>1. \A n \in Attempts : n > 0 => row[<<l, n>>] = "absent"
    BY <1>1, <1>7, <1>a DEF InOrder, Failed
  <2>2. Latest(row, l) = 0
    BY <1>a, <2>1, LatestIs
  <2>3. Stand(row)[l] = "idle" /\ Tried(row)[l] = 0
    BY <1>1, <1>7, <2>2 DEF Stand, Tried, Standing, RetryCount, Resume
  <2>4. Tried(row') = Tried(row)
    BY <1>3, <1>4, <1>7, <2>3 DEF Tried
  <2>5. ASSUME NEW d \in plan.deps[l] PROVE Stand(row)[d] = "good"
    <3>1. d \in Legs
      BY PlanType
    <3>2. PICK n \in Attempts : Succeeded(row[<<d, n>>])
      <4>1. \A n \in Attempts : ~Failed(row[<<l, n>>])
        BY <1>1, <1>7, <2>1, <1>a DEF Failed
      <4>2. k # Resume
        BY <1>7 DEF Resume
      <4> QED BY <1>1, <4>1, <4>2 DEF Due
    <3>3. row[<<d, n>>] # "absent" /\ ~Failed(row[<<d, n>>]) /\ row[<<d, n>>] # "active"
      BY <3>2 DEF Succeeded, Failed
    <3>4. Latest(row, d) = n
      BY <3>1, <3>3, LatestLast
    <3> QED BY <3>1, <3>2, <3>3, <3>4 DEF Stand, Standing
  <2>6. Join!Start(l)
    BY <1>5, <1>6, <2>3, <2>4, <2>5, MappedLegs DEF Join!Start
  <2> QED BY <2>6
<1>8. CASE k # 0
  <2>1. PICK n \in Attempts : Failed(row[<<l, n>>]) /\ k = RetryCount(n) + 1 /\ k <= plan.retry[l]
    BY <1>1, <1>8, <1>a DEF Due, Resume
  <2>2. n \in Nat /\ k = n + 1 /\ n < plan.retry[l]
    BY <1>a, <2>1 DEF RetryCount, Resume
  <2>3. \A i \in Attempts : i > n => row[<<l, i>>] = "absent"
    <3> SUFFICES ASSUME NEW i \in Attempts, i > n, row[<<l, i>>] # "absent" PROVE FALSE
      OBVIOUS
    <3>1. i # k
      BY <1>1
    <3>2. k < i
      BY <1>a, <2>2, <3>1
    <3>3. Failed(row[<<l, k>>])
      BY <3>2 DEF InOrder
    <3> QED BY <1>1, <3>3 DEF Failed
  <2>4. Latest(row, l) = n
    <3>1. row[<<l, n>>] # "absent"
      BY <2>1 DEF Failed
    <3> QED BY <2>3, <3>1, LatestIs
  <2>5. Stand(row)[l] = "bad" /\ Tried(row)[l] = n
    BY <2>1, <2>2, <2>4 DEF Stand, Tried, Standing, RetryCount, Resume, Failed, Succeeded
  <2>6. Tried(row') = [Tried(row) EXCEPT ![l] = @ + 1]
    BY <1>3, <1>4, <2>2, <2>5 DEF Tried
  <2>7. Join!Again(l)
    BY <1>5, <1>6, <2>2, <2>5, <2>6, MappedLegs DEF Join!Again
  <2> QED BY <2>7
<1> QED BY <1>7, <1>8

\* A leg whose run ends finishes; a failed one that gets a result stays failed.
LEMMA RanLeg ==
    ASSUME NoResume, TypeOK, InOrder(row), InOrder(row'),
           \A l \in Legs : plan.retry[l] \in Nat,
           Ran, UNCHANGED <<plan, cont, task>>
    PROVE  \/ \E l \in Legs : Join!Finish(l)
           \/ UNCHANGED Join!vars
<1>a. Attempts = 0..MaxRetry /\ 0 \in Attempts /\ MaxRetry \in Nat /\ row \in [Children -> States]
  BY AttemptsPlain, DelegationAssumption DEF TypeOK
<1>b. \A l \in Legs, k \in Attempts : <<l, k>> \in Children
  BY DEF Children
<1>1. PICK l \in Legs, k \in Attempts, st \in States :
        /\ row' = [row EXCEPT ![<<l, k>>] = st]
        /\ \/ row[<<l, k>>] = "active" /\ Settled(st)
           \/ row[<<l, k>>] = "dead" /\ st = "failed"
  <2>1. PICK c \in Children, st \in States :
          /\ row' = [row EXCEPT ![c] = st]
          /\ \/ row[c] = "active" /\ Settled(st)
             \/ row[c] = "dead" /\ st = "failed"
    BY DEF Ran
  <2>2. PICK l \in Legs, k \in Attempts : c = <<l, k>>
    BY DEF Children
  <2> QED BY <2>1, <2>2
<1>2. \A m \in Legs, n \in Attempts :
          row'[<<m, n>>] = IF m = l /\ n = k THEN st ELSE row[<<m, n>>]
  BY <1>1, <1>a, <1>b
<1>3. ASSUME NEW m \in Legs
      PROVE  /\ Latest(row', m) = Latest(row, m) /\ Latest(row, m) \in Attempts
             /\ Tried(row')[m] = Tried(row)[m]
  <2>1. \A n \in Attempts : (row'[<<m, n>>] = "absent") <=> (row[<<m, n>>] = "absent")
    BY <1>1, <1>2 DEF Settled, Succeeded, Failed
  <2>2. {n \in Attempts : row'[<<m, n>>] # "absent"} = {n \in Attempts : row[<<m, n>>] # "absent"}
    BY <2>1
  <2>3. Latest(row', m) = Latest(row, m)
    BY <2>2 DEF Latest
  <2> QED BY <2>3, LatestFacts DEF Tried
<1>4. Tried(row') = Tried(row) /\ Outcome' = Outcome
  BY <1>3 DEF Tried, Outcome
<1>5. \A m \in Legs \ {l} : Stand(row')[m] = Stand(row)[m]
  BY <1>2, <1>3 DEF Stand
<1>6. CASE row[<<l, k>>] = "active" /\ Settled(st)
  <2>1. Latest(row, l) = k
    BY <1>6, LatestLast DEF Failed
  <2>2. Stand(row)[l] = "active" /\ Stand(row')[l] = Standing(st)
    BY <1>2, <1>3, <1>6, <2>1 DEF Stand, Standing
  <2>3. Standing(st) \in {"good", "bad"}
    BY <1>6 DEF Standing, Settled, Succeeded, Failed
  <2>4. Stand(row') = [Stand(row) EXCEPT ![l] = Standing(st)]
    BY <1>5, <2>2 DEF Stand
  <2>5. Join!Finish(l)
    BY <1>4, <2>2, <2>3, <2>4, MappedLegs DEF Join!Finish
  <2> QED BY <2>5
<1>7. CASE row[<<l, k>>] = "dead" /\ st = "failed"
  <2>1. Stand(row')[l] = Stand(row)[l]
    BY <1>2, <1>3, <1>7 DEF Stand, Standing, Succeeded
  <2>2. Stand(row') = Stand(row)
    BY <1>5, <2>1 DEF Stand
  <2> QED BY <1>4, <2>2, MappedLegs DEF Join!vars
<1> QED BY <1>1, <1>6, <1>7

\* What happens to the legs is FanIn's, and so is a step that does not touch them.
LegStep ==
    \/ \E l \in Legs : Join!Start(l) \/ Join!Finish(l) \/ Join!Again(l)
    \/ UNCHANGED <<plan, LegsSeen, TriesSeen>>

DagInv == TypeOK /\ Know /\ AttemptInv /\ DepsFirst

LEMMA DagInvHolds == ASSUME NoResume PROVE Spec => []DagInv
<1>1. OneRetrier
  BY DEF OneRetrier, NoResume
<1>2. Spec => [](DInv /\ AttemptInv)
  BY <1>1, AttemptInvHolds
<1> QED BY <1>2, DependenciesFirst, PTL DEF DagInv, DInv

Orderly == InOrder(row) /\ \A l \in Legs : plan.retry[l] \in Nat

LEMMA DagOrderly == ASSUME NoResume PROVE DagInv => Orderly
BY AttemptsInOrder DEF DagInv, Orderly

LEMMA OrderlyNext ==
    ASSUME Orderly', UNCHANGED plan
    PROVE  InOrder(row')
BY DEF Orderly, InOrder

\* A step changes a leg as FanIn does, or no row at all.
LEMMA DagStep ==
    ASSUME NoResume, DagInv, Orderly, Orderly', [Next]_vars
    PROVE  \/ \E l \in Legs : Join!Start(l) \/ Join!Finish(l) \/ Join!Again(l)
           \/ UNCHANGED Join!vars
           \/ UNCHANGED row
<1>1. InOrder(row) /\ \A l \in Legs : plan.retry[l] \in Nat
  BY DEF Orderly
<1>2. TypeOK /\ Know /\ DepsFirst
  BY DEF DagInv
<1>3. CASE (Inserted \/ Ran) /\ UNCHANGED <<plan, cont, task>>
  <2>1. InOrder(row')
    BY <1>3, OrderlyNext
  <2> QED BY <1>1, <1>2, <1>3, <2>1, InsertedLeg, RanLeg
<1> QED BY <1>2, <1>3, RowChanges

\* FanIn's account of the legs, for every plan and any number of crashes, when
\* humans leave retries to the engine: a leg starts after what it depends on has
\* succeeded, it is tried again after a failure and within its budget, and runs
\* in between, although retries and dependents are queued from old listings by
\* whoever advances the DAG.
THEOREM LegsAsPromised == ASSUME NoResume PROVE Spec => [][LegStep]_vars
<1>1. DagInv /\ Orderly /\ Orderly' /\ [Next]_vars => LegStep
  <2> SUFFICES ASSUME DagInv, Orderly, Orderly', [Next]_vars PROVE LegStep
    OBVIOUS
  <2>1. CASE UNCHANGED row
    <3>1. UNCHANGED plan
      BY RowsStep DEF DagInv
    <3>2. UNCHANGED <<LegsSeen, TriesSeen>>
      BY <2>1, MappedLegs
    <3> QED BY <3>1, <3>2 DEF LegStep
  <2>2. CASE UNCHANGED Join!vars
    BY <2>2 DEF Join!vars, LegStep
  <2> QED BY <2>1, <2>2, DagStep DEF LegStep
<1>2. Spec => []DagInv
  BY DagInvHolds
<1>3. DagInv => Orderly
  BY DagOrderly
<1> QED BY <1>1, <1>2, <1>3, PTL DEF Spec
-----------------------------------------------------------------------------
(* The join *)

\* A plan whose retries and blocks the code keeps apart: it is dispatched as it
\* stands, one leg at most has a retry, it comes before every dependent and does
\* not block, and where a leg may block the task nothing else decides P. What
\* fails outside is in the README.
Plain(q) ==
    /\ q.refused = "no" /\ ~q.stalled /\ ~q.alloc /\ ~q.trips
    /\ \A l \in Legs : q.rule[l] = "summary" \/ (q.rule[l] = "verify" /\ q.replan)
    /\ \A l \in Legs : q.retry[l] > 0 =>
          /\ q.retry[l] = 1 /\ q.deps[l] = {} /\ q.policy[l] # "block_parent"
          /\ \A m \in Legs \ {l} : q.retry[m] = 0 /\ (q.deps[m] = {} \/ l \in q.deps[m])
    /\ (\E l \in Legs : q.policy[l] = "block_parent") =>
          /\ ~q.orchestrate /\ q.asks = {}
          /\ \A l \in Legs : q.deps[l] = {} /\ q.policy[l] \in {"continue", "block_parent"}

\* The constants: plain plans, humans that abort at most, and room for every job.
PlainTree ==
    /\ \A q \in Plans : Plain(q)
    /\ Verbs \subseteq {"abort"}
    /\ MaxJobs >= Cardinality(Children) + NLegs + 2

\* Facts about the rows that stay true
GoneAt(rw, l) == \E k \in Attempts : Failed(rw[<<l, k>>]) /\ k >= plan.retry[l]
GoodAt(rw, l) == \E k \in Attempts : Succeeded(rw[<<l, k>>])
BlockCause(rw) == \E l \in Legs : plan.policy[l] = "block_parent" /\ GoneAt(rw, l)
HumanCause(rw) ==
    \/ plan.asks # {}
    \/ \E l \in Legs : plan.policy[l] = "escalate_human" /\ GoneAt(rw, l)
NoBlockers(rw) == \A l \in Legs : plan.policy[l] = "block_parent" => GoodAt(rw, l)
RetriedGood(rw) == \A l \in Legs : plan.retry[l] > 0 => GoodAt(rw, l)
RetriedThere(rw) == \A l \in Legs : plan.retry[l] > 0 => rw[<<l, 1>>] # "absent"
HasDeps == \E l \in Legs : plan.deps[l] # {}

\* A listing that lets P be joined
NoneRetriable(v) == \A l \in Legs : ~Retriable(v, l)
Joinable(v) == NoneRetriable(v) /\ (AllResolved(v) \/ Escalates(v))

\* What an actor knows and may therefore do, with the rows rw, the continuation's
\* event ec and kind ck.
Justified(rw, ec, ck, r) ==
    /\ r.pc \notin {"correct", "answer", "rs_row"}
    /\ r.pc = "adv" => r.tried = {}
    /\ r.ret = "rs_task" \/ r.pc \in {"pause", "pausereq", "fin", "finq", "rs_task"} => HumanCause(rw)
    /\ r.pc \in {"ask", "askreq"} => plan.asks # {}
    /\ r.pc = "block" => BlockCause(rw)
    /\ r.pc \in {"events", "retry", "deps", "reread", "gate", "cont", "contev", "after"} =>
          r.job \in Children
    /\ r.pc = "events" /\ r.tried # {} => NoneRetriable(r.kids)
    /\ r.pc = "retry" => IF r.tried = {} THEN Retriables(r) # {} ELSE RetriedThere(rw)
    /\ r.pc \in {"deps", "gate"} => NoneRetriable(r.kids)
    /\ r.pc = "deps" => Dependents(r) # {}
    /\ r.pc = "reread" => ~r.esc /\ HasDeps /\ RetriedGood(rw)
    /\ r.pc = "gate" => /\ AllResolved(r.kids) \/ Escalates(r.kids)
                        /\ ec \/ NoBlockers(rw)
    /\ r.pc = "cont" => /\ Joinable(r.want.kids) /\ NoBlockers(rw)
                        /\ r.want.kind \in {"normal", "replan"}
    /\ r.pc \in {"fin", "finq"} => r.want.kind = "finalize"
    /\ r.pc \in {"fin", "finq", "finev", "finev2"} => r.ret = "rs_task"
    /\ r.pc \in {"contev", "finev"} => ck # "none"

JoinInv ==
    /\ \A x \in Actors : Justified(row, evCont, cont.kind, p[x])
    /\ \A c \in Children : row[c] = "asking" => plan.asks # {}
    /\ reqs # <<>> => HumanCause(row)
    /\ cont.kind # "none" => NoBlockers(row)
    /\ evCont => cont.kind # "none"
    /\ task = "blocked" => BlockCause(row)
    /\ tripped = "no"

\* Plans do not change.
LEMMA PlanStill ==
    ASSUME UNCHANGED plan, NEW rw, NEW ec, NEW ck, NEW r
    PROVE  Justified(rw, ec, ck, r)' <=> Justified(rw, ec, ck, r)
<1>1. \A v : /\ NoneRetriable(v)' <=> NoneRetriable(v)
             /\ AllResolved(v)' <=> AllResolved(v)
             /\ Escalates(v)' <=> Escalates(v)
  <2> SUFFICES ASSUME NEW v PROVE /\ NoneRetriable(v)' <=> NoneRetriable(v)
                                  /\ AllResolved(v)' <=> AllResolved(v)
                                  /\ Escalates(v)' <=> Escalates(v)
    OBVIOUS
  <2>1. NoneRetriable(v)' <=> NoneRetriable(v)
    BY DEF NoneRetriable, Retriable
  <2>2. AllResolved(v)' <=> AllResolved(v)
    BY DEF AllResolved, Resolved, Runnable
  <2>3. Escalates(v)' <=> Escalates(v)
    BY DEF Escalates
  <2> QED BY <2>1, <2>2, <2>3
<1>2. Retriables(r)' = Retriables(r) /\ Dependents(r)' = Dependents(r)
  BY DEF Retriables, Retriable, Dependents, DepsSatisfied
<1>3. /\ HumanCause(rw)' <=> HumanCause(rw)
      /\ BlockCause(rw)' <=> BlockCause(rw)
      /\ NoBlockers(rw)' <=> NoBlockers(rw)
      /\ RetriedGood(rw)' <=> RetriedGood(rw)
      /\ RetriedThere(rw)' <=> RetriedThere(rw)
      /\ HasDeps' <=> HasDeps
  BY DEF HumanCause, BlockCause, NoBlockers, RetriedGood, RetriedThere, HasDeps, GoneAt, GoodAt
<1> QED BY <1>1, <1>2, <1>3 DEF Justified, Joinable

LEMMA JoinInvNext ==
    ASSUME UNCHANGED plan, NEW x, Justified(row', evCont', cont'.kind, p'[x])
    PROVE  Justified(row, evCont, cont.kind, p[x])'
BY PlanStill

LEMMA FactsStay ==
    ASSUME RowMoves
    PROVE  /\ HumanCause(row) => HumanCause(row')
           /\ BlockCause(row) => BlockCause(row')
           /\ NoBlockers(row) => NoBlockers(row')
           /\ RetriedGood(row) => RetriedGood(row')
           /\ 1 \in Attempts => (RetriedThere(row) => RetriedThere(row'))
<1>1. \A l \in Legs, k \in Attempts :
          /\ Failed(row[<<l, k>>]) => Failed(row'[<<l, k>>])
          /\ Succeeded(row[<<l, k>>]) => Succeeded(row'[<<l, k>>])
          /\ row[<<l, k>>] # "absent" => row'[<<l, k>>] # "absent"
  <2>1. \A l \in Legs, k \in Attempts : <<l, k>> \in Children
    BY DEF Children
  <2> QED BY <2>1 DEF RowMoves, Settled, Succeeded, Failed
<1>2. \A l \in Legs : /\ GoneAt(row, l) => GoneAt(row', l)
                      /\ GoodAt(row, l) => GoodAt(row', l)
  BY <1>1 DEF GoneAt, GoodAt
<1> QED BY <1>1, <1>2 DEF HumanCause, BlockCause, NoBlockers, RetriedGood, RetriedThere

\* What the plan and the constants say
LEMMA PlainFacts ==
    ASSUME PlainTree, TypeOK
    PROVE  /\ NoResume /\ Plain(plan)
           /\ Attempts = 0..MaxRetry /\ 0 \in Attempts /\ MaxRetry \in Nat
           /\ \A l \in Legs : plan.retry[l] \in 0..MaxRetry
           /\ \A l \in Legs : plan.retry[l] > 0 => 1 \in Attempts
           /\ \A l \in Legs : plan.policy[l] = "block_parent" => plan.retry[l] = 0
           /\ HumanCause(row) => \A l \in Legs : plan.policy[l] # "block_parent"
<1>1. NoResume /\ Plain(plan)
  BY DEF PlainTree, NoResume, TypeOK
<1>2. Attempts = 0..MaxRetry /\ 0 \in Attempts /\ MaxRetry \in Nat
  BY <1>1, AttemptsPlain, DelegationAssumption
<1>3. \A l \in Legs : plan.retry[l] \in 0..MaxRetry
  BY PlanType
<1>4. \A l \in Legs : plan.policy[l] = "block_parent" => plan.retry[l] = 0
  <2> SUFFICES ASSUME NEW l \in Legs, plan.policy[l] = "block_parent" PROVE plan.retry[l] = 0
    OBVIOUS
  <2>1. ~(plan.retry[l] > 0)
    BY <1>1 DEF Plain
  <2> QED BY <1>2, <1>3, <2>1
<1>5. HumanCause(row) => \A l \in Legs : plan.policy[l] # "block_parent"
  BY <1>1 DEF Plain, HumanCause
<1>6. \A l \in Legs : plan.retry[l] > 0 => 1 \in Attempts
  BY <1>2, <1>3
<1> QED BY <1>1, <1>2, <1>3, <1>4, <1>5, <1>6

LEMMA JustifiedStays ==
    ASSUME PlainTree, TypeOK, RowMoves, evCont => evCont', cont.kind # "none" => cont'.kind # "none",
           NEW r, Justified(row, evCont, cont.kind, r)
    PROVE  Justified(row', evCont', cont'.kind, r)
<1>1. RetriedThere(row) => RetriedThere(row')
  <2>1. CASE \E l \in Legs : plan.retry[l] > 0
    BY <2>1, PlainFacts, FactsStay
  <2>2. CASE ~ \E l \in Legs : plan.retry[l] > 0
    BY <2>2 DEF RetriedThere
  <2> QED BY <2>1, <2>2
<1> QED BY <1>1, FactsStay DEF Justified

LEMMA JustifiedIdle ==
    ASSUME NEW rw, NEW ec, NEW ck PROVE Justified(rw, ec, ck, Idle)
BY DEF Justified, Idle

LEMMA QuitFields ==
    ASSUME NEW me, NEW pc
    PROVE  /\ Quit(me, pc).pc = pc /\ Quit(me, pc).job = me.job /\ Quit(me, pc).ret = me.ret
           /\ Quit(me, pc).tried = {} /\ ~Quit(me, pc).esc
BY DEF Quit, Idle

LEMMA RequestKind ==
    ASSUME NEW kind, NEW why, NEW kids
    PROVE  Request(kind, why, kids).kind = kind /\ Request(kind, why, kids).kids = kids
BY DEF Request

\* No backstop and no refusal keeps a plain plan from being dispatched.
LEMMA NoBackstop ==
    ASSUME PlainTree, TypeOK, tripped = "no" PROVE Backstop = "no"
<1>1. IsFiniteSet(Legs) /\ Cardinality(Legs) = NLegs
  BY DelegationAssumption, FS_Interval DEF Legs
<1>2. Projected \in Nat /\ Projected <= NLegs
  <2>1. {l \in Legs : View[l].st = "absent"} \subseteq Legs
    OBVIOUS
  <2> HIDE DEF View
  <2> QED BY <1>1, <2>1, FS_Subset, FS_CardinalityType DEF Projected
<1>3. NumJobs \in Nat /\ NumJobs <= Cardinality(Children) + 2 /\ Cardinality(Children) \in Nat
  <2> DEFINE S == {c \in Children : row[c] # "absent"}
  <2>1. IsFiniteSet(Children) /\ Cardinality(Children) \in Nat
    BY ChildrenFinite, FS_CardinalityType
  <2>2. IsFiniteSet(S) /\ Cardinality(S) <= Cardinality(Children) /\ Cardinality(S) \in Nat
    BY <2>1, FS_Subset, FS_CardinalityType
  <2> HIDE DEF S
  <2>3. NumJobs = Cardinality(S) + (IF cont.kind = "none" THEN 1 ELSE 2)
    BY DEF NumJobs, S
  <2> QED BY <2>1, <2>2, <2>3
<1>4. ~(NumJobs + Projected > MaxJobs)
  <2>1. MaxJobs \in Nat /\ MaxJobs >= Cardinality(Children) + NLegs + 2 /\ NLegs \in Nat
    BY DelegationAssumption DEF PlainTree
  <2> QED BY <1>2, <1>3, <2>1
<1>5. plan.refused = "no"
  BY PlainFacts DEF Plain
<1> HIDE DEF NumJobs, Projected
<1> QED BY <1>4, <1>5 DEF Backstop
-----------------------------------------------------------------------------
(* What an actor may go on as *)

Just(r) == Justified(row, evCont, cont.kind, r)
Going(x) == UNCHANGED p \/ \E r : Goto(x, r) /\ Just(r)

\* Where the proofs start from
Holding == PlainTree /\ DagInv /\ Orderly /\ JoinInv

LEMMA ActorFacts ==
    ASSUME Holding, NEW x \in Actors
    PROVE  /\ Just(p[x]) /\ p[x] \in Activity /\ p[x].kids \in Views /\ p[x].job \in Jobs
           /\ Honest(row, p[x].kids)
           /\ \A l \in Legs : p[x].kids[l].k \in Attempts
BY DEF Holding, DagInv, JoinInv, Just, TypeOK, Know, Knows, Activity, Views

\* Of a listing: what failed for good is gone, what succeeded is good.
LEMMA ListedLegs ==
    ASSUME Holding, NEW v \in Views, Honest(row, v), NEW l \in Legs
    PROVE  /\ Failed(v[l].st) /\ ~Retriable(v, l) => GoneAt(row, l)
           /\ Succeeded(v[l].st) => GoodAt(row, l)
<1>1. v[l].k \in Attempts /\ v[l].k \in Nat /\ RetryCount(v[l].k) = v[l].k /\ plan.retry[l] \in Nat
  <2>1. v[l].k \in 0..MaxRetry /\ MaxRetry \in Nat /\ v[l].k \in Attempts
    BY PlainFacts DEF Views, Holding, DagInv
  <2> QED BY <2>1 DEF RetryCount, Resume, Holding, Orderly
<1>2. Failed(v[l].st) => Failed(row[<<l, v[l].k>>])
  BY DEF Honest, Failed, Settled
<1>3. Succeeded(v[l].st) => Succeeded(row[<<l, v[l].k>>])
  BY DEF Honest, Failed, Settled, Succeeded
<1> QED BY <1>1, <1>2, <1>3 DEF Retriable, GoneAt, GoodAt

\* A fresh listing shows nothing to be retried, when the retried leg is at its
\* second attempt or has succeeded.
LEMMA NothingLeft ==
    ASSUME Holding, RetriedThere(row) \/ RetriedGood(row)
    PROVE  NoneRetriable(View)
<1>a. /\ NoResume /\ Plain(plan) /\ InOrder(row) /\ TypeOK
      /\ Attempts = 0..MaxRetry /\ 0 \in Attempts /\ MaxRetry \in Nat
      /\ \A l \in Legs : plan.retry[l] \in 0..MaxRetry
  BY PlainFacts DEF Holding, DagInv, Orderly
<1> SUFFICES ASSUME NEW l \in Legs, Retriable(View, l) PROVE FALSE
  BY DEF NoneRetriable
<1> DEFINE k == Latest(row, l)
<1>1. k \in Attempts /\ CurrentAttempt(l) = k
  BY <1>a, LatestFacts DEF CurrentAttempt, Latest
<1>2. Failed(row[<<l, k>>]) /\ RetryCount(k) < plan.retry[l]
  <2> HIDE DEF CurrentAttempt, k
  <2> QED BY <1>1 DEF Retriable, View
<1> HIDE DEF k
<1>3. plan.retry[l] > 0 /\ plan.retry[l] = 1 /\ k = 0
  <2>1. RetryCount(k) = k /\ k \in Nat /\ plan.retry[l] \in Nat
    BY <1>a, <1>1 DEF RetryCount, Resume
  <2>2. plan.retry[l] > 0
    BY <1>2, <2>1
  <2> QED BY <1>a, <1>2, <2>1, <2>2 DEF Plain
<1>4. CASE RetriedThere(row)
  <2>1. 1 \in Attempts /\ row[<<l, 1>>] # "absent"
    BY <1>3, <1>4, <1>a DEF RetriedThere
  <2>2. Latest(row, l) = 1
    <3>1. plan.retry[l] \in Nat /\ 1 >= plan.retry[l]
      BY <1>3
    <3> QED BY <1>a, <2>1, <3>1, LatestLast
  <2> QED BY <1>3, <2>2 DEF k
<1>5. CASE RetriedGood(row)
  <2>1. PICK n \in Attempts : Succeeded(row[<<l, n>>])
    BY <1>3, <1>5 DEF RetriedGood, GoodAt
  <2>2. row[<<l, n>>] # "absent" /\ ~Failed(row[<<l, n>>])
    BY <2>1 DEF Succeeded, Failed
  <2>3. Latest(row, l) = n
    <3>1. plan.retry[l] \in Nat
      BY <1>3
    <3> QED BY <1>a, <2>1, <2>2, <3>1, LatestLast
  <2> QED BY <1>2, <2>2, <2>3 DEF k
<1> QED BY <1>4, <1>5

LEMMA JustifiedQuit ==
    ASSUME Holding, NEW x \in Actors, p[x].job \in Children
    PROVE  Just(Quit(p[x], "after")) /\ Just(Quit(p[x], p[x].ret))
<1>1. p[x].ret \in {"after", "mark", "rs_task"} /\ (p[x].ret = "rs_task" => HumanCause(row))
  BY ActorFacts DEF Activity, Just, Justified
<1>2. \A pc \in {"after", "mark", "rs_task"} :
         pc \in {"after", p[x].ret} => Just(Quit(p[x], pc))
  BY <1>1, QuitFields DEF Just, Justified
<1> QED BY <1>1, <1>2

\* After the policies: dependents, the join, or nothing.
LEMMA JustifiedDepsOrGate ==
    ASSUME Holding, NEW e, e.job \in Children, e.ret \in {"after", "mark", "rs_task"},
           e.ret = "rs_task" => HumanCause(row),
           e.pc \in PCs, e \in Activity, NoneRetriable(e.kids),
           e.esc => Escalates(e.kids),
           e.esc \/ AllResolved(e.kids) => evCont \/ NoBlockers(row)
    PROVE  Just(DepsOrGate(e))
<1>1. CASE Dependents(e) # {}
  <2> DEFINE r == [e EXCEPT !.pc = "deps"]
  <2>1. /\ r.pc = "deps" /\ r.job = e.job /\ r.ret = e.ret /\ r.kids = e.kids
        /\ r.esc = e.esc /\ r.tried = e.tried
    BY DEF Activity
  <2>2. Dependents(r) = Dependents(e)
    <3> HIDE DEF r
    <3> QED BY <2>1 DEF Dependents
  <2> HIDE DEF r
  <2>3. Just(r)
    BY <1>1, <2>1, <2>2 DEF Just, Justified
  <2> QED BY <1>1, <2>3 DEF DepsOrGate, r
<1>2. CASE Dependents(e) = {} /\ (e.esc \/ AllResolved(e.kids))
  <2> DEFINE r == [e EXCEPT !.pc = "gate", !.tried = {}]
  <2>1. r.pc = "gate" /\ r.job = e.job /\ r.ret = e.ret /\ r.kids = e.kids
    BY DEF Activity
  <2> HIDE DEF r
  <2>2. Just(r)
    BY <1>2, <2>1 DEF Just, Justified
  <2> QED BY <1>2, <2>2 DEF DepsOrGate, r
<1>3. CASE Dependents(e) = {} /\ ~(e.esc \/ AllResolved(e.kids))
  <2>1. Just(Quit(e, "after"))
    BY QuitFields DEF Just, Justified
  <2> QED BY <1>3, <2>1 DEF DepsOrGate
<1> QED BY <1>1, <1>2, <1>3

LEMMA JustifiedEvents == ASSUME Holding, NEW x \in Actors, Events(x) PROVE Going(x)
<1> DEFINE me == p[x]
           stop == IF evCont THEN {} ELSE Stopping(me.kids)
           e == [me EXCEPT !.esc = Escalates(me.kids), !.tried = {}]
<1>a. Just(me) /\ me \in Activity /\ me.kids \in Views /\ Honest(row, me.kids)
  BY ActorFacts
<1>b. Plain(plan) /\ \A l \in Legs : plan.policy[l] = "block_parent" => plan.retry[l] = 0
  BY PlainFacts DEF Holding, DagInv
<1>c. me.pc = "events" /\ me.job \in Children
  BY <1>a DEF Events, At, Just, Justified
<1>1. ASSUME me.tried = {}, Retriables(me) # {}, Goto(x, [me EXCEPT !.pc = "retry"])
      PROVE  Going(x)
  <2> DEFINE r == [me EXCEPT !.pc = "retry"]
  <2>1. /\ r.pc = "retry" /\ r.job = me.job /\ r.ret = me.ret /\ r.kids = me.kids
        /\ r.tried = {} /\ r.esc = me.esc
    BY <1>1, <1>a DEF Activity
  <2>2. Retriables(r) # {}
    <3> HIDE DEF r, me
    <3> QED BY <1>1, <2>1 DEF Retriables
  <2> HIDE DEF r
  <2>3. Just(r)
    <3> HIDE DEF me
    <3> QED BY <1>a, <1>c, <2>1, <2>2 DEF Just, Justified
  <2> QED BY <1>1, <2>3 DEF Going, r
<1>2. ASSUME ~(me.tried = {} /\ Retriables(me) # {}) PROVE NoneRetriable(me.kids)
  <2>1. CASE me.tried = {}
    BY <1>2, <2>1 DEF Retriables, NoneRetriable
  <2>2. CASE me.tried # {}
    BY <1>a, <1>c, <2>2 DEF Just, Justified
  <2> QED BY <2>1, <2>2
<1>3. ASSUME NoneRetriable(me.kids), stop = {}, Goto(x, DepsOrGate(e)) PROVE Going(x)
  <2>1. /\ e \in Activity /\ e.pc = "events" /\ e.job = me.job /\ e.ret = me.ret
        /\ e.kids = me.kids /\ e.esc = Escalates(me.kids)
    <3> DEFINE b == Escalates(me.kids)
    <3>1. b \in BOOLEAN
      BY DEF Escalates
    <3> HIDE DEF b
    <3>2. [me EXCEPT !.esc = b, !.tried = {}] \in Activity
      BY <1>a, <3>1 DEF Activity
    <3>3. LET i == [me EXCEPT !.esc = b, !.tried = {}]
          IN i.pc = me.pc /\ i.job = me.job /\ i.ret = me.ret /\ i.kids = me.kids /\ i.esc = b
      BY <1>a DEF Activity
    <3> QED BY <1>c, <3>2, <3>3 DEF b
  <2>2. me.ret \in {"after", "mark", "rs_task"} /\ (me.ret = "rs_task" => HumanCause(row))
    BY <1>a DEF Activity, Just, Justified
  <2>3. ASSUME Escalates(me.kids) \/ AllResolved(me.kids), ~evCont PROVE NoBlockers(row)
    <3> SUFFICES ASSUME NEW l \in Legs, plan.policy[l] = "block_parent" PROVE GoodAt(row, l)
      BY DEF NoBlockers
    <3>1. plan.deps[l] = {} /\ \A m \in Legs : plan.policy[m] # "escalate"
      BY <1>b DEF Plain
    <3>2. AllResolved(me.kids)
      BY <2>3, <3>1 DEF Escalates
    <3>3. me.kids[l].st # "absent"
      <4> SUFFICES ASSUME me.kids[l].st = "absent" PROVE FALSE
        OBVIOUS
      <4>1. l \in Runnable(me.kids)
        BY <3>1 DEF Runnable
      <4> QED BY <3>2, <4>1 DEF AllResolved, Resolved
    <3>4. Settled(me.kids[l].st) /\ ~Failed(me.kids[l].st)
      BY <1>3, <2>3, <3>2, <3>3 DEF AllResolved, Resolved, Stopping
    <3> QED BY <1>a, <3>4, ListedLegs DEF Settled
  <2> HIDE DEF me, e
  <2>4. Just(DepsOrGate(e))
    <3>1. "events" \in PCs
      BY DEF PCs
    <3> QED BY <1>3, <1>c, <2>1, <2>2, <2>3, <3>1, JustifiedDepsOrGate
  <2> QED BY <1>3, <2>4 DEF Going
<1>4. ASSUME NoneRetriable(me.kids), NEW l \in First(stop),
             Goto(x, IF plan.policy[l] = "escalate_human"
                       THEN [Quit(me, "pause") EXCEPT !.leg = l]
                       ELSE BlockingOrFinalizing(me, "block_parent"))
      PROVE  Going(x)
  <2>1. /\ l \in Legs /\ Failed(me.kids[l].st)
        /\ plan.policy[l] \in {"escalate_human", "block_parent"}
    BY <1>4 DEF First, Stopping
  <2>2. GoneAt(row, l)
    BY <1>4, <1>a, <2>1, ListedLegs DEF NoneRetriable
  <2>3. me.ret = "rs_task" => HumanCause(row)
    BY <1>a DEF Just, Justified
  <2> HIDE DEF me, stop
  <2>4. CASE plan.policy[l] = "escalate_human"
    <3> DEFINE q == Quit(me, "pause")
               r == [q EXCEPT !.leg = l]
    <3>1. q.pc = "pause"
      BY QuitFields
    <3>2. q = [Idle EXCEPT !.pc = "pause", !.job = me.job, !.late = me.late, !.ret = me.ret]
      BY DEF Quit
    <3>3. r.pc = "pause"
      BY DEF Quit, Idle
    <3>4. HumanCause(row)
      BY <2>1, <2>2, <2>4 DEF HumanCause
    <3> HIDE DEF r, q
    <3>5. Just(r)
      BY <3>3, <3>4 DEF Just, Justified
    <3> QED BY <1>4, <2>4, <3>5 DEF Going, r, q
  <2>5. CASE plan.policy[l] = "block_parent"
    <3>1. ~plan.orchestrate
      BY <1>b, <2>1, <2>5 DEF Plain
    <3>2. BlockingOrFinalizing(me, "block_parent") = Quit(me, "block")
      BY <3>1 DEF BlockingOrFinalizing, Blocking
    <3>3. BlockCause(row)
      BY <2>1, <2>2, <2>5 DEF BlockCause
    <3>4. Just(Quit(me, "block"))
      BY <2>3, <3>3, QuitFields DEF Just, Justified
    <3> QED BY <1>4, <2>5, <3>2, <3>4 DEF Going
  <2> QED BY <2>1, <2>4, <2>5
<1>5. \/ me.tried = {} /\ Retriables(me) # {} /\ Goto(x, [me EXCEPT !.pc = "retry"])
      \/ ~(me.tried = {} /\ Retriables(me) # {}) /\ stop = {} /\ Goto(x, DepsOrGate(e))
      \/ /\ ~(me.tried = {} /\ Retriables(me) # {})
         /\ \E l \in First(stop) :
               Goto(x, IF plan.policy[l] = "escalate_human"
                         THEN [Quit(me, "pause") EXCEPT !.leg = l]
                         ELSE BlockingOrFinalizing(me, "block_parent"))
  BY DEF Events
<1> HIDE DEF me, stop, e
<1> QED BY <1>1, <1>2, <1>3, <1>4, <1>5

LEMMA JustifiedRetry ==
    ASSUME Holding, NEW x \in Actors, Retry(x)
    PROVE  \E r : Goto(x, r) /\ Justified(row', evCont', cont'.kind, r)
<1> DEFINE me == p[x]
           todo == Retriables(me)
<1>a. /\ Just(me) /\ me \in Activity /\ me.kids \in Views
      /\ \A l \in Legs : me.kids[l].k \in Attempts
  BY ActorFacts
<1>b. /\ Plain(plan) /\ ~plan.alloc /\ 0 \in Attempts /\ Attempts = 0..MaxRetry /\ MaxRetry \in Nat
      /\ \A l \in Legs : plan.retry[l] \in 0..MaxRetry
      /\ \A l \in Legs : plan.retry[l] > 0 => 1 \in Attempts
      /\ row \in [Children -> States]
  BY PlainFacts DEF Holding, DagInv, Plain, TypeOK
<1>c. me.pc = "retry" /\ me.job \in Children /\ (me.ret = "rs_task" => HumanCause(row))
  BY <1>a DEF Retry, At, Just, Justified
<1>d. RowMoves /\ UNCHANGED <<evCont, cont>>
  <2>1. RowGrows
    BY EnqueueGrows DEF Retry, Holding, DagInv, RowGrows
  <2> QED BY <2>1 DEF Retry, RowGrows, RowMoves
<1>1. ASSUME NEW l \in First(todo), Enqueue(<<l, RetryCount(me.kids[l].k) + 1>>),
             Goto(x, [me EXCEPT !.tried = @ \cup {l}])
      PROVE  \E r : Goto(x, r) /\ Justified(row', evCont', cont'.kind, r)
  <2> DEFINE r == [me EXCEPT !.tried = @ \cup {l}]
  <2>1. l \in Legs /\ Retriable(me.kids, l)
    BY DEF First, Retriables
  <2>2. plan.retry[l] = 1 /\ RetryCount(me.kids[l].k) = 0 /\ 1 \in Attempts
    <3>1. me.kids[l].k \in Nat /\ RetryCount(me.kids[l].k) = me.kids[l].k
      BY <1>a, <1>b, <2>1 DEF RetryCount, Resume
    <3>2. plan.retry[l] \in Nat /\ RetryCount(me.kids[l].k) < plan.retry[l]
      BY <1>b, <2>1 DEF Retriable
    <3>3. plan.retry[l] > 0
      BY <3>1, <3>2
    <3>4. plan.retry[l] = 1
      BY <1>b, <2>1, <3>3 DEF Plain
    <3> QED BY <1>b, <2>1, <3>1, <3>2, <3>3, <3>4
  <2>3. row'[<<l, 1>>] # "absent"
    <3>1. <<l, 1>> \in Children
      BY <2>1, <2>2 DEF Children
    <3>2. Enqueue(<<l, 1>>)
      BY <1>1, <2>2
    <3> QED BY <1>b, <3>1, <3>2 DEF Enqueue
  <2>4. RetriedThere(row')
    <3> SUFFICES ASSUME NEW m \in Legs, plan.retry[m] > 0 PROVE m = l
      BY <2>3 DEF RetriedThere
    <3>1. plan.retry[l] > 0
      BY <2>2
    <3> QED BY <1>b, <2>1, <3>1 DEF Plain
  <2>5. r.pc = "retry" /\ r.job = me.job /\ r.ret = me.ret /\ r.tried # {}
    BY <1>a, <1>c DEF Activity
  <2> HIDE DEF me, r
  <2>6. Justified(row', evCont', cont'.kind, r)
    BY <1>c, <1>d, <2>4, <2>5, FactsStay DEF Justified
  <2> QED BY <1>1, <2>6 DEF r
<1>2. ASSUME todo = {}, Goto(x, [me EXCEPT !.pc = "events", !.kids = View])
      PROVE  \E r : Goto(x, r) /\ Justified(row', evCont', cont'.kind, r)
  <2> DEFINE r == [me EXCEPT !.pc = "events", !.kids = View]
  <2>1. RetriedThere(row)
    BY <1>a, <1>c, <1>2 DEF Just, Justified
  <2>2. NoneRetriable(View)
    BY <2>1, NothingLeft
  <2>3. r.pc = "events" /\ r.job = me.job /\ r.ret = me.ret /\ r.kids = View
    BY <1>a DEF Activity
  <2> HIDE DEF me, r
  <2>4. Justified(row', evCont', cont'.kind, r)
    BY <1>c, <1>d, <2>2, <2>3, FactsStay DEF Justified
  <2> QED BY <1>2, <2>4 DEF r
<1> QED BY <1>1, <1>2, <1>b DEF Retry

LEMMA JustifiedDeps == ASSUME Holding, NEW x \in Actors, Deps(x) PROVE Going(x)
<1> DEFINE me == p[x]
<1>a. Just(me) /\ me \in Activity /\ me.kids \in Views /\ Honest(row, me.kids)
  BY ActorFacts
<1>b. Plain(plan) /\ ~plan.alloc /\ TypeOK
  BY PlainFacts DEF Holding, DagInv, Plain
<1>c. me.pc = "deps" /\ me.job \in Children /\ (me.ret = "rs_task" => HumanCause(row))
  BY <1>a DEF Deps, At, Just, Justified
<1>1. PICK l \in First(Dependents(me)) :
         Goto(x, [me EXCEPT !.pc = "reread", !.tried = @ \cup {l}])
  BY <1>b DEF Deps
<1>2. l \in Legs /\ plan.deps[l] # {} /\ DepsSatisfied(me.kids, l) /\ ~me.esc
  BY DEF First, Dependents
<1>3. RetriedGood(row)
  <2> SUFFICES ASSUME NEW m \in Legs, plan.retry[m] > 0 PROVE GoodAt(row, m)
    BY DEF RetriedGood
  <2>1. m \in plan.deps[l]
    BY <1>b, <1>2 DEF Plain
  <2>2. Succeeded(me.kids[m].st)
    BY <1>2, <2>1 DEF DepsSatisfied
  <2> QED BY <1>a, <2>2, ListedLegs
<1> DEFINE r == [me EXCEPT !.pc = "reread", !.tried = @ \cup {l}]
<1>4. r.pc = "reread" /\ r.job = me.job /\ r.ret = me.ret /\ r.esc = me.esc
  BY <1>a DEF Activity
<1> HIDE DEF me, r
<1>5. Just(r)
  BY <1>c, <1>2, <1>3, <1>4 DEF Just, Justified, HasDeps
<1> QED BY <1>1, <1>5 DEF Going, r

LEMMA JustifiedReread == ASSUME Holding, NEW x \in Actors, Reread(x) PROVE Going(x)
<1> DEFINE me == p[x]
           e == [me EXCEPT !.kids = View]
<1>a. Just(me) /\ me \in Activity
  BY ActorFacts
<1>b. Plain(plan) /\ TypeOK
  BY PlainFacts DEF Holding, DagInv
<1>c. /\ me.pc = "reread" /\ me.job \in Children /\ (me.ret = "rs_task" => HumanCause(row))
      /\ ~me.esc /\ HasDeps /\ RetriedGood(row)
  BY <1>a DEF Reread, At, Just, Justified
<1>1. e \in Activity /\ e.pc = "reread" /\ e.job = me.job /\ e.ret = me.ret
      /\ e.kids = View /\ e.esc = me.esc /\ e.ret \in {"after", "mark", "rs_task"}
  <2>1. View \in Views
    BY <1>b, ViewType
  <2> HIDE DEF View
  <2> QED BY <1>a, <1>c, <2>1 DEF Activity
<1>2. NoneRetriable(View)
  BY <1>c, NothingLeft
<1>3. NoBlockers(row)
  BY <1>b, <1>c DEF Plain, HasDeps, NoBlockers
<1>4. "reread" \in PCs
  BY DEF PCs
<1>5. Goto(x, DepsOrGate(e))
  BY DEF Reread
<1> HIDE DEF me, e
<1>6. Just(DepsOrGate(e))
  BY <1>c, <1>1, <1>2, <1>3, <1>4, JustifiedDepsOrGate
<1> QED BY <1>5, <1>6 DEF Going

LEMMA JustifiedGate == ASSUME Holding, NEW x \in Actors, Gate(x) PROVE Going(x)
<1> DEFINE me == p[x]
           Cont(kind) == [Quit(me, "cont") EXCEPT !.want = Request(kind, "none", me.kids)]
<1>a. Just(me) /\ me \in Activity
  BY ActorFacts
<1>b. Plain(plan)
  BY PlainFacts DEF Holding, DagInv
<1>c. /\ me.pc = "gate" /\ me.job \in Children /\ (me.ret = "rs_task" => HumanCause(row))
      /\ Joinable(me.kids) /\ (evCont \/ NoBlockers(row))
  BY <1>a DEF Gate, At, Just, Justified, Joinable
<1>1. ~GateFails(me.kids) /\ ~plan.stalled /\ (~VerifyPassed(me.kids) => plan.replan)
  BY <1>b DEF Plain, GateFails, HasRule, VerifyPassed
<1>2. \/ evCont /\ Goto(x, Quit(me, me.ret))
      \/ ~evCont /\ \E kind \in {"normal", "replan"} : Goto(x, Cont(kind))
  BY <1>1 DEF Gate
<1>3. ASSUME ~evCont, NEW kind \in {"normal", "replan"} PROVE Just(Cont(kind))
  <2> DEFINE w == Request(kind, "none", me.kids)
             r == [Quit(me, "cont") EXCEPT !.want = w]
  <2>1. w.kind = kind /\ w.kids = me.kids
    BY RequestKind
  <2> HIDE DEF w, me
  <2>2. r.pc = "cont" /\ r.job = me.job /\ r.ret = me.ret /\ r.want = w
    BY DEF Quit, Idle
  <2> HIDE DEF r
  <2>3. Just(r)
    BY <1>c, <1>3, <2>1, <2>2 DEF Just, Justified
  <2> QED BY <2>3 DEF r, w
<1>4. Just(Quit(me, me.ret))
  BY <1>c, JustifiedQuit
<1> HIDE DEF me, Cont
<1> QED BY <1>2, <1>3, <1>4 DEF Going
-----------------------------------------------------------------------------
(* Every step keeps the invariant of the join *)

Goes(x) == UNCHANGED p \/ \E r : Goto(x, r) /\ Justified(row', evCont', cont'.kind, r)

StoreKept ==
    /\ evCont => evCont'
    /\ cont.kind # "none" => cont'.kind # "none"
    /\ \A c \in Children : row'[c] = "asking" => plan.asks # {}
    /\ reqs' # <<>> => HumanCause(row')
    /\ cont'.kind # "none" => NoBlockers(row')
    /\ evCont' => cont'.kind # "none"
    /\ task' = "blocked" => BlockCause(row')
    /\ tripped' = "no"

LEMMA GoingGoes ==
    ASSUME Holding, RowMoves, evCont => evCont', cont.kind # "none" => cont'.kind # "none",
           NEW x \in Actors, Going(x)
    PROVE  Goes(x)
BY JustifiedStays DEF Going, Goes, Just, Holding, DagInv

LEMMA QuietKept ==
    ASSUME Holding, RowMoves, UNCHANGED <<evCont, cont, tripped>>,
           \A c \in Children : row'[c] = "asking" => plan.asks # {},
           reqs' = reqs \/ HumanCause(row),
           task' \in {task, "awaiting", "planned"} \/ BlockCause(row)
    PROVE  StoreKept
BY FactsStay DEF Holding, JoinInv, StoreKept

LEMMA EngineRows ==
    ASSUME Holding, NEW x \in Actors, Engine(x)
    PROVE  /\ RowMoves /\ tripped' = tripped
           /\ \A c \in Children : row'[c] = "asking" => plan.asks # {}
<1>1. RowGrows /\ RowMoves
  BY EngineStore DEF StoreStep, Holding, DagInv
<1>2. tripped' = tripped
  BY DEF Engine, AdvanceJob, Ask, AskRequest, AfterAdvance, Dispatch, Events, Pause, Spawn, Retry,
         Deps, ResumeRow, PauseRequest, RequestRound, Reread, Gate, AnswerGate, Continue, Correct,
         EnqueueContinuation, ContinueEvent, FinalizeGuard, FinalizeEnqueue, FinalizeEvent,
         ResumeTask, ResumeDone, Block, MarkDone, MarkBlocked, still
<1> QED BY <1>1, <1>2 DEF RowGrows, Holding, JoinInv

\* An actor at pc, with what it knows
LEMMA JustAt ==
    ASSUME Holding, NEW x \in Actors, NEW pc
    PROVE  LET r == [p[x] EXCEPT !.pc = pc]
           IN /\ r.pc = pc /\ r.job = p[x].job /\ r.ret = p[x].ret /\ r.kids = p[x].kids
              /\ r.tried = p[x].tried /\ r.want = p[x].want
BY ActorFacts DEF Activity

LEMMA GoingIdle == ASSUME Holding, NEW x, Goto(x, Idle) PROVE Going(x)
BY JustifiedIdle DEF Going, Just

LEMMA EngineGoing ==
    ASSUME Holding, NEW x \in Actors, Engine(x), ~Retry(x), ~Continue(x), ~FinalizeEnqueue(x)
    PROVE  Going(x)
<1> DEFINE me == p[x]
<1>a. Just(me) /\ me \in Activity /\ me.job \in Jobs
  BY ActorFacts
<1>b. Plain(plan) /\ ~plan.alloc
  BY PlainFacts DEF Holding, DagInv, Plain
<1>c. me.ret = "rs_task" => HumanCause(row)
  BY <1>a DEF Just, Justified
<1>d. ASSUME NEW pc, Step(x, pc), Just([me EXCEPT !.pc = pc]) PROVE Going(x)
  BY <1>d DEF Step, Going
<1>e. \A pc \in {"ask", "askreq", "dispatch", "mark", "pausereq", "block", "blocked", "rs_done",
                 "finq", "finev2", "rs_task", "after", "events"} :
        LET r == [me EXCEPT !.pc = pc]
        IN /\ r.pc = pc /\ r.job = me.job /\ r.ret = me.ret /\ r.kids = me.kids
           /\ r.tried = me.tried /\ r.want = me.want
  BY JustAt
<1>1. ASSUME AdvanceJob(x) PROVE Going(x)
  <2>1. me.pc = "adv" /\ me.tried = {}
    BY <1>1, <1>a DEF AdvanceJob, At, Just, Justified
  <2>2. CASE Asks(me.job) /\ Goto(x, [me EXCEPT !.pc = "ask"])
    <3>1. plan.asks # {}
      <4>1. CASE me.job = P
        BY <2>2, <4>1 DEF Asks
      <4>2. CASE me.job # P
        <5>1. me.job \in Children
          BY <1>a, <4>2 DEF Jobs
        <5> QED BY <2>2, <4>2, <5>1 DEF Asks, Holding, JoinInv
      <4> QED BY <4>1, <4>2
    <3> DEFINE r == [me EXCEPT !.pc = "ask"]
    <3>2. r.pc = "ask" /\ r.ret = me.ret
      BY <1>e
    <3> HIDE DEF r, me
    <3>3. Just(r)
      BY <1>c, <3>1, <3>2 DEF Just, Justified
    <3> QED BY <2>2, <3>3 DEF Going, r
  <2>3. CASE Goto(x, [me EXCEPT !.pc = "dispatch"])
    <3> DEFINE r == [me EXCEPT !.pc = "dispatch"]
    <3>1. r.pc = "dispatch" /\ r.ret = me.ret
      BY <1>e
    <3> HIDE DEF r, me
    <3>2. Just(r)
      BY <1>c, <3>1 DEF Just, Justified
    <3> QED BY <2>3, <3>2 DEF Going, r
  <2>4. CASE me.job # P /\ Goto(x, [me EXCEPT !.pc = "events", !.kids = View])
    <3> DEFINE r == [me EXCEPT !.pc = "events", !.kids = View]
    <3>1. r.pc = "events" /\ r.ret = me.ret /\ r.job = me.job /\ r.tried = {}
      BY <1>a, <2>1 DEF Activity
    <3>2. me.job \in Children
      BY <1>a, <2>4 DEF Jobs
    <3> HIDE DEF r, me
    <3>3. Just(r)
      BY <1>c, <3>1, <3>2 DEF Just, Justified
    <3> QED BY <2>4, <3>3 DEF Going, r
  <2> QED BY <1>1, <2>2, <2>3, <2>4 DEF AdvanceJob
<1>2. ASSUME Ask(x) PROVE Going(x)
  <2>1. me.pc = "ask" /\ plan.asks # {}
    BY <1>2, <1>a DEF Ask, At, Just, Justified
  <2>2. Just([me EXCEPT !.pc = "mark"]) /\ Just([me EXCEPT !.pc = "askreq"])
    <3> DEFINE r(pc) == [me EXCEPT !.pc = pc]
    <3>1. \A pc \in {"mark", "askreq"} : r(pc).pc = pc /\ r(pc).ret = me.ret
      BY <1>e
    <3> HIDE DEF r, me
    <3>2. \A pc \in {"mark", "askreq"} : Just(r(pc))
      BY <1>c, <2>1, <3>1 DEF Just, Justified
    <3> QED BY <3>2 DEF r
  <2> QED BY <1>2, <1>d, <2>2, GoingIdle DEF Ask, Await
<1>3. ASSUME AskRequest(x) \/ PauseRequest(x) PROVE Going(x)
  BY <1>3, GoingIdle DEF AskRequest, PauseRequest, RequestRound, Await
<1>4. ASSUME AfterAdvance(x) PROVE Going(x)
  <2>1. me.pc = "after" /\ me.job \in Children
    BY <1>4, <1>a DEF AfterAdvance, At, Just, Justified
  <2>2. CASE row[me.job] = "failed" /\ plan.policy[me.job[1]] = "block_parent" /\ Step(x, "block")
    <3>1. PICK l \in Legs, k \in Attempts : me.job = <<l, k>>
      BY <2>1 DEF Children
    <3>2. k >= plan.retry[l]
      BY <2>2, <3>1, PlainFacts DEF Holding, DagInv
    <3>3. BlockCause(row)
      BY <2>2, <3>1, <3>2 DEF BlockCause, GoneAt, Failed
    <3> DEFINE r == [me EXCEPT !.pc = "block"]
    <3>4. r.pc = "block" /\ r.ret = me.ret
      BY <1>e
    <3> HIDE DEF r, me
    <3>5. Just(r)
      BY <1>c, <3>3, <3>4 DEF Just, Justified
    <3> QED BY <2>2, <3>5, <1>d DEF r
  <2>3. CASE Step(x, "mark")
    <3> DEFINE r == [me EXCEPT !.pc = "mark"]
    <3>1. r.pc = "mark" /\ r.ret = me.ret
      BY <1>e
    <3> HIDE DEF r, me
    <3>2. Just(r)
      BY <1>c, <3>1 DEF Just, Justified
    <3> QED BY <2>3, <3>2, <1>d DEF r
  <2> HIDE DEF me
  <2> QED BY <1>4, <2>2, <2>3 DEF AfterAdvance, me
<1>5. ASSUME Dispatch(x) PROVE Going(x)
  <2>1. Backstop = "no" /\ plan.refused = "no"
    BY <1>b, NoBackstop DEF Plain, Holding, DagInv, JoinInv
  <2>2. Goto(x, [[me EXCEPT !.ret = "mark"] EXCEPT !.pc = "spawn"])
    <3> HIDE DEF me
    <3> QED BY <1>5, <2>1 DEF Dispatch, me
  <2> DEFINE r == [[me EXCEPT !.ret = "mark"] EXCEPT !.pc = "spawn"]
  <2>3. r.pc = "spawn" /\ r.ret = "mark"
    BY <1>a DEF Activity
  <2> HIDE DEF me, r
  <2>4. Just(r)
    BY <2>3 DEF Just, Justified
  <2> QED BY <2>2, <2>4 DEF Going, r
<1>6. ASSUME Spawn(x) PROVE Going(x)
  <2> DEFINE r == [me EXCEPT !.pc = "mark"]
  <2>1. r.pc = "mark" /\ r.ret = me.ret
    BY <1>e
  <2> HIDE DEF me, r
  <2>2. Just(r)
    BY <1>c, <2>1 DEF Just, Justified
  <2>3. UNCHANGED p \/ Step(x, "mark")
    BY <1>6, <1>b DEF Spawn
  <2> QED BY <2>2, <2>3, <1>d DEF r, Going
<1>7. ASSUME Pause(x) PROVE Going(x)
  <2>1. me.pc = "pause" /\ HumanCause(row)
    BY <1>7, <1>a DEF Pause, At, Just, Justified
  <2> DEFINE r == [me EXCEPT !.pc = "pausereq"]
  <2>2. r.pc = "pausereq" /\ r.ret = me.ret
    BY <1>e
  <2> HIDE DEF me, r
  <2>3. Just(r)
    BY <2>1, <2>2 DEF Just, Justified
  <2> QED BY <1>7, <1>d, <2>3, GoingIdle DEF Pause, Await, r
<1>8. ASSUME ContinueEvent(x) PROVE Going(x)
  <2>1. CASE me.pc = "contev" /\ Step(x, me.ret)
    <3>1. me.job \in Children
      BY <1>a, <2>1 DEF Just, Justified
    <3> DEFINE r == [me EXCEPT !.pc = me.ret]
    <3>2. r.pc = me.ret /\ r.ret = me.ret /\ r.job = me.job /\ me.ret \in {"after", "mark", "rs_task"}
      BY <1>a DEF Activity
    <3> HIDE DEF me, r
    <3>3. Just(r)
      BY <1>c, <3>1, <3>2 DEF Just, Justified
    <3> QED BY <2>1, <3>3, <1>d DEF r
  <2>2. CASE me.pc = "finev" /\ Step(x, "finev2")
    <3>1. me.ret = "rs_task"
      BY <1>a, <2>2 DEF Just, Justified
    <3> DEFINE r == [me EXCEPT !.pc = "finev2"]
    <3>2. r.pc = "finev2" /\ r.ret = me.ret
      BY <1>e
    <3> HIDE DEF me, r
    <3>3. Just(r)
      BY <1>c, <3>1, <3>2 DEF Just, Justified
    <3> QED BY <2>2, <3>3, <1>d DEF r
  <2> QED BY <1>8, <2>1, <2>2 DEF ContinueEvent, At
<1>9. ASSUME FinalizeGuard(x) \/ FinalizeEvent(x) PROVE Going(x)
  <2>1. me.ret = "rs_task" /\ HumanCause(row) /\ (me.pc = "fin" => me.want.kind = "finalize")
    BY <1>9, <1>a DEF FinalizeGuard, FinalizeEvent, At, Just, Justified
  <2>2. \/ Step(x, "rs_task")
        \/ me.pc = "fin" /\ Step(x, "finq")
    BY <1>9, <2>1 DEF FinalizeGuard, FinalizeEvent, At
  <2> DEFINE r(pc) == [me EXCEPT !.pc = pc]
  <2>3. \A pc \in {"rs_task", "finq"} : r(pc).pc = pc /\ r(pc).ret = me.ret /\ r(pc).want = me.want
    BY <1>e
  <2> HIDE DEF me, r
  <2>4. Just(r("rs_task")) /\ (me.pc = "fin" => Just(r("finq")))
    BY <2>1, <2>3 DEF Just, Justified
  <2> QED BY <2>2, <2>4, <1>d DEF r
<1>10. ASSUME ResumeTask(x) \/ Block(x) PROVE Going(x)
  <2>1. Step(x, "rs_done") \/ Step(x, "blocked")
    BY <1>10 DEF ResumeTask, Block
  <2> DEFINE r(pc) == [me EXCEPT !.pc = pc]
  <2>2. \A pc \in {"rs_done", "blocked"} : r(pc).pc = pc /\ r(pc).ret = me.ret
    BY <1>e
  <2> HIDE DEF me, r
  <2>3. \A pc \in {"rs_done", "blocked"} : Just(r(pc))
    BY <1>c, <2>2 DEF Just, Justified
  <2> QED BY <2>1, <2>3, <1>d DEF r
<1>11. ASSUME ResumeDone(x) \/ MarkDone(x) \/ MarkBlocked(x) PROVE Going(x)
  BY <1>11, GoingIdle DEF ResumeDone, MarkDone, MarkBlocked
<1>12. ~AnswerGate(x) /\ ~Correct(x) /\ ~ResumeRow(x)
  BY <1>a DEF AnswerGate, Correct, EnqueueContinuation, ResumeRow, At, Just, Justified
<1> QED BY <1>1, <1>2, <1>3, <1>4, <1>5, <1>6, <1>7, <1>8, <1>9, <1>10, <1>11, <1>12,
           JustifiedEvents, JustifiedDeps, JustifiedReread, JustifiedGate DEF Engine

\* P's continuation is requested by who may, or is there already, or differs.
LEMMA ContinueKept ==
    ASSUME Holding, NEW x \in Actors, Continue(x) \/ FinalizeEnqueue(x)
    PROVE  Goes(x) /\ StoreKept
<1> DEFINE me == p[x]
<1>a. Just(me) /\ (me.ret = "rs_task" => HumanCause(row))
  BY ActorFacts DEF Just, Justified
<1>b. \A l \in Legs : HumanCause(row) => plan.policy[l] # "block_parent"
  BY PlainFacts DEF Holding, DagInv
<1>c. /\ me.pc \in {"cont", "finq"} /\ NoBlockers(row)
      /\ me.want.kind # "none"
      /\ me.pc = "cont" => me.job \in Children
      /\ me.pc = "finq" => me.ret = "rs_task"
  BY <1>a, <1>b DEF Continue, FinalizeEnqueue, EnqueueContinuation, At, Just, Justified, NoBlockers
<1>d. RowMoves /\ UNCHANGED <<row, evCont, reqs, task, tripped>>
  BY DEF Continue, FinalizeEnqueue, EnqueueContinuation, RowMoves, still
<1>1. CASE /\ cont' = me.want
           /\ \/ me.pc = "cont" /\ Goto(x, Quit(me, "contev"))
              \/ me.pc = "finq" /\ Goto(x, Quit(me, "finev"))
  <2>1. Justified(row', evCont', cont'.kind, Quit(me, "contev")) \/ me.pc # "cont"
    BY <1>a, <1>c, <1>d, <1>1, QuitFields DEF Justified
  <2>2. Justified(row', evCont', cont'.kind, Quit(me, "finev")) \/ me.pc # "finq"
    BY <1>a, <1>c, <1>d, <1>1, QuitFields DEF Justified
  <2>3. Goes(x)
    <3> HIDE DEF me
    <3> QED BY <1>1, <2>1, <2>2 DEF Goes
  <2>4. StoreKept
    <3> HIDE DEF me
    <3> QED BY <1>1, <1>c, <1>d DEF StoreKept, Holding, JoinInv
  <2> QED BY <2>3, <2>4
<1>2. CASE Goto(x, Idle) /\ UNCHANGED cont
  <2>1. Goes(x)
    BY <1>2, JustifiedIdle DEF Goes
  <2>2. StoreKept
    BY <1>2, <1>d DEF StoreKept, Holding, JoinInv
  <2> QED BY <2>1, <2>2
<1> QED BY <1>1, <1>2 DEF Continue, FinalizeEnqueue, EnqueueContinuation, Fail, At

\* What the engine writes has its reasons.
LEMMA EngineKept ==
    ASSUME Holding, NEW x \in Actors, Engine(x) PROVE StoreKept
<1> DEFINE me == p[x]
<1>a. Just(me)
  BY ActorFacts
<1>b. /\ RowMoves /\ tripped' = tripped
      /\ \A c \in Children : row'[c] = "asking" => plan.asks # {}
  BY EngineRows
<1>1. CASE Continue(x) \/ FinalizeEnqueue(x)
  BY <1>1, ContinueKept
<1>2. CASE ContinueEvent(x)
  <2>1. evCont' /\ cont.kind # "none" /\ UNCHANGED <<row, cont, reqs, task>>
    BY <1>2, <1>a DEF ContinueEvent, Just, Justified
  <2> QED BY <1>b, <2>1 DEF StoreKept, Holding, JoinInv
<1>3. CASE Ask(x) \/ Pause(x) \/ ResumeTask(x) \/ Block(x)
  <2>1. UNCHANGED <<evCont, cont, reqs>>
    BY <1>3 DEF Ask, Pause, ResumeTask, Block
  <2>2. task' \in {task, "awaiting", "planned"} \/ BlockCause(row)
    <3>1. Block(x) => BlockCause(row)
      BY <1>a DEF Block, At, Just, Justified
    <3>2. Ask(x) \/ Pause(x) \/ ResumeTask(x) => task' \in {task, "awaiting", "planned"}
      BY DEF Ask, Pause, ResumeTask, SetTask
    <3> QED BY <1>3, <3>1, <3>2
  <2> QED BY <1>b, <2>1, <2>2, QuietKept
<1>4. CASE AskRequest(x) \/ PauseRequest(x)
  <2>1. UNCHANGED <<evCont, cont, task>>
    BY <1>4 DEF AskRequest, PauseRequest, RequestRound
  <2>2. HumanCause(row)
    BY <1>4, <1>a DEF AskRequest, PauseRequest, RequestRound, At, Just, Justified, HumanCause
  <2> QED BY <1>b, <2>1, <2>2, QuietKept
<1>5. ~AnswerGate(x) /\ ~Correct(x) /\ ~ResumeRow(x)
  BY <1>a DEF AnswerGate, Correct, EnqueueContinuation, ResumeRow, At, Just, Justified
<1>6. CASE \/ AdvanceJob(x) \/ AfterAdvance(x) \/ Dispatch(x) \/ Spawn(x)
           \/ Events(x) \/ Retry(x) \/ Deps(x) \/ Reread(x) \/ Gate(x)
           \/ FinalizeGuard(x) \/ FinalizeEvent(x) \/ ResumeDone(x)
           \/ MarkDone(x) \/ MarkBlocked(x)
  <2>1. UNCHANGED <<evCont, cont, reqs, task>>
    BY <1>6 DEF AdvanceJob, AfterAdvance, Dispatch, Spawn, Events, Retry, Deps, Reread, Gate,
                FinalizeGuard, FinalizeEvent, ResumeDone, MarkDone, MarkBlocked, store
  <2> QED BY <1>b, <2>1, QuietKept
<1> QED BY <1>1, <1>2, <1>3, <1>4, <1>5, <1>6 DEF Engine

LEMMA EngineGoes == ASSUME Holding, NEW x \in Actors, Engine(x) PROVE Goes(x)
<1>1. CASE Continue(x) \/ FinalizeEnqueue(x)
  BY <1>1, ContinueKept
<1>2. CASE Retry(x)
  BY <1>2, JustifiedRetry DEF Goes
<1>3. CASE ~Retry(x) /\ ~Continue(x) /\ ~FinalizeEnqueue(x)
  <2>1. Going(x) /\ RowMoves /\ StoreKept
    BY <1>3, EngineGoing, EngineRows, EngineKept
  <2> QED BY <2>1, GoingGoes DEF StoreKept
<1> QED BY <1>1, <1>2, <1>3

\* Who does not move keeps what justified it.
LEMMA AllJustified ==
    ASSUME Holding, RowMoves, StoreKept, NEW x \in Actors, Goes(x)
    PROVE  \A y \in Actors : Justified(row', evCont', cont'.kind, p'[y])
<1>1. \A y \in Actors : Justified(row', evCont', cont'.kind, p[y])
  BY ActorFacts, JustifiedStays DEF Just, StoreKept, Holding, DagInv
<1>2. p \in [Actors -> Activity]
  BY DEF Holding, DagInv, TypeOK
<1> QED BY <1>1, <1>2 DEF Goes, Goto

LEMMA JustifiedAdvancing ==
    ASSUME NEW c \in Jobs, NEW late, NEW rw, NEW ec, NEW ck
    PROVE  /\ Justified(rw, ec, ck, Advancing(c, late))
           /\ Justified(rw, ec, ck, [Idle EXCEPT !.pc = "attach", !.job = c])
<1>1. /\ Advancing(c, late).pc = "adv" /\ Advancing(c, late).tried = {}
      /\ Advancing(c, late).ret = "after"
  BY DEF Advancing, Idle
<1> DEFINE r == [Idle EXCEPT !.pc = "attach", !.job = c]
<1>2. r.pc = "attach" /\ r.ret = "after"
  BY DEF Idle
<1> HIDE DEF r
<1>3. Justified(rw, ec, ck, Advancing(c, late))
  BY <1>1 DEF Justified
<1>4. Justified(rw, ec, ck, r)
  BY <1>2 DEF Justified
<1> QED BY <1>3, <1>4 DEF r

\* An open round has its cause, and lets the tree be finalized.
LEMMA Finalized ==
    ASSUME Holding, Open, NEW why
    PROVE  \A rw : rw = row => \A ec, ck :
              Justified(rw, ec, ck, [Resolving EXCEPT !.pc = "fin", !.want = Finalize(why)])
<1>1. HumanCause(row)
  <2>1. reqs # <<>>
    BY DEF Open, Holding, DagInv, TypeOK
  <2> QED BY <2>1 DEF Holding, JoinInv
<1> DEFINE w == Finalize(why)
           r == [Resolving EXCEPT !.pc = "fin", !.want = w]
<1>2. w.kind = "finalize"
  BY RequestKind DEF Finalize
<1> HIDE DEF w
<1>3. r.pc = "fin" /\ r.ret = "rs_task" /\ r.want = w
  BY DEF Resolving, Idle
<1> HIDE DEF r
<1>4. \A ec, ck : Justified(row, ec, ck, r)
  BY <1>1, <1>2, <1>3 DEF Justified
<1> QED BY <1>4 DEF r, w

LEMMA JoinInvKept ==
    ASSUME Holding, [Next]_vars
    PROVE  StoreKept /\ \A y \in Actors : Justified(row', evCont', cont'.kind, p'[y])
<1>a. RowMoves /\ plan' = plan
  BY RowsStep DEF Holding, DagInv
<1>b. /\ Plain(plan) /\ Children \subseteq Jobs /\ Jobs \subseteq Actors
      /\ {Tick, Poller, Chat} \subseteq Actors /\ Verbs \subseteq {"abort"}
  BY PlainFacts DEF Holding, DagInv, Jobs, Actors, PlainTree
<1>c. \A c \in Children : row[c] = "asking" => plan.asks # {}
  BY DEF Holding, JoinInv
<1>1. ASSUME NEW x \in Actors, Engine(x)
      PROVE  StoreKept /\ \A y \in Actors : Justified(row', evCont', cont'.kind, p'[y])
  BY <1>1, <1>a, EngineKept, EngineGoes, AllJustified
<1>2. ASSUME NEW c \in Children, Run(c) \/ Attach(c)
      PROVE  StoreKept /\ \A y \in Actors : Justified(row', evCont', cont'.kind, p'[y])
  <2>1. UNCHANGED <<evCont, cont, tripped, reqs, task>>
    BY <1>2 DEF Run, Deliver, TimeOut, DeliveryFail, Attach, still
  <2>2. \A d \in Children : row'[d] = "asking" => plan.asks # {}
    <3>1. \/ \E st \in Decisions(c[1]) : row' = [row EXCEPT ![c] = st]
          \/ \E st \in {"failed", "dead"} : row' = [row EXCEPT ![c] = st]
      BY <1>2 DEF Run, Deliver, TimeOut, DeliveryFail, Attach
    <3>2. "asking" \in Decisions(c[1]) => plan.asks # {}
      BY DEF Decisions
    <3>3. row \in [Children -> States]
      BY DEF Holding, DagInv, TypeOK
    <3> QED BY <3>1, <3>2, <3>3, <1>c
  <2>3. Goes(c)
    <3> DEFINE r == [Idle EXCEPT !.pc = "attach", !.job = c]
    <3>1. \E late : Goto(c, Advancing(c, late)) \/ Goto(c, r)
      BY <1>2 DEF Run, Deliver, TimeOut, DeliveryFail, Attach
    <3> HIDE DEF r
    <3>2. c \in Jobs
      BY <1>b
    <3>3. \A late : Justified(row', evCont', cont'.kind, Advancing(c, late))
      BY <3>2, JustifiedAdvancing
    <3>4. Justified(row', evCont', cont'.kind, r)
      BY <3>2, JustifiedAdvancing DEF r
    <3> QED BY <3>1, <3>3, <3>4 DEF Goes
  <2>4. StoreKept
    BY <2>1, <2>2, <1>a, QuietKept
  <2> QED BY <2>3, <2>4, <1>a, <1>b, AllJustified
<1>3. ASSUME UNCHANGED <<still, store, mark>>, NEW x \in Actors, NEW r, Goto(x, r),
             Justified(row', evCont', cont'.kind, r)
      PROVE  StoreKept /\ \A y \in Actors : Justified(row', evCont', cont'.kind, p'[y])
  <2>1. UNCHANGED <<evCont, cont, tripped, reqs, task, row>>
    BY <1>3 DEF still, store
  <2>2. StoreKept
    BY <2>1, <1>a, <1>c, QuietKept
  <2>3. Goes(x)
    BY <1>3 DEF Goes
  <2> QED BY <2>2, <2>3, <1>a, AllJustified
<1>4. ASSUME NEW j \in Jobs, TickRetry(j)
      PROVE  StoreKept /\ \A y \in Actors : Justified(row', evCont', cont'.kind, p'[y])
  <2>1. UNCHANGED <<still, store, mark>> /\ Goto(Tick, Advancing(j, FALSE)) /\ Tick \in Actors
    BY <1>4, <1>b DEF TickRetry
  <2>2. Justified(row', evCont', cont'.kind, Advancing(j, FALSE))
    BY JustifiedAdvancing
  <2> QED BY <2>1, <2>2, <1>3
<1>5. ASSUME NEW x \in {Poller, Chat}, NEW why, Open, UNCHANGED <<still, store, mark>>,
             Goto(x, [Resolving EXCEPT !.pc = "fin", !.want = Finalize(why)])
      PROVE  StoreKept /\ \A y \in Actors : Justified(row', evCont', cont'.kind, p'[y])
  <2> DEFINE r == [Resolving EXCEPT !.pc = "fin", !.want = Finalize(why)]
  <2>1. x \in Actors /\ row' = row
    BY <1>5, <1>b DEF store
  <2>2. Justified(row', evCont', cont'.kind, r)
    BY <1>5, <2>1, Finalized
  <2> HIDE DEF r
  <2>3. Goto(x, r)
    BY <1>5 DEF r
  <2> QED BY <1>5, <2>1, <2>2, <2>3, <1>3
<1>6. ASSUME NEW x \in {Poller, Chat}, NEW verb \in Verbs, NEW t \in Texts, Human(x, verb, t)
      PROVE  StoreKept /\ \A y \in Actors : Justified(row', evCont', cont'.kind, p'[y])
  <2>1. verb = "abort"
    BY <1>b
  <2> QED BY <1>5, <1>6, <2>1 DEF Human
<1>7. ASSUME Expire
      PROVE  StoreKept /\ \A y \in Actors : Justified(row', evCont', cont'.kind, p'[y])
  BY <1>5, <1>7 DEF Expire
<1>8. ~Trip
  BY <1>b DEF Trip, Plain
<1>9. ASSUME Crash \/ UNCHANGED vars
      PROVE  StoreKept /\ \A y \in Actors : Justified(row', evCont', cont'.kind, p'[y])
  <2>1. UNCHANGED <<evCont, cont, tripped, reqs, task, row>>
    BY <1>9 DEF Crash, store, vars
  <2>2. StoreKept
    BY <2>1, <1>a, <1>c, QuietKept
  <2>3. \A y \in Actors : p'[y] \in {p[y], Idle}
    BY <1>9 DEF Crash, vars
  <2>4. \A y \in Actors : Justified(row', evCont', cont'.kind, p[y])
    BY <2>1, ActorFacts DEF Just
  <2> QED BY <2>2, <2>3, <2>4, JustifiedIdle
<1> QED BY <1>1, <1>2, <1>4, <1>6, <1>7, <1>8, <1>9 DEF Next

LEMMA JoinInvStep == Holding /\ [Next]_vars => JoinInv'
<1> SUFFICES ASSUME Holding, [Next]_vars PROVE JoinInv'
  OBVIOUS
<1>1. plan' = plan
  BY RowsStep DEF Holding, DagInv
<1>2. StoreKept /\ \A y \in Actors : Justified(row', evCont', cont'.kind, p'[y])
  BY JoinInvKept
<1>3. \A y \in Actors : Justified(row, evCont, cont.kind, p[y])'
  BY <1>1, <1>2, JoinInvNext
<1>4. /\ HumanCause(row') => HumanCause(row)'
      /\ BlockCause(row') => BlockCause(row)'
      /\ NoBlockers(row') => NoBlockers(row)'
  BY <1>1 DEF HumanCause, BlockCause, NoBlockers, GoneAt, GoodAt
<1> QED BY <1>1, <1>2, <1>3, <1>4 DEF JoinInv, StoreKept

LEMMA JoinInvInit == Init => JoinInv
<1> SUFFICES ASSUME Init PROVE JoinInv
  OBVIOUS
<1>1. \A x \in Actors : Justified(row, evCont, cont.kind, p[x])
  <2>1. \A x \in Actors : p[x] \in {Idle, Advancing(P, FALSE)}
    <3> HIDE DEF Idle, Advancing
    <3> QED BY DEF Init
  <2>2. Justified(row, evCont, cont.kind, Advancing(P, FALSE))
    BY JustifiedAdvancing DEF Jobs
  <2>3. Justified(row, evCont, cont.kind, Idle)
    BY JustifiedIdle
  <2> HIDE DEF Idle, Advancing
  <2> QED BY <2>1, <2>2, <2>3
<1> QED BY <1>1 DEF Init, JoinInv, NoCont

LEMMA HoldingHolds == ASSUME PlainTree PROVE Spec => []Holding
<1>1. NoResume
  BY DEF PlainTree, NoResume
<1>2. DagInv => Orderly
  BY <1>1, DagOrderly
<1>3. Spec => []DagInv
  BY <1>1, DagInvHolds
<1>4. DagInv /\ Orderly /\ JoinInv /\ [Next]_vars => JoinInv'
  BY JoinInvStep DEF Holding
<1>5. DagInv /\ Orderly /\ JoinInv => Holding
  BY DEF Holding
<1> QED BY <1>2, <1>3, <1>4, <1>5, JoinInvInit, PTL DEF Spec

-----------------------------------------------------------------------------
(* Why P is joined, in FanIn's words *)

LEMMA LegsSeenAre ==
    ASSUME Holding, NEW l \in Legs
    PROVE  /\ GoneAt(row, l) => Join!Gone(l) /\ LegsSeen[l] = "bad"
           /\ GoodAt(row, l) => LegsSeen[l] = "good"
           /\ (\A k \in Attempts : row[<<l, k>>] = "absent") => LegsSeen[l] = "idle"
<1>a. /\ NoResume /\ InOrder(row) /\ plan.retry[l] \in Nat
      /\ \A k \in Attempts : k \in Nat /\ RetryCount(k) = k
  <2>1. NoResume /\ Attempts = 0..MaxRetry /\ MaxRetry \in Nat
    BY PlainFacts DEF Holding, DagInv
  <2> QED BY <2>1 DEF Holding, Orderly, RetryCount, Resume
<1>b. LegsSeen[l] = Standing(row[<<l, Latest(row, l)>>]) /\ TriesSeen[l] = RetryCount(Latest(row, l))
  <2> HIDE DEF Latest
  <2> QED BY MappedLegs DEF Stand, Tried
<1>1. ASSUME GoneAt(row, l) PROVE Join!Gone(l) /\ LegsSeen[l] = "bad"
  <2>1. PICK k \in Attempts : Failed(row[<<l, k>>]) /\ k >= plan.retry[l]
    BY <1>1 DEF GoneAt
  <2>2. row[<<l, k>>] # "absent"
    BY <2>1 DEF Failed
  <2>3. Latest(row, l) = k
    BY <1>a, <2>1, <2>2, LatestLast
  <2>4. LegsSeen[l] = "bad" /\ TriesSeen[l] = k
    BY <1>a, <1>b, <2>1, <2>2, <2>3 DEF Standing, Failed, Succeeded
  <2> HIDE DEF LegsSeen, TriesSeen
  <2> QED BY <2>1, <2>4 DEF Join!Gone
<1>2. ASSUME GoodAt(row, l) PROVE LegsSeen[l] = "good"
  <2>1. PICK k \in Attempts : Succeeded(row[<<l, k>>])
    BY <1>2 DEF GoodAt
  <2>2. row[<<l, k>>] # "absent" /\ ~Failed(row[<<l, k>>])
    BY <2>1 DEF Failed, Succeeded
  <2>3. Latest(row, l) = k
    BY <1>a, <2>2, LatestLast
  <2> QED BY <1>b, <2>1, <2>3 DEF Standing, Succeeded
<1>3. ASSUME \A k \in Attempts : row[<<l, k>>] = "absent" PROVE LegsSeen[l] = "idle"
  <2>1. Latest(row, l) \in Attempts
    BY <1>a, LatestFacts
  <2> QED BY <1>b, <1>3, <2>1 DEF Standing
<1> QED BY <1>1, <1>2, <1>3

\* A leg that cannot get a child has a dependency that failed or cannot either.
LEMMA NotRunnable ==
    ASSUME TypeOK, NEW v, NEW l \in Legs, l \notin Runnable(v)
    PROVE  \E d \in plan.deps[l] : IF v[d].st = "absent" THEN d \notin Runnable(v) ELSE Failed(v[d].st)
<1> SUFFICES ASSUME \A d \in plan.deps[l] :
                       IF v[d].st = "absent" THEN d \in Runnable(v) ELSE ~Failed(v[d].st),
                    NEW S \in SUBSET Legs,
                    \A m \in Legs :
                       (\A d \in plan.deps[m] : IF v[d].st = "absent" THEN d \in S ELSE ~Failed(v[d].st))
                         => m \in S
             PROVE  l \in S
  BY DEF Runnable
<1>1. \A d \in plan.deps[l] : IF v[d].st = "absent" THEN d \in S ELSE ~Failed(v[d].st)
  BY DEF Runnable
<1> QED BY <1>1

\* ... and FanIn counts it among the lost, without a row.
LEMMA UnrunLost ==
    ASSUME Holding, NEW v \in Views, Honest(row, v), NoneRetriable(v), AllResolved(v)
    PROVE  \A l \in Legs : v[l].st = "absent" =>
              l \in Join!Lost /\ \A k \in Attempts : row[<<l, k>>] = "absent"
<1> DEFINE Fine(l) == l \in Join!Lost /\ \A k \in Attempts : row[<<l, k>>] = "absent"
           T == {l \in Legs : v[l].st = "absent" /\ ~Fine(l)}
<1>a. TypeOK /\ DepsFirst
  BY DEF Holding, DagInv
<1>b. \A l \in Legs : \A d \in plan.deps[l] : d \in Legs /\ d < l
  BY <1>a, PlanType, DelegationAssumption DEF TypeOK
<1>1. SUFFICES ASSUME T # {} PROVE FALSE
  OBVIOUS
<1>2. T \subseteq Nat
  BY DelegationAssumption DEF Legs
<1>3. PICK l \in T : \A m \in T : ~(<<m, l>> \in OpToRel(<, Nat))
  <2> HIDE DEF T
  <2> QED BY <1>1, <1>2, NatLessThanWellFounded, WFMin
<1>4. \A d \in T : ~(d < l)
  BY <1>2, <1>3, LessRelation
<1>5. l \in Legs /\ v[l].st = "absent" /\ ~Fine(l)
  BY <1>3
<1>6. PICK d \in plan.deps[l] :
         IF v[d].st = "absent" THEN d \notin Runnable(v) ELSE Failed(v[d].st)
  BY <1>5, <1>a, NotRunnable DEF AllResolved, Resolved
<1>7. d \in Legs /\ d \notin T
  BY <1>4, <1>5, <1>b
<1> DEFINE Never == \A k \in Attempts : ~Succeeded(row[<<d, k>>])
<1>8. Never /\ (Join!Gone(d) \/ d \in Join!Lost)
  <2>1. CASE v[d].st = "absent"
    <3>1. Fine(d)
      BY <1>7, <2>1
    <3> QED BY <3>1 DEF Succeeded
  <2>2. CASE v[d].st # "absent"
    <3>1. GoneAt(row, d)
      BY <1>6, <1>7, <2>2, ListedLegs DEF NoneRetriable
    <3>2. Join!Gone(d) /\ LegsSeen[d] = "bad" /\ ~GoodAt(row, d)
      <4>1. Join!Gone(d) /\ LegsSeen[d] = "bad"
        BY <1>7, <3>1, LegsSeenAre
      <4>2. GoodAt(row, d) => LegsSeen[d] = "good"
        BY <1>7, LegsSeenAre
      <4> QED BY <4>1, <4>2
    <3> QED BY <3>2 DEF GoodAt
  <2> QED BY <2>1, <2>2
<1>9. \A k \in Attempts : row[<<l, k>>] = "absent"
  BY <1>5, <1>8, <1>a DEF DepsFirst
<1>10. l \in Join!Lost
  <2> SUFFICES ASSUME NEW S \in SUBSET Legs,
                      \A m \in Legs :
                         (\E e \in plan.deps[m] : Join!Gone(e) \/ e \in S) => m \in S
               PROVE  l \in S
    BY <1>5 DEF Join!Lost
  <2>1. d \in Join!Lost => d \in S
    BY DEF Join!Lost
  <2> QED BY <1>5, <1>6, <1>8, <2>1
<1> QED BY <1>5, <1>9, <1>10

\* What the engine takes for an end of the legs, old as its listing may be, is one.
LEMMA JoinDue ==
    ASSUME Holding, NEW v \in Views, Honest(row, v), Joinable(v)
    PROVE  (\A l \in Legs : Join!Ended(l)) \/ Join!GoneWith("escalate")
<1>1. CASE Escalates(v)
  <2>1. PICK l \in Legs : Failed(v[l].st) /\ plan.policy[l] = "escalate"
    BY <1>1 DEF Escalates
  <2>2. GoneAt(row, l)
    BY <2>1, ListedLegs DEF Joinable, NoneRetriable
  <2> QED BY <2>1, <2>2, LegsSeenAre DEF Join!GoneWith
<1>2. CASE AllResolved(v)
  <2> SUFFICES ASSUME NEW l \in Legs PROVE Join!Ended(l)
    OBVIOUS
  <2>1. CASE v[l].st = "absent"
    BY <1>2, <2>1, UnrunLost, LegsSeenAre DEF Joinable, Join!Ended
  <2>2. CASE v[l].st # "absent"
    <3>1. Settled(v[l].st)
      BY <1>2, <2>2 DEF AllResolved, Resolved
    <3>2. GoneAt(row, l) \/ GoodAt(row, l)
      BY <3>1, ListedLegs DEF Settled, Joinable, NoneRetriable
    <3> QED BY <3>2, LegsSeenAre DEF Join!Ended
  <2> QED BY <2>1, <2>2
<1> QED BY <1>1, <1>2 DEF Joinable

LEMMA CausesSeen ==
    ASSUME Holding
    PROVE  /\ HumanCause(row) => Join!GoneWith("escalate_human") \/ plan.asks # {}
           /\ BlockCause(row) => Join!GoneWith("block_parent")
BY LegsSeenAre DEF HumanCause, BlockCause, Join!GoneWith

\* What blocks the task and what joins P exclude one another.
LEMMA CausesApart ==
    ASSUME Holding, BlockCause(row) PROVE ~NoBlockers(row) /\ ~HumanCause(row)
<1>1. PICK l \in Legs : plan.policy[l] = "block_parent" /\ GoneAt(row, l)
  BY DEF BlockCause
<1>2. ~GoodAt(row, l)
  <2>1. LegsSeen[l] = "bad" /\ (GoodAt(row, l) => LegsSeen[l] = "good")
    BY <1>1, LegsSeenAre
  <2> QED BY <2>1
<1>3. ~HumanCause(row)
  BY <1>1, PlainFacts DEF Holding, DagInv
<1> QED BY <1>1, <1>2, <1>3 DEF NoBlockers

-----------------------------------------------------------------------------
(* Every step is one of FanIn's, or stutters there *)

LEMMA SeenStill == ASSUME UNCHANGED row PROVE LegsSeen' = LegsSeen /\ TriesSeen' = TriesSeen
BY MappedLegs

LEMMA ContinueJoins ==
    ASSUME Holding, UNCHANGED <<plan, row>>, NEW x \in Actors, Continue(x) \/ FinalizeEnqueue(x)
    PROVE  Join!Synthesize \/ Join!Conclude \/ UNCHANGED Join!vars
<1> DEFINE me == p[x]
<1>a. Just(me) /\ me.want.kids \in Views /\ Honest(row, me.want.kids)
  BY ActorFacts DEF Holding, DagInv, Know, Knows, Activity, Conts
<1>b. LegsSeen' = LegsSeen /\ TriesSeen' = TriesSeen /\ UNCHANGED <<plan, task>>
  BY SeenStill DEF Continue, FinalizeEnqueue, EnqueueContinuation
<1>1. UNCHANGED cont \/ (cont.kind = "none" /\ cont' = me.want)
  BY DEF Continue, FinalizeEnqueue, EnqueueContinuation, NoCont
<1>2. CASE UNCHANGED cont
  <2>1. Outcome' = Outcome
    BY <1>2, <1>b DEF Outcome
  <2> HIDE DEF Outcome, LegsSeen, TriesSeen
  <2> QED BY <1>b, <2>1 DEF Join!vars
<1>3. CASE cont.kind = "none" /\ cont' = me.want /\ me.pc = "cont"
  <2>1. /\ Joinable(me.want.kids) /\ NoBlockers(row)
        /\ me.want.kind \in {"normal", "replan"}
    BY <1>a, <1>3 DEF Just, Justified
  <2>2. task # "blocked"
    BY <2>1, CausesApart DEF Holding, JoinInv
  <2>3. Outcome = "open" /\ Outcome' = "synthesis"
    BY <1>3, <1>b, <2>1, <2>2 DEF Outcome
  <2>4. (\A l \in Legs : Join!Ended(l)) \/ Join!GoneWith("escalate")
    BY <1>a, <2>1, JoinDue
  <2> HIDE DEF Outcome, LegsSeen, TriesSeen
  <2> QED BY <1>b, <2>3, <2>4 DEF Join!Synthesize
<1>4. CASE cont.kind = "none" /\ cont' = me.want /\ me.pc = "finq"
  <2>1. HumanCause(row) /\ me.want.kind = "finalize"
    BY <1>a, <1>4 DEF Just, Justified
  <2>2. task # "blocked"
    BY <2>1, CausesApart DEF Holding, JoinInv
  <2>3. Outcome = "open" /\ Outcome' = "final"
    BY <1>4, <1>b, <2>1, <2>2 DEF Outcome
  <2>4. Join!GoneWith("escalate_human") \/ plan.asks # {}
    BY <2>1, CausesSeen
  <2> HIDE DEF Outcome, LegsSeen, TriesSeen
  <2> QED BY <1>b, <2>3, <2>4 DEF Join!Conclude
<1>5. me.pc \in {"cont", "finq"}
  BY DEF Continue, FinalizeEnqueue, EnqueueContinuation, At
<1> QED BY <1>1, <1>2, <1>3, <1>4, <1>5

LEMMA BlockJoins ==
    ASSUME Holding, UNCHANGED <<plan, row>>, NEW x \in Actors, Block(x)
    PROVE  Join!Block \/ UNCHANGED Join!vars
<1>1. BlockCause(row)
  BY ActorFacts DEF Block, At, Just, Justified
<1>2. cont.kind = "none"
  BY <1>1, CausesApart DEF Holding, JoinInv
<1>3. LegsSeen' = LegsSeen /\ TriesSeen' = TriesSeen /\ UNCHANGED <<plan, cont>>
  BY SeenStill DEF Block
<1>4. CASE task' = task
  <2>1. Outcome' = Outcome
    BY <1>3, <1>4 DEF Outcome
  <2> HIDE DEF Outcome, LegsSeen, TriesSeen
  <2> QED BY <1>3, <2>1 DEF Join!vars
<1>5. CASE task' # task
  <2>1. task' = "blocked" /\ task # "blocked"
    BY <1>5 DEF Block, SetTask
  <2>2. Outcome = "open" /\ Outcome' = "blocked"
    BY <1>2, <1>3, <2>1 DEF Outcome
  <2>3. Join!GoneWith("block_parent")
    BY <1>1, CausesSeen
  <2> HIDE DEF Outcome, LegsSeen, TriesSeen
  <2> QED BY <1>3, <2>2, <2>3 DEF Join!Block
<1> QED BY <1>4, <1>5

\* Who waits for a human, or has heard one, does not undo a block.
LEMMA TaskJoins ==
    ASSUME Holding, UNCHANGED <<plan, row>>, NEW x \in Actors, Ask(x) \/ Pause(x) \/ ResumeTask(x)
    PROVE  UNCHANGED Join!vars
<1>1. HumanCause(row)
  BY ActorFacts DEF Ask, Pause, ResumeTask, At, Just, Justified, HumanCause
<1>2. task # "blocked"
  BY <1>1, CausesApart DEF Holding, JoinInv
<1>3. task' # "blocked" /\ UNCHANGED cont
  BY <1>2 DEF Ask, Pause, ResumeTask, SetTask
<1>4. Outcome' = Outcome
  BY <1>2, <1>3 DEF Outcome
<1>5. LegsSeen' = LegsSeen /\ TriesSeen' = TriesSeen
  BY SeenStill
<1> HIDE DEF Outcome, LegsSeen, TriesSeen
<1> QED BY <1>4, <1>5 DEF Join!vars

LEMMA StillJoins ==
    ASSUME UNCHANGED <<plan, row, cont, task>> PROVE UNCHANGED Join!vars
<1>1. Outcome' = Outcome
  BY DEF Outcome
<1>2. LegsSeen' = LegsSeen /\ TriesSeen' = TriesSeen
  BY SeenStill
<1> HIDE DEF Outcome, LegsSeen, TriesSeen
<1> QED BY <1>1, <1>2 DEF Join!vars

LEMMA JoinStep ==
    ASSUME Holding, Orderly', [Next]_vars PROVE [Join!Next]_(Join!vars)
<1>a. plan' = plan
  BY RowsStep DEF Holding, DagInv
<1>1. CASE \E l \in Legs : Join!Start(l) \/ Join!Finish(l) \/ Join!Again(l)
  BY <1>1 DEF Join!Next
<1>2. CASE UNCHANGED row
  <2>1. ASSUME NEW x \in Actors, Engine(x) PROVE [Join!Next]_(Join!vars)
    <3>1. CASE Continue(x) \/ FinalizeEnqueue(x)
      BY <1>2, <1>a, <2>1, <3>1, ContinueJoins DEF Join!Next
    <3>2. CASE Block(x)
      BY <1>2, <1>a, <2>1, <3>2, BlockJoins DEF Join!Next
    <3>3. CASE Ask(x) \/ Pause(x) \/ ResumeTask(x)
      BY <1>2, <1>a, <2>1, <3>3, TaskJoins
    <3>4. ~Correct(x)
      BY <2>1, ActorFacts DEF Correct, EnqueueContinuation, At, Just, Justified
    <3>5. CASE \/ AdvanceJob(x) \/ AfterAdvance(x) \/ Dispatch(x) \/ Spawn(x) \/ AnswerGate(x)
               \/ AskRequest(x) \/ PauseRequest(x) \/ ResumeRow(x) \/ ContinueEvent(x)
               \/ Events(x) \/ Retry(x) \/ Deps(x) \/ Reread(x) \/ Gate(x)
               \/ FinalizeGuard(x) \/ FinalizeEvent(x) \/ ResumeDone(x)
               \/ MarkDone(x) \/ MarkBlocked(x)
      <4>1. UNCHANGED <<cont, task>>
        BY <3>5 DEF AdvanceJob, AfterAdvance, Dispatch, Spawn, AnswerGate, AskRequest, PauseRequest,
                    RequestRound, ResumeRow, ContinueEvent, Events, Retry, Deps, Reread, Gate,
                    FinalizeGuard, FinalizeEvent, ResumeDone, MarkDone, MarkBlocked, store
      <4> QED BY <1>2, <1>a, <4>1, StillJoins
    <3> QED BY <2>1, <3>1, <3>2, <3>3, <3>4, <3>5 DEF Engine
  <2>2. ASSUME \/ \E c \in Children : Run(c) \/ Attach(c)
               \/ \E j \in Jobs : TickRetry(j)
               \/ \E x \in {Poller, Chat}, verb \in Verbs, t \in Texts : Human(x, verb, t)
               \/ Expire \/ Trip \/ Crash \/ UNCHANGED vars
        PROVE  [Join!Next]_(Join!vars)
    <3>1. UNCHANGED <<cont, task>>
      BY <2>2 DEF Run, Deliver, TimeOut, DeliveryFail, Attach, TickRetry, Human, Expire, Trip,
                  Crash, vars, store
    <3> QED BY <1>2, <1>a, <3>1, StillJoins
  <2> QED BY <2>1, <2>2 DEF Next
<1>3. NoResume
  BY DEF Holding, PlainTree, NoResume
<1> QED BY <1>1, <1>2, <1>3, DagStep DEF Holding

LEMMA JoinStart == Init => Join!Init
<1> SUFFICES ASSUME Init PROVE Join!Init
  OBVIOUS
<1>1. \A l \in Legs, k \in Attempts : row[<<l, k>>] = "absent"
  BY DEF Init, Children
<1>2. \A l \in Legs : {k \in Attempts : row[<<l, k>>] # "absent"} = {}
  BY <1>1
<1>3. \A l \in Legs : CurrentAttempt(l) = 0
  BY <1>2 DEF CurrentAttempt
<1>4. 0 \in Attempts
  BY DelegationAssumption DEF Attempts
<1>5. LegsSeen = [l \in Legs |-> "idle"] /\ TriesSeen = [l \in Legs |-> 0]
  <2> HIDE DEF CurrentAttempt
  <2> QED BY <1>1, <1>3, <1>4 DEF LegsSeen, TriesSeen, Standing, RetryCount, Resume
<1>6. Outcome = "open"
  BY DEF Init, Outcome, NoCont
<1> QED BY <1>5, <1>6 DEF Join!Init

\* Delegation implements FanIn for every plain plan, any number of legs and any
\* number of crashes: P is joined once and for good, by a synthesis when its legs
\* have ended or one that escalates is gone, by a final word where a human was
\* asked, or by a block for a leg that is gone and blocks its parent.
THEOREM JoinRefined == ASSUME PlainTree PROVE Spec => JoinsAsPromised
<1>1. Spec => []Holding
  BY HoldingHolds
<1>2. Holding => Orderly
  BY DEF Holding
<1>3. Holding /\ Orderly' /\ [Next]_vars => [Join!Next]_(Join!vars)
  BY JoinStep
<1>4. Init => Join!Init
  BY JoinStart
<1>5. Spec => Join!Spec
  BY <1>1, <1>2, <1>3, <1>4, PTL DEF Spec, Join!Spec
<1> QED BY <1>5 DEF JoinsAsPromised
=============================================================================
