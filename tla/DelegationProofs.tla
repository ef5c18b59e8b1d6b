-------------------------- MODULE DelegationProofs --------------------------
(***************************************************************************)
(* Proofs about Delegation, for any number of legs, attempts, rounds and   *)
(* crashes and every set of plans.                                         *)
(***************************************************************************)
EXTENDS Delegation, TLAPS, FiniteSetTheorems, WellFoundedInduction

-----------------------------------------------------------------------------
(* Attempts and views *)

LEMMA LessRelation == \A i, j \in Nat : i < j => <<i, j>> \in OpToRel(<, Nat)
BY DEF OpToRel

\* A non-empty set of bounded naturals has a maximum, which is what Max yields.
LEMMA MaxBounded ==
    ASSUME NEW n \in Nat, NEW S \in SUBSET (0..n), S # {}
    PROVE  Max(S) \in S /\ \A k \in S : k <= Max(S)
<1> DEFINE T == {n - k : k \in S}
<1>1. T \subseteq Nat /\ T # {}
  OBVIOUS
<1>2. \E x \in T : \A y \in T : ~(<<y, x>> \in OpToRel(<, Nat))
  <2> HIDE DEF T
  <2> QED BY <1>1, NatLessThanWellFounded, WFMin
<1>3. PICK x \in T : \A y \in T : ~(<<y, x>> \in OpToRel(<, Nat))
  BY <1>2
<1>4. \A y \in T : x <= y
  <2>1. SUFFICES ASSUME NEW y \in T, y < x PROVE FALSE
    BY <1>1, x \in Nat
  <2> QED BY <1>1, <1>3, <2>1, LessRelation
<1>5. PICK m \in S : x = n - m
  OBVIOUS
<1>6. \A k \in S : m >= k
  BY <1>4, <1>5
<1>7. \E z \in S : \A y \in S : z >= y
  BY <1>6
<1> QED BY <1>7 DEF Max

\* The attempt that childDelegationJobs picks is an attempt.
LEMMA CurrentIsAttempt ==
    ASSUME TypeOK, NEW l \in Legs
    PROVE  CurrentAttempt(l) \in Attempts
<1> DEFINE there == {k \in Attempts : row[<<l, k>>] # "absent"}
           retries == {k \in there : k > 0}
<1>a. MaxRetry \in Nat /\ 0 \in Attempts
  BY DelegationAssumption DEF Attempts
<1>1. retries \in SUBSET (0..MaxRetry) /\ retries \subseteq Attempts
  BY <1>a DEF Attempts, Resume
<1>2. retries # {} => Max(retries) \in retries
  <2> HIDE DEF retries
  <2> QED BY <1>a, <1>1, MaxBounded
<1> QED BY <1>a, <1>1, <1>2 DEF CurrentAttempt

LEMMA ViewType == ASSUME TypeOK PROVE View \in Views
<1>1. \A l \in Legs : CurrentAttempt(l) \in Attempts
  BY CurrentIsAttempt
<1>2. \A l \in Legs : row[<<l, CurrentAttempt(l)>>] \in States
  BY <1>1 DEF TypeOK, Children
<1> HIDE DEF CurrentAttempt
<1> QED BY <1>1, <1>2 DEF View, Views

LEMMA NoViewType == NoView \in Views
BY DelegationAssumption DEF NoView, Views, Attempts, States

LEMMA ChildrenFinite == IsFiniteSet(Children)
<1>1. IsFiniteSet(Legs)
  BY DelegationAssumption, FS_Interval DEF Legs
<1>2. IsFiniteSet(0..MaxRetry) /\ IsFiniteSet({Resume}) /\ IsFiniteSet({})
  <2>1. IsFiniteSet(0..MaxRetry)
    BY DelegationAssumption, FS_Interval
  <2>2. IsFiniteSet({Resume})
    BY FS_Singleton
  <2>3. IsFiniteSet({})
    BY FS_EmptySet
  <2> QED BY <2>1, <2>2, <2>3
<1>3. IsFiniteSet(Attempts)
  <2> DEFINE E == IF "retry" \in Verbs THEN {Resume} ELSE {}
  <2>1. IsFiniteSet(E)
    BY <1>2
  <2>2. Attempts = (0..MaxRetry) \cup E
    BY DEF Attempts
  <2> QED BY <1>2, <2>1, <2>2, FS_Union
<1> QED BY <1>1, <1>3, FS_Product DEF Children

LEMMA NumJobsType == NumJobs \in Nat
<1>1. IsFiniteSet({c \in Children : row[c] # "absent"})
  BY ChildrenFinite, FS_Subset
<1>2. Cardinality({c \in Children : row[c] # "absent"}) \in Nat
  BY <1>1, FS_CardinalityType
<1> QED BY <1>2 DEF NumJobs
-----------------------------------------------------------------------------
(* What the actors know *)

\* A listing of the children, taken at any time before the rows are rw: the
\* attempts it shows are there, and what it shows of a settled one is true, but
\* that a row without a result may have got one since.
Honest(rw, v) ==
    \A l \in Legs :
        /\ v[l].st # "absent" => rw[<<l, v[l].k>>] # "absent"
        /\ Settled(v[l].st) => \/ rw[<<l, v[l].k>>] = v[l].st
                               \/ v[l].st = "dead" /\ rw[<<l, v[l].k>>] = "failed"

\* A leg that someone pauses for or resumes has failed, and is for a human.
LegFailed(rw, l) ==
    l # 0 => /\ plan.policy[l] = "escalate_human"
             /\ \E k \in Attempts : Failed(rw[<<l, k>>])

Knows(rw, r) == Honest(rw, r.kids) /\ Honest(rw, r.want.kids) /\ LegFailed(rw, r.leg)

\* Everybody's knowledge, the continuation and the rounds are true of the rows;
\* a child about to attach a result has a row without one.
Know ==
    /\ \A x \in Actors : Knows(row, p[x])
    /\ Honest(row, cont.kids)
    /\ \A i \in 1..Len(reqs) : LegFailed(row, reqs[i].leg)
    /\ \A c \in Children : At(c, "attach") => row[c] = "dead"

\* What an actor may go on as
Sound(r) == r \in Activity /\ r.pc # "attach" /\ Knows(row, r)
Advances(x) == UNCHANGED p \/ \E r : Sound(r) /\ p' = [p EXCEPT ![x] = r]

LEMMA HonestView == ASSUME TypeOK PROVE Honest(row, View)
<1> HIDE DEF CurrentAttempt
<1> QED BY DEF Honest, View

LEMMA HonestNoView == ASSUME NEW rw PROVE Honest(rw, NoView)
BY DEF Honest, NoView, Settled, Succeeded, Failed

LEMMA NoContType == NoCont \in Conts /\ NoCont.kids = NoView
BY NoViewType DEF NoCont, Conts, Reasons

LEMMA RequestType ==
    ASSUME NEW kind \in {"normal", "answer", "corrective", "replan", "finalize"},
           NEW why \in Reasons, NEW kids \in Views
    PROVE  Request(kind, why, kids) \in Conts /\ Request(kind, why, kids).kids = kids
<1> HIDE DEF NumJobs
<1> QED BY NumJobsType DEF Request, Conts

LEMMA IdleType == Idle \in Activity /\ Idle.pc = "idle"
<1>1. P \in Jobs /\ "idle" \in PCs
  BY DEF Jobs, PCs
<1>2. NoView \in Views /\ NoCont \in Conts
  BY NoViewType, NoContType
<1> HIDE DEF P, NoView, NoCont
<1> QED BY <1>1, <1>2 DEF Idle, Activity

LEMMA SoundIdle == Sound(Idle)
BY IdleType, HonestNoView, NoContType DEF Sound, Knows, Idle, LegFailed

\* Quit forgets what was read.
LEMMA SoundQuit ==
    ASSUME NEW me \in Activity, NEW pc \in PCs \ {"attach"}
    PROVE  Sound(Quit(me, pc))
<1>1. Quit(me, pc) \in Activity
  BY IdleType DEF Quit, Activity
<1>2. /\ Quit(me, pc).pc = pc /\ Quit(me, pc).leg = 0
      /\ Quit(me, pc).kids = NoView /\ Quit(me, pc).want = NoCont
  BY DEF Quit, Idle
<1> QED BY <1>1, <1>2, HonestNoView, NoContType DEF Sound, Knows, LegFailed

LEMMA SoundFinalizing ==
    ASSUME NEW me \in Activity, NEW why \in Reasons
    PROVE  Sound(Finalizing(me, why))
<1> DEFINE w == Finalize(why)
<1>1. w \in Conts /\ w.kids = NoView
  BY RequestType, NoViewType DEF Finalize
<1>2. Quit(me, "fin") \in Activity /\ Sound(Quit(me, "fin"))
  BY SoundQuit DEF Sound, PCs
<1>3. Quit(me, "fin").pc = "fin" /\ Quit(me, "fin").leg = 0 /\ Quit(me, "fin").kids = NoView
  BY DEF Quit, Idle
<1> HIDE DEF w
<1>4. [Quit(me, "fin") EXCEPT !.want = w] \in Activity
  BY <1>1, <1>2 DEF Activity
<1>5. Sound([Quit(me, "fin") EXCEPT !.want = w])
  BY <1>1, <1>2, <1>3, <1>4, HonestNoView DEF Sound, Knows, LegFailed, Activity
<1> QED BY <1>5 DEF Finalizing, w

LEMMA SoundBlocking ==
    ASSUME NEW me \in Activity, NEW why \in Reasons
    PROVE  Sound(Blocking(me)) /\ Sound(BlockingOrFinalizing(me, why))
BY SoundQuit, SoundFinalizing DEF Blocking, BlockingOrFinalizing, PCs

LEMMA SoundAt ==
    ASSUME NEW me \in Activity, Knows(row, me), NEW pc \in PCs \ {"attach"}
    PROVE  Sound([me EXCEPT !.pc = pc])
BY DEF Sound, Knows, Activity

\* An actor that goes on at pc with what it knows
LEMMA StepAdvances ==
    ASSUME TypeOK, Know, NEW x \in Actors, NEW pc \in PCs \ {"attach"}, Step(x, pc)
    PROVE  Advances(x)
BY SoundAt DEF TypeOK, Know, Step, Goto, Advances

LEMMA AwaitAdvances == ASSUME NEW x, Await(x) PROVE Advances(x)
BY SoundIdle DEF Await, Goto, Advances

LEMMA FailAdvances == ASSUME NEW x, Fail(x) PROVE Advances(x)
BY SoundIdle DEF Fail, Goto, Advances

\* A plan is what the assumption says.
LEMMA PlanType ==
    ASSUME TypeOK
    PROVE  /\ plan.refused \in {"no", "depth", "width", "loop", "preflight"}
           /\ plan.policy \in [Legs -> Policies] /\ plan.retry \in [Legs -> 0..MaxRetry]
           /\ plan.deps \in [Legs -> SUBSET Legs]
BY DelegationAssumption DEF TypeOK, AllPlans

\* What an actor does next rests on what it knew and on what it has just read.
LEMMA EngineAdvances ==
    ASSUME TypeOK, Know, NEW x \in Actors, Engine(x)
    PROVE  Advances(x)
<1> DEFINE me == p[x]
<1>a. me \in Activity /\ Knows(row, me) /\ p \in [Actors -> Activity]
  BY DEF TypeOK, Know
<1>b. \A pc \in PCs \ {"attach"} : Step(x, pc) => Advances(x)
  BY StepAdvances
<1>c. \A pc \in PCs \ {"attach"} : Sound([me EXCEPT !.pc = pc]) /\ Sound(Quit(me, pc))
  BY <1>a, SoundAt, SoundQuit
<1>d. \A why \in Reasons : /\ Sound(Finalizing(me, why)) /\ Sound(Blocking(me))
                           /\ Sound(BlockingOrFinalizing(me, why))
  BY <1>a, SoundFinalizing, SoundBlocking
<1>e. me.ret \in {"after", "mark", "rs_task"} /\ me.kids \in Views /\ me.want \in Conts
  BY <1>a DEF Activity
<1>f. \A v \in Views, pc \in PCs \ {"attach"} : 
        Honest(row, v) => Sound([me EXCEPT !.pc = pc, !.kids = v])
  BY <1>a DEF Sound, Knows, Activity
<1> USE DEF Goto
<1> HIDE DEF me
<1>1. ASSUME AdvanceJob(x) PROVE Advances(x)
  <2>1. Sound([me EXCEPT !.pc = "ask"]) /\ Sound([me EXCEPT !.pc = "dispatch"])
    BY <1>c DEF PCs
  <2>2. Sound([me EXCEPT !.pc = "events", !.kids = View])
    BY <1>f, ViewType, HonestView DEF PCs
  <2> HIDE DEF Goto
  <2>3. \E r : Sound(r) /\ Goto(x, r)
    BY <1>1, <2>1, <2>2 DEF AdvanceJob, me
  <2> QED BY <2>3 DEF Advances, Goto
<1>2. ASSUME Ask(x) PROVE Advances(x)
  BY <1>2, <1>b, AwaitAdvances DEF Ask, PCs
<1>3. ASSUME AskRequest(x) \/ PauseRequest(x) PROVE Advances(x)
  BY <1>3, AwaitAdvances DEF AskRequest, PauseRequest, RequestRound
<1>4. ASSUME AfterAdvance(x) PROVE Advances(x)
  BY <1>4, <1>b DEF AfterAdvance, PCs
<1>5. ASSUME Dispatch(x) PROVE Advances(x)
  <2> DEFINE dd == [me EXCEPT !.ret = "mark"]
             cc == [dd EXCEPT !.pc = IF plan.refused = "loop" THEN "correct" ELSE "cont",
                              !.want = Request("corrective", plan.refused, NoView)]
  <2>1. dd \in Activity /\ Knows(row, dd)
    BY <1>a DEF Activity, Knows
  <2>2. Backstop # "no" => Backstop \in Reasons
    <3> HIDE DEF NumJobs, Projected
    <3> QED BY DEF TypeOK, Backstop, Reasons
  <2>3. plan.refused # "no" => plan.refused \in Reasons
    BY PlanType DEF Reasons
  <2>4. \A why \in Reasons : Sound(Finalizing(dd, why))
    BY <2>1, SoundFinalizing
  <2>5. Sound([dd EXCEPT !.pc = "spawn"]) /\ Sound([dd EXCEPT !.pc = "mark"])
    BY <2>1, SoundAt DEF PCs
  <2>6. ASSUME plan.refused # "no" PROVE Sound(cc)
    <3> DEFINE w == Request("corrective", plan.refused, NoView)
    <3>1. w \in Conts /\ w.kids = NoView
      BY <2>3, <2>6, RequestType, NoViewType
    <3> HIDE DEF w, dd
    <3> DEFINE pc == IF plan.refused = "loop" THEN "correct" ELSE "cont"
    <3>2. pc \in PCs \ {"attach"}
      BY DEF PCs
    <3> HIDE DEF pc
    <3>3. Sound([dd EXCEPT !.pc = pc, !.want = w])
      BY <2>1, <3>1, <3>2, HonestNoView DEF Sound, Knows, Activity
    <3> QED BY <3>3 DEF w, pc
  <2> HIDE DEF Goto
  <2>7. \E r : Sound(r) /\ Goto(x, r)
    BY <1>5, <2>2, <2>3, <2>4, <2>5, <2>6 DEF Dispatch, me
  <2> QED BY <2>7 DEF Advances, Goto
<1>6. ASSUME Spawn(x) PROVE Advances(x)
  <2>1. "mark" \in PCs \ {"attach"} /\ "alloc" \in Reasons
    BY DEF PCs, Reasons
  <2> QED BY <1>6, <1>b, <1>d, <2>1 DEF Spawn, Advances, me
<1>g. ASSUME NEW y \in Activity, Knows(row, y) PROVE Sound(DepsOrGate(y))
  <2>1. Sound([y EXCEPT !.pc = "deps"]) /\ Sound(Quit(y, "after"))
    BY <1>g, SoundAt, SoundQuit DEF PCs
  <2>2. Sound([y EXCEPT !.pc = "gate", !.tried = {}])
    BY <1>g DEF Sound, Knows, Activity, PCs
  <2> QED BY <2>1, <2>2 DEF DepsOrGate
<1>7. ASSUME Events(x) PROVE Advances(x)
  <2> DEFINE ee == [me EXCEPT !.esc = Escalates(me.kids), !.tried = {}]
  <2>1. Sound([me EXCEPT !.pc = "retry"])
    BY <1>c DEF PCs
  <2>2. Sound(DepsOrGate(ee))
    <3> DEFINE e == Escalates(me.kids)
    <3>1. e \in BOOLEAN
      BY DEF Escalates
    <3> HIDE DEF e
    <3>2. [me EXCEPT !.esc = e, !.tried = {}] \in Activity
      BY <1>a, <3>1 DEF Activity
    <3>3. Knows(row, [me EXCEPT !.esc = e, !.tried = {}])
      BY <1>a, <3>1 DEF Activity, Knows
    <3> QED BY <3>2, <3>3, <1>g DEF e
  <2>3. ASSUME NEW l \in Stopping(me.kids), plan.policy[l] = "escalate_human"
        PROVE  Sound([Quit(me, "pause") EXCEPT !.leg = l])
    <3>1. l \in Legs /\ Failed(me.kids[l].st)
      BY <2>3 DEF Stopping
    <3>2. me.kids[l].k \in Attempts
      BY <1>e, <3>1 DEF Views
    <3>3. Failed(row[<<l, me.kids[l].k>>])
      BY <1>a, <3>1 DEF Knows, Honest, Failed, Settled
    <3>4. LegFailed(row, l)
      BY <2>3, <3>2, <3>3 DEF LegFailed
    <3>5. Quit(me, "pause") \in Activity /\ Sound(Quit(me, "pause")) /\ Quit(me, "pause").pc = "pause"
      BY <1>a, SoundQuit DEF Sound, PCs, Quit, Idle
    <3> HIDE DEF Quit
    <3> QED BY <3>1, <3>4, <3>5 DEF Sound, Knows, Activity
  <2>4. "block_parent" \in Reasons
    BY DEF Reasons
  <2> HIDE DEF Goto
  <2>5. \E r : Sound(r) /\ Goto(x, r)
    <3>1. CASE Goto(x, [me EXCEPT !.pc = "retry"])
      BY <3>1, <2>1
    <3>2. CASE Goto(x, DepsOrGate(ee))
      BY <3>2, <2>2
    <3>3. ASSUME NEW l \in First(IF evCont THEN {} ELSE Stopping(me.kids)),
                 Goto(x, IF plan.policy[l] = "escalate_human"
                           THEN [Quit(me, "pause") EXCEPT !.leg = l]
                           ELSE BlockingOrFinalizing(me, "block_parent"))
          PROVE  \E r : Sound(r) /\ Goto(x, r)
      <4>1. l \in Stopping(me.kids)
        BY <3>3 DEF First
      <4> QED BY <3>3, <4>1, <2>3, <2>4, <1>d
    <3> QED BY <1>7, <3>1, <3>2, <3>3 DEF Events, me
  <2> QED BY <2>5 DEF Advances, Goto
<1>8. ASSUME Retry(x) PROVE Advances(x)
  <2>1. ASSUME NEW l \in Legs PROVE Sound([me EXCEPT !.tried = @ \cup {l}]) \/ ~At(x, "retry")
    BY <1>a DEF Sound, Knows, Activity, At, me
  <2>2. Sound([me EXCEPT !.pc = "events", !.kids = View])
    BY <1>f, ViewType, HonestView DEF PCs
  <2>3. \A l \in First(Retriables(me)) : l \in Legs
    BY DEF First, Retriables
  <2>4. "alloc" \in Reasons
    BY DEF Reasons
  <2> HIDE DEF Goto
  <2>5. \E r : Sound(r) /\ Goto(x, r)
    BY <1>8, <2>1, <2>2, <2>3, <2>4, <1>d DEF Retry, me
  <2> QED BY <2>5 DEF Advances, Goto
<1>9. ASSUME Pause(x) PROVE Advances(x)
  BY <1>9, <1>b, AwaitAdvances DEF Pause, PCs
<1>10. ASSUME Deps(x) PROVE Advances(x)
  <2>1. ASSUME NEW l \in Legs PROVE Sound([me EXCEPT !.pc = "reread", !.tried = @ \cup {l}])
    BY <1>a DEF Sound, Knows, Activity, PCs
  <2>2. \A l \in First(Dependents(me)) : l \in Legs
    BY DEF First, Dependents
  <2>3. "alloc" \in Reasons
    BY DEF Reasons
  <2> HIDE DEF Goto
  <2>4. \E r : Sound(r) /\ Goto(x, r)
    BY <1>10, <2>1, <2>2, <2>3, <1>d DEF Deps, me
  <2> QED BY <2>4 DEF Advances, Goto
<1>11. ASSUME Reread(x) PROVE Advances(x)
  <2>1. [me EXCEPT !.kids = View] \in Activity /\ Knows(row, [me EXCEPT !.kids = View])
    BY <1>a, ViewType, HonestView DEF Activity, Knows
  <2>2. Sound(DepsOrGate([me EXCEPT !.kids = View]))
    BY <2>1, <1>g
  <2> QED BY <1>11, <2>2 DEF Reread, Advances, me
<1>12. ASSUME Gate(x) PROVE Advances(x)
  <2> DEFINE Cont(kind) == [Quit(me, "cont") EXCEPT !.want = Request(kind, "none", me.kids)]
  <2>1. Sound(Quit(me, me.ret))
    BY <1>c, <1>e DEF PCs
  <2>2. \A why \in {"synthesis", "stalled", "verify"} :
          Sound(BlockingOrFinalizing(me, why)) /\ Sound(Finalizing(me, why))
    BY <1>d DEF Reasons
  <2>3. ASSUME NEW kind \in {"corrective", "replan", "normal"} PROVE Sound(Cont(kind))
    <3> DEFINE w == Request(kind, "none", me.kids)
    <3>1. w \in Conts /\ w.kids = me.kids
      BY <1>e, RequestType DEF Reasons
    <3>2. Quit(me, "cont") \in Activity /\ Sound(Quit(me, "cont")) /\ Quit(me, "cont").pc = "cont"
      BY <1>a, SoundQuit DEF Sound, PCs, Quit, Idle
    <3> HIDE DEF w, Quit
    <3>3. Sound([Quit(me, "cont") EXCEPT !.want = w])
      BY <1>a, <3>1, <3>2 DEF Sound, Knows, Activity
    <3> QED BY <3>3 DEF w
  <2> HIDE DEF Goto, Cont
  <2>4. \E r : Sound(r) /\ Goto(x, r)
    <3> DEFINE r1 == IF evCont THEN Quit(me, me.ret)
                  ELSE IF GateFails(me.kids) THEN BlockingOrFinalizing(me, "synthesis")
                  ELSE IF plan.stalled
                  THEN IF plan.nudged THEN Finalizing(me, "stalled") ELSE Cont("corrective")
                  ELSE IF ~VerifyPassed(me.kids)
                  THEN IF plan.replan THEN Cont("replan") ELSE Finalizing(me, "verify")
                  ELSE Cont("normal")
    <3>1. Sound(r1)
      BY <2>1, <2>2, <2>3
    <3>2. Goto(x, r1)
      BY <1>12 DEF Gate, me, Cont
    <3> QED BY <3>1, <3>2
  <2> QED BY <2>4 DEF Advances, Goto
<1>13. ASSUME AnswerGate(x) PROVE Advances(x)
  <2> DEFINE w == Request("answer", "none", NoView)
  <2>1. w \in Conts /\ w.kids = NoView
    BY RequestType, NoViewType DEF Reasons
  <2> HIDE DEF w
  <2>2. Sound([me EXCEPT !.pc = "cont", !.want = w])
    BY <1>a, <2>1, HonestNoView DEF Sound, Knows, Activity, PCs
  <2>3. Sound([me EXCEPT !.pc = me.ret])
    BY <1>c, <1>e DEF PCs
  <2> QED BY <1>13, <2>2, <2>3 DEF AnswerGate, Advances, me, w
<1>14. ASSUME Continue(x) \/ Correct(x) \/ FinalizeEnqueue(x) PROVE Advances(x)
  <2>1. \A pc \in {"contev", "mark", "finev"} : Sound(Quit(me, pc))
    BY <1>c DEF PCs
  <2> QED BY <1>14, <2>1, FailAdvances
          DEF Continue, Correct, FinalizeEnqueue, EnqueueContinuation, Advances, me
<1>15. ASSUME ContinueEvent(x) \/ FinalizeGuard(x) \/ FinalizeEvent(x) PROVE Advances(x)
  <2>1. me.ret \in PCs \ {"attach"} /\ {"finev2", "finq"} \subseteq PCs \ {"attach"}
    BY <1>e DEF PCs
  <2> QED BY <1>15, <2>1, <1>b DEF ContinueEvent, FinalizeGuard, FinalizeEvent, me
<1>16. ASSUME ResumeRow(x) PROVE Advances(x)
  <2>1. Sound(Quit(me, "rs_task")) /\ Sound(Blocking(me))
    BY <1>a, <1>c, SoundQuit DEF PCs, Blocking
  <2> QED BY <1>16, <2>1, FailAdvances DEF ResumeRow, Advances, me
<1>17. ASSUME ResumeTask(x) \/ Block(x) PROVE Advances(x)
  BY <1>17, <1>b DEF ResumeTask, Block, PCs
<1>18. ASSUME ResumeDone(x) \/ MarkDone(x) \/ MarkBlocked(x) PROVE Advances(x)
  BY <1>18, SoundIdle DEF ResumeDone, MarkDone, MarkBlocked, Advances
<1> QED
  BY <1>1, <1>2, <1>3, <1>4, <1>5, <1>6, <1>7, <1>8, <1>9, <1>10, <1>11, <1>12, <1>13, <1>14,
     <1>15, <1>16, <1>17, <1>18 DEF Engine
-----------------------------------------------------------------------------
(* What a step does to the store *)

Marks == {"none", "started", "retry", "done", "blocked"}
Rounds == [kind : {"ask", "failure"}, leg : Legs \cup {0}]

\* A row is inserted, settles once, and may get a result after it has settled
\* without one.
RowMoves ==
    \A c \in Children :
        \/ row'[c] = row[c]
        \/ row[c] = "absent" /\ row'[c] = "active"
        \/ row[c] = "active" /\ Settled(row'[c])
        \/ row[c] = "dead" /\ row'[c] = "failed"

RowGrows ==
    \A c \in Children : row'[c] = row[c] \/ (row[c] = "absent" /\ row'[c] = "active")

StoreStep ==
    /\ plan' = plan
    /\ row' \in [Children -> States] /\ RowMoves
    /\ text' \in [Legs -> Texts \cup {"none"}] /\ mark' \in [Jobs -> Marks]
    /\ cont' \in Conts /\ Honest(row, cont'.kids)
    /\ evCont' \in BOOLEAN /\ evFin' \in BOOLEAN /\ evRefused' \in BOOLEAN
    /\ reqs' \in Seq(Rounds) /\ \A i \in 1..Len(reqs') : LegFailed(row, reqs'[i].leg)
    /\ resolved' \in Nat
    /\ task' \in {"planned", "awaiting", "blocked"}
    /\ tripped' \in {"no", "time", "killed"} /\ crashes' \in 0..MaxCrashes

LEMMA EnqueueGrows ==
    ASSUME TypeOK, NEW c, Enqueue(c) PROVE row' \in [Children -> States] /\ RowGrows
BY DEF TypeOK, Enqueue, RowGrows, States

LEMMA StoreStill ==
    ASSUME TypeOK, Know, UNCHANGED <<store, still, mark>> PROVE StoreStep
BY DEF TypeOK, Know, store, still, StoreStep, RowMoves, Marks, Rounds

\* Same, but for the row
LEMMA StoreGrows ==
    ASSUME TypeOK, Know, row' \in [Children -> States], RowMoves,
           UNCHANGED <<still, mark, text, cont, evCont, evFin, evRefused, reqs, resolved, task>>
    PROVE  StoreStep
BY DEF TypeOK, Know, still, StoreStep, Marks, Rounds

LEMMA GrowsMoves == ASSUME RowGrows PROVE RowMoves
BY DEF RowGrows, RowMoves

LEMMA EngineStore ==
    ASSUME TypeOK, Know, NEW x \in Actors, Engine(x)
    PROVE  StoreStep /\ RowGrows
<1>a. p[x] \in Activity /\ Knows(row, p[x])
  BY DEF TypeOK, Know
<1>b. /\ plan' = plan /\ tripped' = tripped /\ crashes' = crashes
      => /\ plan' = plan /\ tripped' \in {"no", "time", "killed"} /\ crashes' \in 0..MaxCrashes
  BY DEF TypeOK
<1>c. UNCHANGED row => row' \in [Children -> States] /\ RowGrows /\ RowMoves
  BY DEF TypeOK, RowGrows, RowMoves
<1>d. UNCHANGED text => text' \in [Legs -> Texts \cup {"none"}]
  BY DEF TypeOK
<1>e. UNCHANGED mark => mark' \in [Jobs -> Marks]
  BY DEF TypeOK, Marks
<1>f. UNCHANGED cont => cont' \in Conts /\ Honest(row, cont'.kids)
  BY DEF TypeOK, Know
<1>g. UNCHANGED reqs => reqs' \in Seq(Rounds) /\ \A i \in 1..Len(reqs') : LegFailed(row, reqs'[i].leg)
  BY DEF TypeOK, Know, Rounds
<1>h. /\ UNCHANGED evCont => evCont' \in BOOLEAN
      /\ UNCHANGED evFin => evFin' \in BOOLEAN
      /\ UNCHANGED evRefused => evRefused' \in BOOLEAN
      /\ UNCHANGED resolved => resolved' \in Nat /\ resolved + 1 \in Nat
      /\ UNCHANGED task => task' \in {"planned", "awaiting", "blocked"}
  BY DEF TypeOK
<1>i. \A s \in {"planned", "awaiting", "blocked"} :
          SetTask(s) => task' \in {"planned", "awaiting", "blocked"}
  BY DEF SetTask, TypeOK
<1>j. /\ Await(x) => mark' \in [Jobs -> Marks]
      /\ Fail(x) => mark' \in [Jobs -> Marks]
  BY DEF Await, Fail, TypeOK, Marks
<1>1. ASSUME \/ AdvanceJob(x) \/ AfterAdvance(x) \/ Events(x) \/ Reread(x) \/ Gate(x)
             \/ AnswerGate(x) \/ FinalizeGuard(x)
      PROVE  StoreStep /\ RowGrows
  <2>1. UNCHANGED <<store, still, mark>>
    BY <1>1 DEF AdvanceJob, AfterAdvance, Events, Reread, Gate, AnswerGate, FinalizeGuard
  <2> QED BY <2>1, StoreStill, <1>c DEF store
<1>2. ASSUME Ask(x) \/ Pause(x) \/ ResumeTask(x) \/ Block(x) PROVE StoreStep /\ RowGrows
  <2>1. task' \in {"planned", "awaiting", "blocked"}
    BY <1>2, <1>h, <1>i DEF Ask, Pause, ResumeTask, Block
  <2>2. mark' \in [Jobs -> Marks]
    BY <1>2, <1>e, <1>j DEF Ask, Pause, ResumeTask, Block
  <2>3. UNCHANGED <<still, row, text, cont, evCont, evFin, evRefused, reqs, resolved>>
    BY <1>2 DEF Ask, Pause, ResumeTask, Block
  <2> QED BY <2>1, <2>2, <2>3, <1>b, <1>c, <1>d, <1>f, <1>g, <1>h DEF StoreStep, still
<1>3. ASSUME AskRequest(x) \/ PauseRequest(x) PROVE StoreStep /\ RowGrows
  <2>1. PICK rd \in Rounds : reqs' = Append(reqs, rd) /\ LegFailed(row, rd.leg)
    <3>1. ASSUME AskRequest(x)
          PROVE  \E rd \in Rounds : reqs' = Append(reqs, rd) /\ LegFailed(row, rd.leg)
      <4>1. [kind |-> "ask", leg |-> 0] \in Rounds
        BY DEF Rounds
      <4> QED BY <3>1, <4>1 DEF AskRequest, RequestRound, LegFailed
    <3>2. ASSUME PauseRequest(x)
          PROVE  \E rd \in Rounds : reqs' = Append(reqs, rd) /\ LegFailed(row, rd.leg)
      <4>1. [kind |-> "failure", leg |-> p[x].leg] \in Rounds
        BY <1>a DEF Rounds, Activity
      <4>2. LegFailed(row, p[x].leg)
        BY <1>a DEF Knows
      <4> QED BY <3>2, <4>1, <4>2 DEF PauseRequest, RequestRound
    <3> QED BY <1>3, <3>1, <3>2
  <2>2. reqs \in Seq(Rounds) /\ \A i \in 1..Len(reqs) : LegFailed(row, reqs[i].leg)
    BY DEF TypeOK, Know, Rounds
  <2>3. reqs' \in Seq(Rounds) /\ \A i \in 1..Len(reqs') : LegFailed(row, reqs'[i].leg)
    BY <2>1, <2>2
  <2>4. UNCHANGED <<still, mark, row, text, cont, evCont, evFin, evRefused, resolved, task>>
    BY <1>3 DEF AskRequest, PauseRequest, RequestRound, Await
  <2> QED BY <2>3, <2>4, <1>b, <1>c, <1>d, <1>e, <1>f, <1>h DEF StoreStep, still
<1>4. ASSUME Dispatch(x) PROVE StoreStep /\ RowGrows
  <2>1. evRefused' \in BOOLEAN
    BY <1>4, <1>h DEF Dispatch
  <2>2. UNCHANGED <<still, mark, row, text, cont, evCont, evFin, reqs, resolved, task>>
    BY <1>4 DEF Dispatch
  <2> QED BY <2>1, <2>2, <1>b, <1>c, <1>d, <1>e, <1>f, <1>g, <1>h DEF StoreStep, still
<1>5. ASSUME Spawn(x) \/ Retry(x) \/ Deps(x) PROVE StoreStep /\ RowGrows
  <2>1. row' \in [Children -> States] /\ RowGrows
    BY <1>5, <1>c, EnqueueGrows DEF Spawn, Retry, Deps
  <2>2. UNCHANGED <<still, mark, text, cont, evCont, evFin, evRefused, reqs, resolved, task>>
    BY <1>5 DEF Spawn, Retry, Deps
  <2> QED BY <2>1, <2>2, GrowsMoves, StoreGrows
<1>6. ASSUME Continue(x) \/ Correct(x) \/ FinalizeEnqueue(x) PROVE StoreStep /\ RowGrows
  <2>1. cont' \in Conts /\ Honest(row, cont'.kids)
    <3>1. p[x].want \in Conts /\ Honest(row, p[x].want.kids)
      BY <1>a DEF Activity, Knows
    <3> QED BY <1>6, <3>1, <1>f DEF Continue, Correct, FinalizeEnqueue, EnqueueContinuation
  <2>2. mark' \in [Jobs -> Marks]
    BY <1>6, <1>e, <1>j DEF Continue, Correct, FinalizeEnqueue, EnqueueContinuation
  <2>3. UNCHANGED <<still, row, text, evCont, evFin, evRefused, reqs, resolved, task>>
    BY <1>6 DEF Continue, Correct, FinalizeEnqueue, EnqueueContinuation
  <2> QED BY <2>1, <2>2, <2>3, <1>b, <1>c, <1>d, <1>g, <1>h DEF StoreStep, still
<1>7. ASSUME ContinueEvent(x) \/ FinalizeEvent(x) PROVE StoreStep /\ RowGrows
  <2>1. evCont' \in BOOLEAN /\ evFin' \in BOOLEAN
    BY <1>7, <1>h DEF ContinueEvent, FinalizeEvent
  <2>2. UNCHANGED <<still, mark, row, text, cont, evRefused, reqs, resolved, task>>
    BY <1>7 DEF ContinueEvent, FinalizeEvent
  <2> QED BY <2>1, <2>2, <1>b, <1>c, <1>d, <1>e, <1>f, <1>g, <1>h DEF StoreStep, still
<1>8. ASSUME ResumeRow(x) PROVE StoreStep /\ RowGrows
  <2>1. row' \in [Children -> States] /\ RowGrows
    BY <1>8, <1>c, EnqueueGrows DEF ResumeRow
  <2>2. text' \in [Legs -> Texts \cup {"none"}]
    <3>1. p[x].said \in Texts \cup {"none"} /\ text \in [Legs -> Texts \cup {"none"}]
      BY <1>a DEF Activity, TypeOK
    <3> QED BY <1>8, <1>d, <3>1 DEF ResumeRow
  <2>3. mark' \in [Jobs -> Marks]
    BY <1>8, <1>e, <1>j DEF ResumeRow
  <2>4. UNCHANGED <<still, cont, evCont, evFin, evRefused, reqs, resolved, task>>
    BY <1>8 DEF ResumeRow
  <2> QED BY <2>1, <2>2, <2>3, <2>4, GrowsMoves, <1>b, <1>f, <1>g, <1>h DEF StoreStep, still
<1>9. ASSUME ResumeDone(x) PROVE StoreStep /\ RowGrows
  <2>1. resolved' \in Nat
    BY <1>9 DEF ResumeDone, TypeOK
  <2>2. UNCHANGED <<still, mark, row, text, cont, evCont, evFin, evRefused, reqs, task>>
    BY <1>9 DEF ResumeDone
  <2> QED BY <2>1, <2>2, <1>b, <1>c, <1>d, <1>e, <1>f, <1>g, <1>h DEF StoreStep, still
<1>10. ASSUME MarkDone(x) \/ MarkBlocked(x) PROVE StoreStep /\ RowGrows
  <2>1. mark' \in [Jobs -> Marks]
    BY <1>10 DEF MarkDone, MarkBlocked, TypeOK, Marks
  <2>2. UNCHANGED <<still, store>>
    BY <1>10 DEF MarkDone, MarkBlocked
  <2> QED BY <2>1, <2>2, <1>b, <1>c, <1>d, <1>f, <1>g, <1>h DEF StoreStep, still, store
<1> QED BY <1>1, <1>2, <1>3, <1>4, <1>5, <1>6, <1>7, <1>8, <1>9, <1>10 DEF Engine
-----------------------------------------------------------------------------
(* The inductive invariant *)

DInv == TypeOK /\ Know

ActorsStep ==
    /\ p' \in [Actors -> Activity]
    /\ \A x \in Actors : Knows(row, p'[x])
    /\ \A c \in Children : p'[c].pc = "attach" => row'[c] = "dead"

\* What a listing says stays true while rows move on.
LEMMA HonestStable ==
    ASSUME TypeOK, row' \in [Children -> States], RowMoves, NEW v \in Views, Honest(row, v)
    PROVE  Honest(row', v)
<1> SUFFICES ASSUME NEW l \in Legs
             PROVE  /\ v[l].st # "absent" => row'[<<l, v[l].k>>] # "absent"
                    /\ Settled(v[l].st) => \/ row'[<<l, v[l].k>>] = v[l].st
                                           \/ v[l].st = "dead" /\ row'[<<l, v[l].k>>] = "failed"
  BY DEF Honest
<1>1. <<l, v[l].k>> \in Children
  BY DEF Views, Children
<1> QED BY <1>1 DEF Honest, RowMoves, Settled, Succeeded, Failed

LEMMA LegFailedStable ==
    ASSUME TypeOK, plan' = plan, RowMoves, NEW l \in Legs \cup {0}, LegFailed(row, l)
    PROVE  LegFailed(row, l)' /\ LegFailed(row', l)
<1>1. CASE l = 0
  BY <1>1 DEF LegFailed
<1>2. CASE l # 0
  <2>1. PICK k \in Attempts : Failed(row[<<l, k>>])
    BY <1>2 DEF LegFailed
  <2>2. <<l, k>> \in Children
    BY <1>2 DEF Children
  <2>3. Failed(row'[<<l, k>>])
    BY <2>1, <2>2 DEF RowMoves, Failed, Settled, Succeeded
  <2> QED BY <1>2, <2>3 DEF LegFailed
<1> QED BY <1>1, <1>2

LEMMA StepsKeep ==
    ASSUME TypeOK, Know, StoreStep, ActorsStep
    PROVE  TypeOK' /\ Know'
<1>1. TypeOK'
  BY DEF TypeOK, StoreStep, ActorsStep, Marks, Rounds
<1>2. \A v \in Views : Honest(row, v) => Honest(row', v)
  BY HonestStable DEF StoreStep
<1>3. \A l \in Legs \cup {0} : LegFailed(row, l) => LegFailed(row, l)'
  BY LegFailedStable DEF StoreStep
<1>4. \A x \in Actors : Knows(row, p[x])'
  <2> SUFFICES ASSUME NEW x \in Actors PROVE Knows(row, p[x])'
    OBVIOUS
  <2>1. p'[x] \in Activity /\ Knows(row, p'[x])
    BY DEF ActorsStep
  <2>2. p'[x].kids \in Views /\ p'[x].want.kids \in Views /\ p'[x].leg \in Legs \cup {0}
    BY <2>1 DEF Activity, Conts
  <2>3. Honest(row', p'[x].kids) /\ Honest(row', p'[x].want.kids)
    BY <2>1, <2>2, <1>2 DEF Knows
  <2>4. plan' = plan /\ LegFailed(row', p'[x].leg)
    BY <2>1, <2>2, LegFailedStable DEF Knows, StoreStep
  <2> QED BY <2>3, <2>4 DEF Knows, Honest, LegFailed
<1>5. Honest(row, cont.kids)'
  <2>1. cont'.kids \in Views /\ Honest(row, cont'.kids)
    BY DEF StoreStep, Conts
  <2>2. Honest(row', cont'.kids)
    BY <2>1, <1>2
  <2> QED BY <2>2 DEF Honest
<1>6. \A i \in 1..Len(reqs') : LegFailed(row, reqs[i].leg)'
  <2> SUFFICES ASSUME NEW i \in 1..Len(reqs') PROVE LegFailed(row, reqs[i].leg)'
    OBVIOUS
  <2>1. reqs'[i].leg \in Legs \cup {0} /\ LegFailed(row, reqs'[i].leg)
    <3>1. reqs'[i] \in Rounds
      BY DEF StoreStep
    <3> QED BY <3>1 DEF StoreStep, Rounds
  <2>2. plan' = plan /\ LegFailed(row', reqs'[i].leg)
    BY <2>1, LegFailedStable DEF StoreStep
  <2> QED BY <2>2 DEF LegFailed
<1>7. \A c \in Children : (At(c, "attach") => row[c] = "dead")'
  BY DEF ActorsStep, At
<1> QED BY <1>1, <1>4, <1>5, <1>6, <1>7 DEF Know

LEMMA KnowsStill ==
    ASSUME TypeOK, Know
    PROVE  /\ p \in [Actors -> Activity] /\ \A x \in Actors : Knows(row, p[x])
           /\ \A c \in Children : p[c].pc = "attach" => row[c] = "dead"
           /\ Children \subseteq Actors /\ Jobs \subseteq Actors
           /\ {Tick, Poller, Chat} \subseteq Actors
BY DEF TypeOK, Know, At, Actors, Jobs

\* An actor goes on while rows are at most inserted.
LEMMA AdvancesKeeps ==
    ASSUME TypeOK, Know, NEW x \in Actors, Advances(x), RowGrows PROVE ActorsStep
<1>1. CASE UNCHANGED p
  BY <1>1, KnowsStill DEF ActorsStep, RowGrows
<1>2. ASSUME NEW r, Sound(r), p' = [p EXCEPT ![x] = r] PROVE ActorsStep
  <2>1. p' \in [Actors -> Activity]
    BY <1>2, KnowsStill DEF Sound
  <2>2. \A y \in Actors : Knows(row, p'[y])
    BY <1>2, KnowsStill DEF Sound
  <2>3. \A c \in Children : p'[c].pc = "attach" => row'[c] = "dead"
    BY <1>2, KnowsStill DEF Sound, RowGrows
  <2> QED BY <2>1, <2>2, <2>3 DEF ActorsStep
<1> QED BY <1>1, <1>2 DEF Advances

LEMMA SoundAdvancing ==
    ASSUME NEW c \in Jobs, NEW late \in BOOLEAN PROVE Sound(Advancing(c, late))
<1>1. Sound(Idle) /\ Idle \in Activity
  BY SoundIdle, IdleType
<1>2. [Idle EXCEPT !.pc = "adv", !.job = c, !.late = late] \in Activity
  BY <1>1 DEF Activity, PCs
<1> HIDE DEF Idle
<1>3. Sound([Idle EXCEPT !.pc = "adv", !.job = c, !.late = late])
  BY <1>1, <1>2 DEF Activity, Sound, Knows
<1> QED BY <1>3 DEF Advancing

LEMMA RunKeeps ==
    ASSUME TypeOK, Know, NEW c \in Children, Run(c) \/ Attach(c)
    PROVE  StoreStep /\ ActorsStep
<1>a. c \in Jobs /\ c \in Actors
  BY KnowsStill DEF Jobs
<1>b. /\ row \in [Children -> States] /\ mark \in [Jobs -> Marks]
      /\ p \in [Actors -> Activity]
  BY DEF TypeOK, Marks
<1>1. \/ row[c] = "active"
      \/ At(c, "attach") /\ row[c] = "dead"
  BY DEF Run, Deliver, TimeOut, DeliveryFail, Attach, Know
<1>2. \E st \in {"approved", "changes", "asking", "failed", "dead"} :
          /\ row' = [row EXCEPT ![c] = st]
          /\ row[c] = "dead" => st = "failed"
  BY <1>1 DEF Run, Deliver, TimeOut, DeliveryFail, Attach, Decisions
<1>3. row' \in [Children -> States] /\ RowMoves
  BY <1>1, <1>2, <1>b DEF RowMoves, States, Settled, Succeeded, Failed
<1>4. mark' \in [Jobs -> Marks]
  BY <1>b DEF Run, Deliver, TimeOut, DeliveryFail, Attach, Marks
<1>5. UNCHANGED <<still, text, cont, evCont, evFin, evRefused, reqs, resolved, task>>
  BY DEF Run, Deliver, TimeOut, DeliveryFail, Attach
<1>6. StoreStep
  BY <1>3, <1>4, <1>5 DEF StoreStep, still, TypeOK, Know, Rounds
<1>7. ASSUME NEW late \in BOOLEAN, p' = [p EXCEPT ![c] = Advancing(c, late)] PROVE ActorsStep
  <2>1. Sound(Advancing(c, late))
    BY <1>a, SoundAdvancing
  <2> HIDE DEF Advancing
  <2>2. p' \in [Actors -> Activity] /\ \A y \in Actors : Knows(row, p'[y])
    BY <1>7, <2>1, KnowsStill DEF Sound
  <2>3. \A d \in Children : p'[d].pc = "attach" => row'[d] = "dead"
    BY <1>7, <1>2, <2>1, <1>a, KnowsStill DEF Sound
  <2> QED BY <2>2, <2>3 DEF ActorsStep
<1>8. ASSUME DeliveryFail(c) PROVE ActorsStep
  <2> DEFINE r == [Idle EXCEPT !.pc = "attach", !.job = c]
  <2>1. r \in Activity /\ Knows(row, r)
    <3>1. Sound(Idle) /\ Idle \in Activity
      BY SoundIdle, IdleType
    <3> HIDE DEF Idle
    <3> QED BY <3>1, <1>a DEF Sound, Activity, Knows, PCs
  <2> HIDE DEF r
  <2>2. p' = [p EXCEPT ![c] = r] /\ row' = [row EXCEPT ![c] = "dead"]
    BY <1>8 DEF DeliveryFail, Goto, r
  <2>3. p' \in [Actors -> Activity] /\ \A y \in Actors : Knows(row, p'[y])
    BY <2>1, <2>2, KnowsStill
  <2>4. \A d \in Children : p'[d].pc = "attach" => row'[d] = "dead"
    BY <2>2, <1>a, <1>b, KnowsStill
  <2> QED BY <2>3, <2>4 DEF ActorsStep
<1> QED BY <1>6, <1>7, <1>8 DEF Run, Deliver, TimeOut, Attach, Goto

LEMMA HumanAdvances ==
    ASSUME TypeOK, Know, NEW x \in {Poller, Chat}, NEW verb \in Verbs, NEW t \in Texts,
           Human(x, verb, t)
    PROVE  Advances(x)
<1> DEFINE me == Resolving
<1>1. me \in Activity /\ Knows(row, me)
  <2>1. Sound(Idle) /\ Idle \in Activity
    BY SoundIdle, IdleType
  <2> HIDE DEF Idle
  <2> QED BY <2>1 DEF Resolving, Activity, Sound, Knows
<1> HIDE DEF me
<1>2. Round.leg \in Legs \cup {0} /\ LegFailed(row, Round.leg)
  <2>1. reqs \in Seq(Rounds) /\ Len(reqs) > resolved /\ resolved \in Nat
    BY DEF Human, Open, TypeOK, Rounds
  <2>2. Len(reqs) \in 1..Len(reqs)
    BY <2>1
  <2>3. Round \in Rounds
    BY <2>1, <2>2 DEF Round
  <2> QED BY <2>2, <2>3 DEF Know, Round, Rounds
<1>3. Sound([me EXCEPT !.pc = "rs_row", !.leg = Round.leg, !.said = t])
  <2> HIDE DEF Round
  <2> QED BY <1>1, <1>2 DEF Activity, Sound, Knows, PCs
<1>4. Sound([me EXCEPT !.pc = "gate", !.kids = View])
  BY <1>1, ViewType, HonestView DEF Activity, Sound, Knows, PCs
<1>5. Sound([me EXCEPT !.pc = "fin", !.want = Finalize("abort")])
  <2>1. Finalize("abort") \in Conts /\ Finalize("abort").kids = NoView
    BY RequestType, NoViewType DEF Finalize, Reasons
  <2> QED BY <1>1, <2>1, HonestNoView DEF Activity, Sound, Knows, PCs
<1>6. Sound([me EXCEPT !.pc = "answer"])
  BY <1>1, SoundAt DEF PCs
<1>7. verb \in {"retry", "continue", "abort", "answer"}
  BY DelegationAssumption
<1>8. \E r : Sound(r) /\ Goto(x, r)
  BY <1>3, <1>4, <1>5, <1>6, <1>7 DEF Human, me
<1> QED BY <1>8 DEF Advances, Goto

LEMMA DInvInit == Init => DInv
<1> SUFFICES ASSUME Init PROVE TypeOK /\ Know
  BY DEF DInv
<1>1. p \in [Actors -> Activity] /\ \A x \in Actors : Knows(row, p[x]) /\ p[x].pc # "attach"
  <2>1. Sound(Idle) /\ Sound(Advancing(P, FALSE))
    BY SoundIdle, SoundAdvancing DEF Jobs
  <2> HIDE DEF Idle, Advancing
  <2> QED BY <2>1 DEF Init, Sound
<1>2. cont \in Conts /\ Honest(row, cont.kids)
  BY NoContType, HonestNoView DEF Init
<1>3. reqs \in Seq(Rounds) /\ Len(reqs) = 0
  BY DEF Init
<1>4. TypeOK
  <2>1. row \in [Children -> States] /\ text \in [Legs -> Texts \cup {"none"}]
    BY DEF Init, States
  <2>2. mark \in [Jobs -> {"none", "started", "retry", "done", "blocked"}]
    BY DEF Init
  <2>3. evCont \in BOOLEAN /\ evFin \in BOOLEAN /\ evRefused \in BOOLEAN
    BY DEF Init
  <2>4. /\ plan \in Plans /\ resolved \in Nat /\ task \in {"planned", "awaiting", "blocked"}
        /\ tripped \in {"no", "time", "killed"} /\ crashes \in 0..MaxCrashes
    BY DelegationAssumption DEF Init
  <2> QED BY <1>1, <1>2, <1>3, <2>1, <2>2, <2>3, <2>4 DEF TypeOK, Rounds
<1>5. \A i \in 1..Len(reqs) : LegFailed(row, reqs[i].leg)
  BY <1>3
<1> QED BY <1>1, <1>2, <1>4, <1>5, Children \subseteq Actors DEF Know, At, Actors, Jobs

LEMMA NextKeeps ==
    ASSUME TypeOK, Know, [Next]_vars PROVE StoreStep /\ ActorsStep
<1>b. UNCHANGED row => RowGrows
  BY DEF RowGrows
<1>1. ASSUME NEW x \in Actors, Engine(x) PROVE StoreStep /\ ActorsStep
  BY <1>1, EngineStore, EngineAdvances, AdvancesKeeps
<1>2. ASSUME NEW c \in Children, Run(c) \/ Attach(c) PROVE StoreStep /\ ActorsStep
  BY <1>2, RunKeeps
<1>3. ASSUME NEW j \in Jobs, TickRetry(j) PROVE StoreStep /\ ActorsStep
  <2>1. Sound(Advancing(j, FALSE))
    BY SoundAdvancing
  <2> HIDE DEF Advancing
  <2>2. Advances(Tick)
    BY <1>3, <2>1 DEF TickRetry, Goto, Advances
  <2>3. UNCHANGED <<store, still, mark>>
    BY <1>3 DEF TickRetry
  <2> QED BY <2>2, <2>3, <1>b, StoreStill, AdvancesKeeps, KnowsStill DEF store
<1>4. ASSUME NEW x \in {Poller, Chat}, NEW verb \in Verbs, NEW t \in Texts, Human(x, verb, t)
      PROVE  StoreStep /\ ActorsStep
  <2>1. UNCHANGED <<store, still, mark>>
    BY <1>4 DEF Human
  <2> QED BY <1>4, <2>1, <1>b, HumanAdvances, StoreStill, AdvancesKeeps, KnowsStill DEF store
<1>5. ASSUME Expire PROVE StoreStep /\ ActorsStep
  <2>1. Sound([Resolving EXCEPT !.pc = "fin", !.want = Finalize("ttl")])
    <3>1. Sound(Idle) /\ Idle \in Activity
      BY SoundIdle, IdleType
    <3>2. Finalize("ttl") \in Conts /\ Finalize("ttl").kids = NoView
      BY RequestType, NoViewType DEF Finalize, Reasons
    <3> HIDE DEF Idle
    <3> QED BY <3>1, <3>2, HonestNoView DEF Resolving, Activity, Sound, Knows, PCs
  <2>2. Advances(Poller)
    BY <1>5, <2>1 DEF Expire, Goto, Advances
  <2>3. UNCHANGED <<store, still, mark>>
    BY <1>5 DEF Expire
  <2> QED BY <2>2, <2>3, <1>b, StoreStill, AdvancesKeeps, KnowsStill DEF store
<1>6. ASSUME Trip \/ Crash \/ UNCHANGED vars PROVE StoreStep /\ ActorsStep
  <2>1. UNCHANGED <<plan, store, mark>>
    BY <1>6 DEF Trip, Crash, vars, store
  <2>2. tripped' \in {"no", "time", "killed"} /\ crashes' \in 0..MaxCrashes
    BY <1>6, DelegationAssumption DEF Trip, Crash, vars, TypeOK
  <2>3. StoreStep
    BY <2>1, <2>2 DEF StoreStep, TypeOK, Know, store, RowMoves, Marks, Rounds
  <2>4. ActorsStep
    <3>1. CASE UNCHANGED p
      BY <3>1, <2>1, KnowsStill DEF ActorsStep, store
    <3>2. CASE p' = [x \in Actors |-> IF x = Chat THEN p[x] ELSE Idle]
      <4>1. Sound(Idle)
        BY SoundIdle
      <4> HIDE DEF Idle
      <4> QED BY <3>2, <4>1, <2>1, KnowsStill DEF ActorsStep, Sound, store
    <3> QED BY <1>6, <3>1, <3>2 DEF Trip, Crash, vars
  <2> QED BY <2>3, <2>4
<1> QED BY <1>1, <1>2, <1>3, <1>4, <1>5, <1>6 DEF Next

LEMMA DInvStep == DInv /\ [Next]_vars => DInv'
BY NextKeeps, StepsKeep DEF DInv

LEMMA DInvHolds == Spec => []DInv
BY DInvInit, DInvStep, PTL DEF Spec

\* The variables have their types.
THEOREM DelegationTypeCorrect == Spec => []TypeOK
BY DInvHolds, PTL DEF DInv

\* HonestSynthesis for any number of legs and attempts: the account that the
\* continuation of P gives of its legs is true when it is written, from a listing
\* that may be old, and stays true.
THEOREM SynthesisHonest == Spec => []HonestSynthesis
<1>1. DInv => HonestSynthesis
  BY DEF DInv, Know, Honest, HonestSynthesis
<1> QED BY <1>1, DInvHolds, PTL
-----------------------------------------------------------------------------
(* Which rows are inserted *)

\* Why attempt k of leg l may be queued: a first attempt without dependencies or
\* whose dependencies have succeeded, a retry of a failed attempt, or the
\* attempt a human asked for.
Due(l, k) ==
    \/ k = 0 /\ \A d \in plan.deps[l] : \E n \in Attempts : Succeeded(row[<<d, n>>])
    \/ \E n \in Attempts : /\ Failed(row[<<l, n>>])
                           /\ k = RetryCount(n) + 1 /\ k <= plan.retry[l]
    \/ k = Resume /\ LegFailed(row, l)

Inserts ==
    \/ UNCHANGED row
    \/ \E l \in Legs, k \in Attempts :
           /\ row[<<l, k>>] = "absent" /\ row' = [row EXCEPT ![<<l, k>>] = "active"]
           /\ Due(l, k)

LEMMA EnqueueInserts ==
    ASSUME TypeOK, NEW l \in Legs \cup {0}, NEW k \in Int, Enqueue(<<l, k>>),
           l \in Legs /\ k \in Attempts => Due(l, k)
    PROVE  Inserts
<1>1. row \in [Children -> States]
  BY DEF TypeOK
<1>2. CASE l \in Legs /\ k \in Attempts
  <2>1. <<l, k>> \in Children
    BY <1>2 DEF Children
  <2>2. CASE row[<<l, k>>] = "absent"
    BY <1>1, <1>2, <2>1, <2>2 DEF Enqueue, Inserts
  <2>3. CASE row[<<l, k>>] # "absent"
    <3>1. row' = row
      BY <1>1, <2>1, <2>3 DEF Enqueue
    <3> QED BY <3>1 DEF Inserts
  <2> QED BY <2>2, <2>3
<1>3. CASE ~(l \in Legs /\ k \in Attempts)
  <2>1. <<l, k>> \notin Children
    BY <1>3 DEF Children
  <2>2. row' = row
    BY <1>1, <2>1 DEF Enqueue
  <2> QED BY <2>2 DEF Inserts
<1> QED BY <1>2, <1>3

LEMMA EngineInserts ==
    ASSUME TypeOK, Know, NEW x \in Actors, Engine(x)
    PROVE  Inserts
<1> DEFINE me == p[x]
<1>a. /\ me.kids \in Views /\ Honest(row, me.kids)
      /\ me.leg \in Legs \cup {0} /\ LegFailed(row, me.leg)
  BY DEF TypeOK, Know, Knows, Activity
<1>b. \A l \in Legs : me.kids[l].k \in Attempts
  BY <1>a DEF Views
<1>c. Attempts \subseteq Int /\ 0 \in Attempts
  BY DelegationAssumption DEF Attempts, Resume
<1> HIDE DEF me
<1>1. ASSUME Spawn(x) PROVE Inserts
  <2>1. CASE UNCHANGED row
    BY <2>1 DEF Inserts
  <2>2. ASSUME NEW l \in First(ToSpawn), Enqueue(<<l, 0>>) PROVE Inserts
    <3>1. l \in Legs /\ plan.deps[l] = {}
      BY DEF First, ToSpawn
    <3>2. Due(l, 0)
      BY <3>1 DEF Due
    <3> QED BY <2>2, <3>1, <3>2, EnqueueInserts
  <2> QED BY <1>1, <2>1, <2>2 DEF Spawn
<1>2. ASSUME Retry(x) PROVE Inserts
  <2>1. CASE UNCHANGED row
    BY <2>1 DEF Inserts
  <2>2. ASSUME NEW l \in First(Retriables(me)), Enqueue(<<l, RetryCount(me.kids[l].k) + 1>>)
        PROVE  Inserts
    <3>1. /\ l \in Legs /\ Failed(me.kids[l].st)
          /\ RetryCount(me.kids[l].k) < plan.retry[l]
      BY DEF First, Retriables, Retriable
    <3>2. Failed(row[<<l, me.kids[l].k>>])
      BY <1>a, <3>1 DEF Honest, Failed, Settled
    <3>3. RetryCount(me.kids[l].k) \in Int /\ plan.retry[l] \in Int
      <4>1. me.kids[l].k \in Int
        BY <1>b, <1>c, <3>1
      <4>2. plan.retry[l] \in 0..MaxRetry
        BY <3>1, PlanType
      <4> QED BY <4>1, <4>2, DelegationAssumption DEF RetryCount
    <3>4. Due(l, RetryCount(me.kids[l].k) + 1)
      <4> DEFINE n == me.kids[l].k
      <4>1. n \in Attempts /\ Failed(row[<<l, n>>])
        BY <1>b, <3>1, <3>2
      <4>2. RetryCount(n) + 1 <= plan.retry[l]
        BY <3>1, <3>3
      <4> HIDE DEF n
      <4>3. \E i \in Attempts : /\ Failed(row[<<l, i>>])
                                /\ RetryCount(n) + 1 = RetryCount(i) + 1
                                /\ RetryCount(n) + 1 <= plan.retry[l]
        BY <4>1, <4>2, Zenon
      <4>4. Due(l, RetryCount(n) + 1)
        BY <4>3 DEF Due
      <4> QED BY <4>4 DEF n
    <3> QED BY <2>2, <3>1, <3>3, <3>4, EnqueueInserts
  <2> QED BY <1>2, <2>1, <2>2 DEF Retry, me
<1>3. ASSUME Deps(x) PROVE Inserts
  <2>1. CASE UNCHANGED row
    BY <2>1 DEF Inserts
  <2>2. ASSUME NEW l \in First(Dependents(me)), Enqueue(<<l, 0>>) PROVE Inserts
    <3>1. l \in Legs /\ DepsSatisfied(me.kids, l)
      BY DEF First, Dependents
    <3>2. plan.deps[l] \subseteq Legs
      BY <3>1, PlanType
    <3>3. ASSUME NEW d \in plan.deps[l] PROVE \E n \in Attempts : Succeeded(row[<<d, n>>])
      <4>1. Succeeded(me.kids[d].st) /\ d \in Legs
        BY <3>1, <3>2 DEF DepsSatisfied
      <4>2. row[<<d, me.kids[d].k>>] = me.kids[d].st
        BY <1>a, <4>1 DEF Honest, Settled, Succeeded
      <4> QED BY <1>b, <4>1, <4>2
    <3>4. Due(l, 0)
      BY <3>3 DEF Due
    <3> QED BY <2>2, <3>1, <3>4, EnqueueInserts
  <2> QED BY <1>3, <2>1, <2>2 DEF Deps, me
<1>4. ASSUME ResumeRow(x) PROVE Inserts
  <2>1. CASE UNCHANGED row
    BY <2>1 DEF Inserts
  <2>2. CASE Enqueue(<<me.leg, Resume>>)
    <3>1. Due(me.leg, Resume)
      BY <1>a DEF Due
    <3> QED BY <2>2, <3>1, <1>a, EnqueueInserts DEF Resume
  <2> QED BY <1>4, <2>1, <2>2 DEF ResumeRow, me
<1>5. ASSUME Engine(x), ~Spawn(x), ~Retry(x), ~Deps(x), ~ResumeRow(x) PROVE UNCHANGED row
  BY <1>5 DEF Engine, AdvanceJob, Ask, AskRequest, AfterAdvance, Dispatch, Events, Pause,
              PauseRequest, RequestRound, Reread, Gate, AnswerGate, Continue, Correct,
              EnqueueContinuation, ContinueEvent, FinalizeGuard, FinalizeEnqueue, FinalizeEvent,
              ResumeTask, ResumeDone, Block, MarkDone, MarkBlocked, store
<1> QED BY <1>1, <1>2, <1>3, <1>4, <1>5 DEF Inserts

\* Every step inserts at most one row, that was due, or moves rows that are there.
LEMMA RowsStep ==
    ASSUME TypeOK, Know, [Next]_vars
    PROVE  /\ plan' = plan /\ RowMoves /\ row' \in [Children -> States]
           /\ Inserts \/ \A c \in Children : row[c] = "absent" => row'[c] = "absent"
<1>1. StoreStep
  BY NextKeeps
<1>2. plan' = plan /\ RowMoves /\ row' \in [Children -> States]
  BY <1>1 DEF StoreStep
<1>3. ASSUME NEW x \in Actors, Engine(x) PROVE Inserts
  BY <1>3, EngineInserts
<1>4. ASSUME NEW c \in Children, Run(c) \/ Attach(c)
      PROVE  \A d \in Children : row[d] = "absent" => row'[d] = "absent"
  <2>1. row[c] # "absent"
    BY <1>4 DEF Run, Deliver, TimeOut, DeliveryFail, Attach, Know
  <2>2. \E st : row' = [row EXCEPT ![c] = st]
    BY <1>4 DEF Run, Deliver, TimeOut, DeliveryFail, Attach
  <2> QED BY <2>1, <2>2 DEF TypeOK
<1>5. ASSUME \/ \E j \in Jobs : TickRetry(j)
             \/ \E x \in {Poller, Chat}, verb \in Verbs, t \in Texts : Human(x, verb, t)
             \/ Expire \/ Trip \/ Crash \/ UNCHANGED vars
      PROVE  UNCHANGED row
  BY <1>5 DEF TickRetry, Human, Expire, Trip, Crash, vars, store
<1> QED BY <1>2, <1>3, <1>4, <1>5 DEF Next, Inserts
-----------------------------------------------------------------------------
(* Dependencies first *)

LEMMA DepsFirstStep == DInv /\ DepsFirst /\ [Next]_vars => DepsFirst'
<1> SUFFICES ASSUME TypeOK, Know, DepsFirst, [Next]_vars,
                    NEW l \in Legs, NEW k \in Attempts, row'[<<l, k>>] # "absent",
                    NEW d \in plan'.deps[l]
             PROVE  \E n \in Attempts : Succeeded(row'[<<d, n>>])
  BY DEF DInv, DepsFirst
<1>1. plan' = plan /\ RowMoves
  BY RowsStep
<1>2. d \in Legs
  BY <1>1, PlanType
<1>3. \E n \in Attempts : Succeeded(row[<<d, n>>])
  <2>1. CASE \E n \in Attempts : row[<<l, n>>] # "absent"
    BY <2>1, <1>1 DEF DepsFirst
  <2>2. CASE \A n \in Attempts : row[<<l, n>>] = "absent"
    <3>1. <<l, k>> \in Children
      BY DEF Children
    <3>2. row[<<l, k>>] = "absent" /\ row'[<<l, k>>] # row[<<l, k>>]
      BY <2>2
    <3>3. PICK m \in Legs, n \in Attempts :
             row' = [row EXCEPT ![<<m, n>>] = "active"] /\ Due(m, n)
      BY <3>1, <3>2, RowsStep DEF Inserts
    <3>4. m = l /\ n = k
      BY <3>1, <3>2, <3>3 DEF TypeOK
    <3>5. \A i \in Attempts : ~Failed(row[<<l, i>>])
      BY <2>2 DEF Failed
    <3>6. ~LegFailed(row, l)
      BY <3>5, DelegationAssumption, l # 0 DEF LegFailed, Legs
    <3> QED BY <3>3, <3>4, <3>5, <3>6, <1>1 DEF Due
  <2> QED BY <2>1, <2>2
<1>4. PICK n \in Attempts : Succeeded(row[<<d, n>>])
  BY <1>3
<1>5. <<d, n>> \in Children
  BY <1>2 DEF Children
<1>6. Succeeded(row'[<<d, n>>])
  BY <1>1, <1>4, <1>5 DEF RowMoves, Succeeded
<1> QED BY <1>6

\* DepsFirst for any plan: no leg is queued, dependent, retry or resumed leg, of
\* which a dependency has no attempt that succeeded, whatever the listing its
\* advancement works from has missed.
THEOREM DependenciesFirst == Spec => []DepsFirst
<1>1. Init => DepsFirst
  <2> SUFFICES ASSUME Init PROVE \A l \in Legs, k \in Attempts : row[<<l, k>>] = "absent"
    BY DEF DepsFirst
  <2> QED BY DEF Init, Children
<1> QED BY <1>1, DepsFirstStep, DInvHolds, PTL DEF Spec
-----------------------------------------------------------------------------
(* One attempt at a time *)

\* Attempt k comes before attempt n.
Precedes(k, n) == k >= 0 /\ (k < n \/ (k = 0 /\ n = Resume))

\* An attempt is queued when those before it have failed; retries stay within the
\* plan, and only a leg whose failures go to a human is resumed.
AttemptInv ==
    \A l \in Legs, n \in Attempts : row[<<l, n>>] # "absent" =>
        /\ \A k \in Attempts : Precedes(k, n) => Failed(row[<<l, k>>])
        /\ n > 0 => n <= plan.retry[l]
        /\ n = Resume => plan.policy[l] = "escalate_human"

\* A leg is retried by the engine or by a human, not by both.
OneRetrier ==
    "retry" \in Verbs =>
        \A q \in Plans, l \in Legs : q.policy[l] = "escalate_human" => q.retry[l] = 0

LEMMA AttemptInvStep ==
    ASSUME OneRetrier PROVE DInv /\ AttemptInv /\ [Next]_vars => AttemptInv'
<1> SUFFICES ASSUME TypeOK, Know, AttemptInv, [Next]_vars,
                    NEW l \in Legs, NEW n \in Attempts, row'[<<l, n>>] # "absent"
             PROVE  /\ \A k \in Attempts : Precedes(k, n) => Failed(row'[<<l, k>>])
                    /\ n > 0 => n <= plan'.retry[l]
                    /\ n = Resume => plan'.policy[l] = "escalate_human"
  BY DEF DInv, AttemptInv
<1>a. Attempts \subseteq Int /\ \A k \in Attempts : k >= 0 \/ k = Resume
  BY DelegationAssumption DEF Attempts, Resume
<1>b. \A k \in Attempts : <<l, k>> \in Children
  BY DEF Children
<1>c. plan' = plan /\ RowMoves
  BY RowsStep
<1>d. \A k \in Attempts : Failed(row[<<l, k>>]) => Failed(row'[<<l, k>>])
  BY <1>b, <1>c DEF RowMoves, Failed
<1>e. l # 0
  BY DelegationAssumption DEF Legs
<1>1. CASE row[<<l, n>>] # "absent"
  BY <1>1, <1>c, <1>d DEF AttemptInv
<1>2. CASE row[<<l, n>>] = "absent"
  <2>1. PICK m \in Legs, i \in Attempts :
          row' = [row EXCEPT ![<<m, i>>] = "active"] /\ Due(m, i)
    BY <1>2, <1>b, RowsStep DEF Inserts
  <2>2. m = l /\ i = n
    BY <1>2, <1>b, <2>1 DEF TypeOK
  <2>3. CASE n = 0
    BY <2>3, <1>a DEF Precedes, Resume
  <2>4. CASE \E k \in Attempts : /\ Failed(row[<<l, k>>])
                                 /\ n = RetryCount(k) + 1 /\ n <= plan.retry[l]
    <3>1. PICK k \in Attempts : /\ Failed(row[<<l, k>>])
                                /\ n = RetryCount(k) + 1 /\ n <= plan.retry[l]
      BY <2>4
    <3>2. k # Resume
      <4> SUFFICES ASSUME k = Resume PROVE FALSE
        OBVIOUS
      <4>1. "retry" \in Verbs
        BY DelegationAssumption DEF Attempts, Resume
      <4>2. row[<<l, k>>] # "absent"
        BY <3>1 DEF Failed
      <4>3. plan.policy[l] = "escalate_human"
        BY <4>2 DEF AttemptInv
      <4>4. plan.retry[l] = 0
        BY <4>1, <4>3 DEF OneRetrier, TypeOK
      <4> QED BY <3>1, <4>4 DEF RetryCount
    <3>3. k >= 0 /\ n = k + 1
      BY <3>1, <3>2, <1>a DEF RetryCount
    <3>4. row[<<l, k>>] # "absent"
      BY <3>1 DEF Failed
    <3>5. ASSUME NEW j \in Attempts, Precedes(j, n) PROVE Failed(row[<<l, j>>])
      <4>1. j = k \/ Precedes(j, k)
        BY <3>3, <3>5, <1>a DEF Precedes, Resume
      <4> QED BY <4>1, <3>1, <3>4 DEF AttemptInv
    <3>6. n # Resume
      BY <3>3, <1>a DEF Resume
    <3> QED BY <3>1, <3>5, <3>6, <1>c, <1>d
  <2>5. CASE n = Resume /\ LegFailed(row, l)
    <3>1. PICK k \in Attempts : Failed(row[<<l, k>>])
      BY <2>5, <1>e DEF LegFailed
    <3>2. row[<<l, k>>] # "absent" /\ k # n
      BY <1>2, <3>1 DEF Failed
    <3>3. k = 0 \/ Precedes(0, k)
      BY <3>2, <2>5, <1>a DEF Precedes
    <3>4. 0 \in Attempts
      BY DelegationAssumption DEF Attempts
    <3>5. Failed(row[<<l, 0>>])
      BY <3>1, <3>2, <3>3, <3>4 DEF AttemptInv
    <3>6. \A j \in Attempts : Precedes(j, n) => j = 0
      BY <2>5, <1>a DEF Precedes, Resume
    <3>7. plan.policy[l] = "escalate_human" /\ ~(n > 0)
      BY <2>5, <1>e DEF LegFailed, Resume
    <3> QED BY <3>5, <3>6, <3>7, <1>c, <1>d
  <2> QED BY <2>1, <2>2, <2>3, <2>4, <2>5 DEF Due
<1> QED BY <1>1, <1>2

LEMMA AttemptInvHolds == ASSUME OneRetrier PROVE Spec => [](DInv /\ AttemptInv)
<1>1. Init => AttemptInv
  <2> SUFFICES ASSUME Init PROVE \A l \in Legs, k \in Attempts : row[<<l, k>>] = "absent"
    BY DEF AttemptInv
  <2> QED BY DEF Init, Children
<1>2. DInv /\ AttemptInv /\ [Next]_vars => AttemptInv'
  BY AttemptInvStep
<1> QED BY <1>1, <1>2, DInvHolds, PTL DEF Spec

\* OneActiveAttempt where a leg has one retrier: either no human retries, or the
\* legs whose failures go to a human have no automatic retries.  No leg then runs
\* twice at a time, however many workers and ticks advance the DAG.
THEOREM AttemptsAlone ==
    ASSUME OneRetrier PROVE Spec => []OneActiveAttempt
<1>1. DInv /\ AttemptInv => OneActiveAttempt
  <2> SUFFICES ASSUME DInv, AttemptInv, NEW l \in Legs, NEW k \in Attempts, NEW n \in Attempts,
                      row[<<l, k>>] = "active", row[<<l, n>>] = "active", k # n
               PROVE  FALSE
    BY DEF OneActiveAttempt
  <2>1. k \in Int /\ n \in Int /\ (k >= 0 \/ k = Resume) /\ (n >= 0 \/ n = Resume)
    BY DelegationAssumption DEF Attempts, Resume
  <2>2. ~Precedes(k, n) /\ ~Precedes(n, k)
    BY DEF AttemptInv, Failed
  <2>3. (k = Resume /\ n > 0) \/ (n = Resume /\ k > 0)
    BY <2>1, <2>2 DEF Precedes, Resume
  <2>4. Resume \in Attempts
    BY <2>3
  <2>5. "retry" \in Verbs
    BY <2>4, DelegationAssumption DEF Attempts, Resume
  <2>6. plan.policy[l] = "escalate_human" /\ plan.retry[l] > 0
    <3>1. /\ plan.policy[l] = "escalate_human"
          /\ \/ n > 0 /\ n <= plan.retry[l]
             \/ k > 0 /\ k <= plan.retry[l]
      BY <2>3 DEF AttemptInv
    <3>2. plan.retry[l] \in Int
      BY PlanType DEF DInv
    <3> QED BY <3>1, <3>2, <2>1
  <2>7. plan.retry[l] = 0
    BY <2>5, <2>6 DEF OneRetrier, DInv, TypeOK
  <2> QED BY <2>6, <2>7
<1> QED BY <1>1, AttemptInvHolds, PTL
=============================================================================
