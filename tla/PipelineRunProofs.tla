------------------------- MODULE PipelineRunProofs -------------------------
(***************************************************************************)
(* Proofs about PipelineRun, for every set of specs, any number of runs,   *)
(* stages, attempts, crashes, resumes and cancels, and with `pipeline run` *)
(* and the daemon's scan creating and advancing runs at the same time.     *)
(***************************************************************************)
EXTENDS PipelineRun, TLAPS

-----------------------------------------------------------------------------
(* The inductive invariant *)

ProcRec == [pc: PCs, run: Runs, at: 1..(NStages + 1), view: [Stages -> Rows],
            todo: SUBSET Runs, out: Rows, set: SUBSET Stages]
RunRec == [state: RunStates, halt: 0..NStages,
           trigger: {"none", "schedule", "manual", "pipeline"}, from: 0..MaxUps]
SpecOK(q) ==
    \A s \in Stages :
        /\ q.source[s] # 0 => q.source[s] \in q.needs[s]
        /\ q.kind[s] \in Jobless => q.source[s] # 0
        /\ q.source[s] # 0 => q.kind[q.source[s]] = "implement"

\* A job that was never minted has no decision; only a coordinator that may
\* still be continued returns delegations.
JobInv ==
    \A r \in Runs, s \in Stages, a \in Attempts :
        /\ job[r][s][a].st = "none" => job[r][s][a].dec = "failed"
        /\ job[r][s][a].more => job[r][s][a].gen < MaxGen /\ spec.kind[s] = "orchestrate"

\* What a process knows of the stage it is at.
OnStage == {"stages", "merge", "merged", "enqueued", "mark"}
ProcOK(me) ==
    /\ me.pc \in OnStage => me.at \in Stages
    /\ me.pc \in {"merge", "merged"} => spec.kind[me.at] = "auto"
    /\ me.pc = "reset" => \A s \in me.set : me.view[s].attempt < MaxAttempt
ProcInv == \A p \in Procs : ProcOK(proc[p])

Base == TypeOK /\ JobInv /\ ProcInv

\* Between two stages of a pass
Quiet == {"fold", "enqueue", "skip", "settle", "idle", "list"}

\* The bounds, and the values rows, jobs and processes start from.
LEMMA Constants ==
    /\ NStages \in Nat /\ NStages > 0 /\ MaxAttempt \in Nat /\ MaxGen \in Nat /\ MaxGen > 0
    /\ MaxUps \in Nat /\ MaxRuns \in Nat /\ MaxRuns > 0
    /\ 1 \in Stages /\ 1 \in Runs /\ Stages \subseteq 1..(NStages + 1)
    /\ NoRow \in Rows /\ Pending \in Rows /\ NoJob \in JobRows /\ Idle \in ProcRec
<1>1. /\ NStages \in Nat /\ NStages > 0 /\ MaxAttempt \in Nat /\ MaxGen \in Nat /\ MaxGen > 0
      /\ MaxUps \in Nat /\ MaxRuns \in Nat /\ MaxRuns > 0
  BY PipelineAssumption
<1>2. 1 \in Stages /\ 1 \in Runs /\ Stages \subseteq 1..(NStages + 1)
  BY <1>1 DEF Stages, Runs
<1>3. 0 \in Attempts /\ 0 \in 0..MaxGen
  BY <1>1 DEF Attempts
<1>4. NoRow \in Rows /\ Pending \in Rows
  <2>1. NoRow \in Rows
    BY <1>3 DEF NoRow, Rows, StageStates
  <2>2. Pending \in Rows
    BY <2>1 DEF Pending, Rows, StageStates
  <2> QED BY <2>1, <2>2
<1>5. NoJob \in JobRows
  BY <1>3 DEF NoJob, JobRows
<1>6. Idle \in ProcRec
  BY <1>1, <1>2, <1>4 DEF Idle, ProcRec, PCs
<1> QED BY <1>1, <1>2, <1>4, <1>5, <1>6

\* The shape of the spec of a behaviour.
LEMMA SpecFacts ==
    ASSUME TypeOK
    PROVE  /\ spec.kind \in [Stages -> Kinds] /\ spec.retry \in [Stages -> Attempts]
           /\ spec.needs \in [Stages -> SUBSET Stages]
           /\ spec.source \in [Stages -> Stages \cup {0}]
           /\ SpecOK(spec)
<1>1. spec \in AllSpecs
  BY PipelineAssumption DEF TypeOK
<1>2. SpecOK(spec)
  BY PipelineAssumption DEF TypeOK, SpecOK
<1> QED BY <1>1, <1>2 DEF AllSpecs

\* TypeOK with the record types by name.
LEMMA TypeParts ==
    TypeOK <=> /\ spec \in Specs /\ run \in [Runs -> RunRec]
               /\ row \in [Runs -> [Stages -> Rows]]
               /\ job \in [Runs -> [Stages -> [Attempts -> JobRows]]]
               /\ pr \in [Runs -> [Stages -> PRs]] /\ claim \in [Runs -> SUBSET Stages]
               /\ merges \in [Runs -> [Stages -> Nat]] /\ due \in BOOLEAN
               /\ up \in [1..MaxUps -> {"running", "parked", "succeeded"}]
               /\ cursor \in 0..MaxUps /\ resumes \in Nat /\ crashes \in Nat
               /\ proc \in [Procs -> ProcRec]
BY DEF TypeOK, RunRec, ProcRec

\* First picks from its set.
LEMMA FirstIn == \A S : First(S) \subseteq S
BY DEF First

-----------------------------------------------------------------------------
(* What a pass does next keeps its run and its view, or forgets them *)

\* The end of a pass forgets its view.
LEMMA PassDoneType ==
    ASSUME NEW me \in ProcRec
    PROVE  /\ PassDone(me) \in ProcRec /\ PassDone(me).pc \in Quiet
           /\ PassDone(me).view = Idle.view
BY Constants DEF PassDone, ProcRec, Quiet, PCs, Idle

\* Going on to the next skip keeps run and view.
LEMMA SkipNextType ==
    ASSUME NEW me \in ProcRec
    PROVE  /\ SkipNext(me) \in ProcRec /\ SkipNext(me).pc \in Quiet
           /\ SkipNext(me).view = me.view /\ SkipNext(me).run = me.run
BY Constants DEF SkipNext, ProcRec, Quiet, PCs

\* Going on to the next stage to enqueue keeps run and view, or ends the pass.
LEMMA EnqueueNextType ==
    ASSUME NEW me \in ProcRec
    PROVE  /\ EnqueueNext(me) \in ProcRec /\ EnqueueNext(me).pc \in Quiet
           /\ \/ EnqueueNext(me).view = me.view /\ EnqueueNext(me).run = me.run
              \/ EnqueueNext(me).view = Idle.view
<1>1. CASE Ready(me) # {}
  <2>1. EnqueueNext(me) = [me EXCEPT !.pc = "enqueue"]
    BY <1>1 DEF EnqueueNext
  <2> QED BY <2>1 DEF ProcRec, Quiet, PCs
<1>2. CASE Ready(me) = {} /\ \E s \in Stages : InFlight(me.view[s])
  BY <1>2, PassDoneType DEF EnqueueNext
<1>3. CASE Ready(me) = {} /\ ~\E s \in Stages : InFlight(me.view[s])
  BY <1>3, SkipNextType DEF EnqueueNext
<1> QED BY <1>1, <1>2, <1>3

\* Going on to the next stage to fold keeps run and view, or ends the pass.
LEMMA FoldNextType ==
    ASSUME NEW me \in ProcRec
    PROVE  /\ FoldNext(me) \in ProcRec /\ FoldNext(me).pc \in Quiet
           /\ \/ FoldNext(me).view = me.view /\ FoldNext(me).run = me.run
              \/ FoldNext(me).view = Idle.view
<1>1. CASE Open(me) # {}
  <2>1. FoldNext(me) = [me EXCEPT !.pc = "fold"]
    BY <1>1 DEF FoldNext
  <2> QED BY <2>1 DEF ProcRec, Quiet, PCs
<1>2. CASE Open(me) = {}
  <2>1. [me EXCEPT !.at = 1] \in ProcRec
    BY Constants DEF ProcRec
  <2>2. FoldNext(me) = EnqueueNext([me EXCEPT !.at = 1])
    BY <1>2 DEF FoldNext
  <2>3. [me EXCEPT !.at = 1].view = me.view /\ [me EXCEPT !.at = 1].run = me.run
    BY DEF ProcRec
  <2> QED BY <2>1, <2>2, <2>3, EnqueueNextType
<1> QED BY <1>1, <1>2

\* What a pass has seen goes into its view.
LEMMA SawType ==
    ASSUME NEW me \in ProcRec, NEW s \in Stages, NEW x \in Rows
    PROVE  /\ Saw(me, s, x) \in ProcRec
           /\ Saw(me, s, x).view = [me.view EXCEPT ![s] = x] /\ Saw(me, s, x).run = me.run
<1>1. s + 1 \in 1..(NStages + 1)
  BY Constants DEF Stages
<1>2. NoRow \in Rows
  BY Constants
<1>3. [me.view EXCEPT ![s] = x] \in [Stages -> Rows]
  BY DEF ProcRec
<1>4. Saw(me, s, x) = [me EXCEPT !.at = s + 1, !.view = [me.view EXCEPT ![s] = x], !.out = NoRow]
  BY DEF Saw, ProcRec
<1> QED BY <1>1, <1>2, <1>3, <1>4 DEF ProcRec
-----------------------------------------------------------------------------
(* The rows a pass writes *)

\* The row of a settled stage has its type: a retry stays within the bound.
LEMMA EndedType ==
    ASSUME TypeOK, NEW s \in Stages, NEW x \in Rows,
           NEW st \in {"succeeded", "blocked", "failed"}
    PROVE  Ended(s, x, st) \in Rows
<1>1. spec.retry[s] \in 0..MaxAttempt /\ x.attempt \in 0..MaxAttempt
  BY SpecFacts DEF Attempts, Rows
<1>2. st = "failed" /\ x.attempt < spec.retry[s] => x.attempt + 1 \in Attempts
  BY <1>1, Constants DEF Attempts
<1>3. \A a \in Attempts : [Pending EXCEPT !.attempt = a] \in Rows
  BY Constants DEF Rows
<1>4. [x EXCEPT !.state = st] \in Rows
  BY DEF Rows, StageStates
<1> QED BY <1>2, <1>3, <1>4 DEF Ended

\* A job folds to one of three states.
LEMMA FoldOutcomeType ==
    ASSUME NEW j \in JobRows
    PROVE  FoldOutcome(j) \in {"succeeded", "blocked", "failed"}
BY DEF FoldOutcome, JobRows

\* Reflecting a start changes neither the generation nor a success.
LEMMA ReflectType ==
    ASSUME NEW x \in Rows
    PROVE  /\ Reflect(x) \in Rows /\ Reflect(x).gen = x.gen
           /\ Reflect(x).state = "succeeded" => x.state = "succeeded"
BY DEF Reflect, Rows, StageStates

\* A fold yields a row.
LEMMA JobOutcomeType ==
    ASSUME TypeOK, NEW r \in Runs, NEW s \in Stages, NEW x \in Rows
    PROVE  JobOutcome(r, s, x) \in Rows
<1> DEFINE j == job[r][s][x.attempt]
<1>1. x.attempt \in Attempts /\ x.gen \in 0..MaxGen
  BY DEF Rows
<1>2. j \in JobRows
  BY <1>1 DEF TypeOK
<1>3. ASSUME x.gen < j.gen PROVE [Reflect(x) EXCEPT !.gen = @ + 1] \in Rows
  <2>1. x.gen + 1 \in 0..MaxGen
    BY <1>1, <1>2, <1>3, Constants DEF JobRows
  <2> QED BY <2>1, ReflectType DEF Rows
<1>4. Ended(s, x, FoldOutcome(j)) \in Rows
  BY <1>2, EndedType, FoldOutcomeType
<1> HIDE DEF j
<1>5. JobOutcome(r, s, x) \in {x, [Reflect(x) EXCEPT !.gen = @ + 1], Reflect(x),
                               Ended(s, x, FoldOutcome(j))}
      /\ (JobOutcome(r, s, x) = [Reflect(x) EXCEPT !.gen = @ + 1] =>
            x.gen < j.gen \/ JobOutcome(r, s, x) \in {x, Reflect(x), Ended(s, x, FoldOutcome(j))})
  BY DEF JobOutcome, j
<1> QED BY <1>3, <1>4, <1>5, ReflectType

\* A waiting gate is not a success.
LEMMA WaitingType ==
    ASSUME NEW x \in Rows
    PROVE  Waiting(x) \in Rows /\ Waiting(x).state # "succeeded"
BY DEF Waiting, Rows, StageStates

\* The answers of an auto-merge gate.
LEMMA AutoOutcomeType ==
    ASSUME NEW r, NEW s, NEW ci
    PROVE  AutoOutcome(r, s, ci) \in {"wait", "blocked", "succeeded", "claim"}
BY DEF AutoOutcome, Evaluate

\* The answers of a gate.
LEMMA GateOutcomeType ==
    ASSUME NEW r, NEW s
    PROVE  GateOutcome(r, s) \in {"wait", "blocked", "succeeded"}
BY DEF GateOutcome
-----------------------------------------------------------------------------
(* Types *)

\* A process moves to a well-formed place.
LEMMA MoveType ==
    ASSUME TypeOK, ProcInv, spec' = spec, NEW p \in Procs, NEW me \in ProcRec, ProcOK(me),
           Move(p, me)
    PROVE  proc' \in [Procs -> ProcRec] /\ ProcInv'
<1>1. proc \in [Procs -> ProcRec]
  BY TypeParts
<1>2. proc' = [proc EXCEPT ![p] = me]
  BY DEF Move
<1>3. \A q \in Procs : proc'[q] = IF q = p THEN me ELSE proc[q]
  BY <1>1, <1>2
<1>4. ProcInv'
  BY <1>3 DEF ProcInv, ProcOK
<1> QED BY <1>1, <1>2, <1>4

\* A process between two stages has nothing to know.
LEMMA QuietOK == ASSUME NEW me, me.pc \notin OnStage, me.pc # "reset" PROVE ProcOK(me)
BY DEF ProcOK, OnStage

\* Put changes one row at most.
LEMMA PutType ==
    ASSUME TypeOK, NEW p \in Procs, NEW s \in Stages, NEW x \in Rows, Put(p, s, x)
    PROVE  /\ row' \in [Runs -> [Stages -> Rows]]
           /\ \A r \in Runs, t \in Stages :
                 row'[r][t] = row[r][t] \/ (r = proc[p].run /\ t = s /\ row'[r][t] = x)
<1>1. row \in [Runs -> [Stages -> Rows]] /\ proc[p].run \in Runs
  BY TypeParts DEF ProcRec
<1> QED BY <1>1 DEF Put

\* What a pass does after it has seen a row is well-formed.
LEMMA SeeType ==
    ASSUME TypeOK, NEW p \in Procs, NEW s \in Stages, NEW x \in Rows
    PROVE  LET me == Saw(proc[p], s, x)
           IN  /\ FoldNext(me) \in ProcRec /\ ProcOK(FoldNext(me))
               /\ EnqueueNext(me) \in ProcRec /\ ProcOK(EnqueueNext(me))
               /\ SkipNext(me) \in ProcRec /\ ProcOK(SkipNext(me))
<1> DEFINE me == Saw(proc[p], s, x)
<1>1. me \in ProcRec
  BY SawType, TypeParts
<1> HIDE DEF me
<1>2. \A y : y.pc \in Quiet => ProcOK(y)
  BY DEF Quiet, ProcOK, OnStage
<1>3. FoldNext(me) \in ProcRec /\ ProcOK(FoldNext(me))
  BY <1>1, <1>2, FoldNextType
<1>4. EnqueueNext(me) \in ProcRec /\ ProcOK(EnqueueNext(me))
  BY <1>1, <1>2, EnqueueNextType
<1>5. SkipNext(me) \in ProcRec /\ ProcOK(SkipNext(me))
  BY <1>1, <1>2, SkipNextType
<1> QED BY <1>3, <1>4, <1>5 DEF me

\* Every step keeps the types and what a process knows of its stage.
LEMMA TypeStep == Base /\ [Next]_vars => TypeOK' /\ ProcInv'
<1> SUFFICES ASSUME Base, [Next]_vars PROVE TypeOK' /\ ProcInv'
  OBVIOUS
<1>b. TypeOK /\ JobInv /\ ProcInv
  BY DEF Base
<1>t. /\ spec \in Specs /\ run \in [Runs -> RunRec]
      /\ row \in [Runs -> [Stages -> Rows]]
      /\ job \in [Runs -> [Stages -> [Attempts -> JobRows]]]
      /\ pr \in [Runs -> [Stages -> PRs]] /\ claim \in [Runs -> SUBSET Stages]
      /\ merges \in [Runs -> [Stages -> Nat]] /\ due \in BOOLEAN
      /\ up \in [1..MaxUps -> {"running", "parked", "succeeded"}]
      /\ cursor \in 0..MaxUps /\ resumes \in Nat /\ crashes \in Nat
      /\ proc \in [Procs -> ProcRec]
  BY <1>b, TypeParts
<1>goal. SUFFICES
      /\ spec' \in Specs /\ run' \in [Runs -> RunRec]
      /\ row' \in [Runs -> [Stages -> Rows]]
      /\ job' \in [Runs -> [Stages -> [Attempts -> JobRows]]]
      /\ pr' \in [Runs -> [Stages -> PRs]] /\ claim' \in [Runs -> SUBSET Stages]
      /\ merges' \in [Runs -> [Stages -> Nat]] /\ due' \in BOOLEAN
      /\ up' \in [1..MaxUps -> {"running", "parked", "succeeded"}]
      /\ cursor' \in 0..MaxUps /\ resumes' \in Nat /\ crashes' \in Nat
      /\ proc' \in [Procs -> ProcRec] /\ ProcInv'
  BY DEF TypeOK, RunRec, ProcRec
<1> DEFINE Goal ==
      /\ spec' \in Specs /\ run' \in [Runs -> RunRec]
      /\ row' \in [Runs -> [Stages -> Rows]]
      /\ job' \in [Runs -> [Stages -> [Attempts -> JobRows]]]
      /\ pr' \in [Runs -> [Stages -> PRs]] /\ claim' \in [Runs -> SUBSET Stages]
      /\ merges' \in [Runs -> [Stages -> Nat]] /\ due' \in BOOLEAN
      /\ up' \in [1..MaxUps -> {"running", "parked", "succeeded"}]
      /\ cursor' \in 0..MaxUps /\ resumes' \in Nat /\ crashes' \in Nat
      /\ proc' \in [Procs -> ProcRec] /\ ProcInv'
<1>i. \A pc \in {"create", "trigger", "idle", "due"} :
          [Idle EXCEPT !.pc = pc] \in ProcRec /\ ProcOK([Idle EXCEPT !.pc = pc])
  <2> SUFFICES ASSUME NEW pc \in {"create", "trigger", "idle", "due"}
               PROVE [Idle EXCEPT !.pc = pc] \in ProcRec /\ ProcOK([Idle EXCEPT !.pc = pc])
    OBVIOUS
  <2>1. [Idle EXCEPT !.pc = pc] \in ProcRec
    BY Constants DEF ProcRec, PCs
  <2>2. [Idle EXCEPT !.pc = pc].pc = pc
    BY DEF Idle
  <2> QED BY <2>1, <2>2, QuietOK DEF OnStage
<1>j. Idle \in ProcRec /\ ProcOK(Idle)
  BY Constants DEF ProcOK, Idle, OnStage
<1>q. \A y : y.pc \in Quiet => ProcOK(y)
  BY DEF Quiet, ProcOK, OnStage
<1>d. Daemon \in Procs /\ Cli \in Procs /\ Oper \in Procs
  BY DEF Procs
<1>1. ASSUME NEW p \in Procs, Check(p) PROVE Goal
  <2>1. spec' = spec /\ (Move(p, [Idle EXCEPT !.pc = "create"]) \/ Move(p, [Idle EXCEPT !.pc = "trigger"]))
    BY <1>1 DEF Check
  <2>2. proc' \in [Procs -> ProcRec] /\ ProcInv'
    BY <2>1, <1>b, <1>i, MoveType
  <2> QED BY <1>1, <1>t, <2>2 DEF Check
<1>2. ASSUME NEW p \in Procs, CreateRun(p) PROVE Goal
  <2>1. PICK r \in Fresh :
            /\ run' = [run EXCEPT ![r] = New(IF p = Daemon THEN "schedule" ELSE "manual", 0)]
            /\ Move(p, [Idle EXCEPT !.pc = "stages", !.run = r])
    BY <1>2 DEF CreateRun
  <2>2. r \in Runs
    BY <2>1 DEF Fresh
  <2>3. New(IF p = Daemon THEN "schedule" ELSE "manual", 0) \in RunRec
    BY Constants DEF New, RunRec, RunStates
  <2>4. [Idle EXCEPT !.pc = "stages", !.run = r] \in ProcRec
    BY <2>2, Constants DEF ProcRec, PCs
  <2>5. ProcOK([Idle EXCEPT !.pc = "stages", !.run = r])
    BY Constants DEF ProcOK, Idle, OnStage
  <2>6. proc' \in [Procs -> ProcRec] /\ ProcInv'
    BY <1>2, <2>1, <2>4, <2>5, <1>b, MoveType DEF CreateRun
  <2> QED BY <1>2, <1>t, <2>1, <2>2, <2>3, <2>6 DEF CreateRun
<1>3. ASSUME NEW p \in Procs, CreateStage(p) PROVE Goal
  <2> DEFINE me == proc[p]
             me1 == IF me.at < NStages THEN [me EXCEPT !.at = @ + 1]
                    ELSE [me EXCEPT !.pc = IF p = Daemon THEN "due" ELSE "list",
                                    !.at = 1, !.todo = IF p = Daemon THEN {} ELSE {me.run}]
  <2>1. me \in ProcRec /\ me.at \in Stages /\ me.pc = "stages" /\ me.run \in Runs
    BY <1>3, <1>b, <1>t DEF CreateStage, ProcInv, ProcOK, OnStage, ProcRec
  <2>2. row' = [row EXCEPT ![me.run][me.at] = Pending] /\ Move(p, me1) /\ spec' = spec
    BY <1>3 DEF CreateStage
  <2>3. me.at < NStages => me.at + 1 \in Stages /\ me.at + 1 \in 1..(NStages + 1)
    BY <2>1, Constants DEF Stages
  <2>4. me1 \in ProcRec
    BY <2>1, <2>3, Constants DEF ProcRec, PCs
  <2>5. ProcOK(me1)
    <3>1. CASE me.at < NStages
      BY <3>1, <2>1, <2>3 DEF ProcOK, OnStage, ProcRec
    <3>2. CASE ~(me.at < NStages)
      BY <3>2, <2>1 DEF ProcOK, OnStage, ProcRec
    <3> QED BY <3>1, <3>2
  <2> HIDE DEF me1
  <2>6. proc' \in [Procs -> ProcRec] /\ ProcInv'
    BY <2>2, <2>4, <2>5, <1>b, MoveType
  <2>7. row' \in [Runs -> [Stages -> Rows]]
    BY <2>1, <2>2, <1>t, Constants
  <2> QED BY <1>3, <1>t, <2>6, <2>7 DEF CreateStage
<1>4. ASSUME NEW p \in Procs, NextDue(p) PROVE Goal
  <2>1. proc' \in [Procs -> ProcRec] /\ ProcInv'
    BY <1>4, <1>b, <1>i, MoveType DEF NextDue
  <2> QED BY <1>4, <1>t, <2>1 DEF NextDue
<1>5. ASSUME NEW p \in Procs, Trigger(p) PROVE Goal
  <2> DEFINE me1 == [Idle EXCEPT !.todo = {r \in Runs : run'[r].state = "running"}]
  <2>1. me1 \in ProcRec
    BY Constants DEF ProcRec
  <2>2. Move(p, PassDone(me1)) /\ spec' = spec
    BY <1>5 DEF Trigger
  <2> HIDE DEF me1
  <2>3. PassDone(me1) \in ProcRec /\ ProcOK(PassDone(me1))
    BY <2>1, PassDoneType, <1>q
  <2>4. proc' \in [Procs -> ProcRec] /\ ProcInv'
    BY <2>2, <2>3, <1>b, MoveType
  <2>5. /\ run' \in [Runs -> RunRec] /\ row' \in [Runs -> [Stages -> Rows]]
        /\ cursor' \in 0..MaxUps
    <3>1. CASE UNCHANGED <<run, row, cursor>>
      BY <3>1, <1>t
    <3>2. CASE \E u \in DOMAIN up, r \in Fresh :
                   /\ run' = [run EXCEPT ![r] = New("pipeline", u)]
                   /\ row' = [row EXCEPT ![r] = [s \in Stages |-> Pending]]
                   /\ cursor' = u
      <4>1. PICK u \in DOMAIN up, r \in Fresh :
                   /\ run' = [run EXCEPT ![r] = New("pipeline", u)]
                   /\ row' = [row EXCEPT ![r] = [s \in Stages |-> Pending]]
                   /\ cursor' = u
        BY <3>2
      <4>2. u \in 0..MaxUps /\ r \in Runs
        BY <1>t, Constants DEF Fresh
      <4>3. New("pipeline", u) \in RunRec
        BY <4>2, Constants DEF New, RunRec, RunStates
      <4>4. [s \in Stages |-> Pending] \in [Stages -> Rows]
        BY Constants
      <4> QED BY <4>1, <4>2, <4>3, <4>4, <1>t
    <3> QED BY <1>5, <3>1, <3>2, FirstIn DEF Trigger
  <2> QED BY <1>5, <1>t, <2>4, <2>5 DEF Trigger
<1>6. ASSUME NEW p \in Procs, List(p) PROVE Goal
  <2>1. PICK r \in First(proc[p].todo) :
            Move(p, FoldNext([Idle EXCEPT !.run = r, !.view = row[r], !.todo = proc[p].todo \ {r}]))
    BY <1>6 DEF List
  <2>2. r \in Runs /\ proc[p].todo \subseteq Runs
    BY FirstIn, <1>t DEF ProcRec
  <2> DEFINE me1 == [Idle EXCEPT !.run = r, !.view = row[r], !.todo = proc[p].todo \ {r}]
  <2>3. me1 \in ProcRec
    BY <2>2, <1>t, Constants DEF ProcRec
  <2> HIDE DEF me1
  <2>4. FoldNext(me1) \in ProcRec /\ ProcOK(FoldNext(me1))
    BY <2>3, <1>q, FoldNextType
  <2>5. proc' \in [Procs -> ProcRec] /\ ProcInv'
    BY <1>6, <2>1, <2>4, <1>b, MoveType DEF List, me1
  <2> QED BY <1>6, <1>t, <2>5 DEF List
<1>7. ASSUME NEW p \in Procs, Fold(p) PROVE Goal
  <2> DEFINE me == proc[p]
  <2>1. PICK s \in Open(me) :
            LET x == JobOutcome(me.run, s, me.view[s])
            IN /\ Put(p, s, x) /\ Move(p, FoldNext(Saw(me, s, x)))
               /\ job' = IF spec.kind[s] = "orchestrate" /\ me.view[s].late
                         THEN [job EXCEPT ![me.run][s][me.view[s].attempt].killed = TRUE]
                         ELSE job
    BY <1>7 DEF Fold
  <2>2. s \in Stages /\ me \in ProcRec /\ me.run \in Runs /\ me.view[s] \in Rows
        /\ me.view[s].attempt \in Attempts
    <3>1. me \in ProcRec
      BY <1>t
    <3>2. s \in me.at..NStages /\ me.at \in 1..(NStages + 1)
      BY <3>1, FirstIn DEF Open, ProcRec
    <3>3. s \in Stages
      BY <3>2, Constants DEF Stages
    <3> QED BY <3>1, <3>3 DEF ProcRec, Rows
  <2> DEFINE x == JobOutcome(me.run, s, me.view[s])
  <2>3. x \in Rows
    BY <2>2, <1>b, JobOutcomeType
  <2> HIDE DEF x
  <2>4. row' \in [Runs -> [Stages -> Rows]]
    BY <2>1, <2>2, <2>3, <1>b, PutType DEF x
  <2>5. FoldNext(Saw(me, s, x)) \in ProcRec /\ ProcOK(FoldNext(Saw(me, s, x)))
    BY <2>2, <2>3, <1>b, SeeType
  <2>6. proc' \in [Procs -> ProcRec] /\ ProcInv'
    BY <1>7, <2>1, <2>5, <1>b, MoveType DEF x, Fold
  <2>7. job' \in [Runs -> [Stages -> [Attempts -> JobRows]]]
    <3>1. \A j \in JobRows : [j EXCEPT !.killed = TRUE] \in JobRows
      BY DEF JobRows
    <3>2. job[me.run][s][me.view[s].attempt] \in JobRows
      BY <1>t, <2>2
    <3>3. [job[me.run][s][me.view[s].attempt] EXCEPT !.killed = TRUE] \in JobRows
      BY <3>1, <3>2
    <3> HIDE DEF me
    <3> QED BY <2>1, <2>2, <1>t, <3>3
  <2> QED BY <1>7, <1>t, <2>4, <2>6, <2>7 DEF Fold
<1>8. ASSUME NEW p \in Procs, FoldGate(p) PROVE Goal
  <2> DEFINE me == proc[p]
             O(s, ci) == IF spec.kind[s] = "gate" THEN GateOutcome(me.run, s)
                         ELSE AutoOutcome(me.run, s, ci)
             X(s, o) == IF o = "wait" THEN Waiting(me.view[s]) ELSE [me.view[s] EXCEPT !.state = o]
  <2>1. PICK s \in Open(me), ci \in {"green", "red", "unknown"} :
            /\ spec.kind[s] \in Jobless
            /\ \/ /\ O(s, ci) = "claim"
                  /\ claim' = [claim EXCEPT ![me.run] = @ \cup {s}]
                  /\ Move(p, [me EXCEPT !.pc = "merge", !.at = s])
                  /\ UNCHANGED row
               \/ /\ O(s, ci) # "claim"
                  /\ Put(p, s, X(s, O(s, ci))) /\ Move(p, FoldNext(Saw(me, s, X(s, O(s, ci)))))
                  /\ UNCHANGED claim
    BY <1>8 DEF FoldGate
  <2>2. s \in Stages /\ me \in ProcRec /\ me.run \in Runs /\ me.view[s] \in Rows
    <3>1. me \in ProcRec
      BY <1>t
    <3>2. s \in me.at..NStages /\ me.at \in 1..(NStages + 1)
      BY <3>1, FirstIn DEF Open, ProcRec
    <3>3. s \in Stages
      BY <3>2, Constants DEF Stages
    <3> QED BY <3>1, <3>3 DEF ProcRec, Rows
  <2>3. O(s, ci) \in {"wait", "blocked", "succeeded", "claim"}
    BY AutoOutcomeType, GateOutcomeType
  <2>s. spec' = spec
    BY <1>8 DEF FoldGate
  <2>4. CASE O(s, ci) = "claim"
    <3>1. spec.kind[s] = "auto"
      BY <2>1, <2>4, GateOutcomeType DEF Jobless
    <3>2. [me EXCEPT !.pc = "merge", !.at = s] \in ProcRec
      BY <2>2, Constants DEF ProcRec, PCs
    <3>3. ProcOK([me EXCEPT !.pc = "merge", !.at = s])
      BY <2>2, <3>1 DEF ProcOK, ProcRec
    <3> HIDE DEF me, O
    <3>4. proc' \in [Procs -> ProcRec] /\ ProcInv'
      BY <2>1, <2>4, <2>s, <3>2, <3>3, <1>b, MoveType
    <3>5. claim' \in [Runs -> SUBSET Stages] /\ row' = row
      <4>1. claim[me.run] \cup {s} \in SUBSET Stages
        BY <2>2, <1>t
      <4>2. claim' = [claim EXCEPT ![me.run] = claim[me.run] \cup {s}] /\ row' = row
        BY <2>1, <2>4, Zenon
      <4> QED BY <4>1, <4>2, <2>2, <1>t
    <3> QED BY <1>8, <1>t, <3>4, <3>5 DEF FoldGate
  <2>5. CASE O(s, ci) # "claim"
    <3> DEFINE x == X(s, O(s, ci))
    <3>1. x \in Rows
      <4>1. Waiting(me.view[s]) \in Rows
        BY <2>2, WaitingType
      <4>2. \A o \in {"blocked", "succeeded"} : [me.view[s] EXCEPT !.state = o] \in Rows
        BY <2>2 DEF Rows, StageStates
      <4> QED BY <2>3, <2>5, <4>1, <4>2
    <3>2. Put(p, s, x) /\ Move(p, FoldNext(Saw(me, s, x))) /\ claim' = claim
      BY <2>1, <2>5
    <3> HIDE DEF x
    <3>3. row' \in [Runs -> [Stages -> Rows]]
      BY <2>2, <3>1, <3>2, <1>b, PutType
    <3>4. FoldNext(Saw(me, s, x)) \in ProcRec /\ ProcOK(FoldNext(Saw(me, s, x)))
      BY <2>2, <3>1, <1>b, SeeType
    <3>5. proc' \in [Procs -> ProcRec] /\ ProcInv'
      BY <2>s, <3>2, <3>4, <1>b, MoveType
    <3> QED BY <1>8, <1>t, <3>2, <3>3, <3>5 DEF FoldGate
  <2> QED BY <2>4, <2>5
<1>9. ASSUME NEW p \in Procs, Merge(p) PROVE Goal
  <2> DEFINE me == proc[p]
             Out(ok) == [me.view[me.at] EXCEPT !.state = IF ok THEN "succeeded" ELSE "blocked"]
  <2>1. PICK ok \in BOOLEAN :
            /\ pr' = IF ok THEN [pr EXCEPT ![me.run][spec.source[me.at]] = "merged"] ELSE pr
            /\ Move(p, [me EXCEPT !.pc = "merged", !.out = Out(ok)])
    BY <1>9 DEF Merge
  <2>2. /\ me \in ProcRec /\ me.pc = "merge" /\ me.at \in Stages /\ me.run \in Runs
        /\ spec.kind[me.at] = "auto" /\ me.view[me.at] \in Rows
    BY <1>9, <1>b, <1>t DEF Merge, ProcInv, ProcOK, OnStage, ProcRec
  <2>3. spec.source[me.at] \in Stages
    BY <2>2, <1>b, SpecFacts DEF SpecOK, Jobless
  <2>4. Out(ok) \in Rows
    BY <2>2 DEF Rows, StageStates
  <2>5. [me EXCEPT !.pc = "merged", !.out = Out(ok)] \in ProcRec
    <3> HIDE DEF Out
    <3> QED BY <2>2, <2>4 DEF ProcRec, PCs
  <2>6. ProcOK([me EXCEPT !.pc = "merged", !.out = Out(ok)])
    BY <2>2 DEF ProcOK, ProcRec
  <2> HIDE DEF Out, me
  <2>7. proc' \in [Procs -> ProcRec] /\ ProcInv'
    BY <1>9, <2>1, <2>5, <2>6, <1>b, MoveType DEF Merge
  <2>8. pr' \in [Runs -> [Stages -> PRs]]
    BY <2>1, <2>2, <2>3, <1>t DEF PRs
  <2>9. merges' \in [Runs -> [Stages -> Nat]]
    <3>1. merges' = [merges EXCEPT ![me.run][me.at] = @ + 1]
      BY <1>9 DEF Merge, me
    <3> QED BY <3>1, <2>2, <1>t
  <2> QED BY <1>9, <1>t, <2>7, <2>8, <2>9 DEF Merge
<1>10. ASSUME NEW p \in Procs, PutMerged(p) PROVE Goal
  <2> DEFINE me == proc[p]
  <2>1. me \in ProcRec /\ me.at \in Stages /\ me.out \in Rows
    BY <1>10, <1>b, <1>t DEF PutMerged, ProcInv, ProcOK, OnStage, ProcRec
  <2>2. row' \in [Runs -> [Stages -> Rows]]
    BY <1>10, <2>1, <1>b, PutType DEF PutMerged
  <2>3. FoldNext(Saw(me, me.at, me.out)) \in ProcRec /\ ProcOK(FoldNext(Saw(me, me.at, me.out)))
    BY <2>1, <1>b, SeeType
  <2>4. proc' \in [Procs -> ProcRec] /\ ProcInv'
    BY <1>10, <2>3, <1>b, MoveType DEF PutMerged
  <2> QED BY <1>10, <1>t, <2>2, <2>4 DEF PutMerged
<1>r. ASSUME NEW p \in Procs, NEW s \in Ready(proc[p])
      PROVE  s \in Stages /\ proc[p] \in ProcRec /\ proc[p].view[s] \in Rows
             /\ proc[p].run \in Runs /\ proc[p].view[s].attempt \in Attempts
  <2>1. proc[p] \in ProcRec
    BY <1>t
  <2>2. s \in proc[p].at..NStages /\ proc[p].at \in 1..(NStages + 1)
    BY <2>1, FirstIn DEF Ready, ProcRec
  <2>3. s \in Stages
    BY <2>2, Constants DEF Stages
  <2> QED BY <2>1, <2>3 DEF ProcRec, Rows
<1>11. ASSUME NEW p \in Procs, Start(p) PROVE Goal
  <2> DEFINE me == proc[p]
             X(s) == [me.view[s] EXCEPT
                            !.state = IF spec.kind[s] \in Jobless THEN "queued" ELSE "blocked"]
  <2>1. PICK s \in Ready(me) : Put(p, s, X(s)) /\ Move(p, EnqueueNext(Saw(me, s, X(s))))
    BY <1>11 DEF Start
  <2>2. X(s) \in Rows /\ s \in Stages
    BY <1>r DEF Rows, StageStates
  <2> HIDE DEF X
  <2>3. row' \in [Runs -> [Stages -> Rows]]
    BY <2>1, <2>2, <1>b, PutType
  <2>4. EnqueueNext(Saw(me, s, X(s))) \in ProcRec /\ ProcOK(EnqueueNext(Saw(me, s, X(s))))
    BY <2>2, <1>b, SeeType
  <2>5. proc' \in [Procs -> ProcRec] /\ ProcInv'
    BY <1>11, <2>1, <2>4, <1>b, MoveType DEF Start
  <2> QED BY <1>11, <1>t, <2>3, <2>5 DEF Start
<1>12. ASSUME NEW p \in Procs, Enqueue(p) PROVE Goal
  <2> DEFINE me == proc[p]
             J(s) == job[me.run][s][me.view[s].attempt]
             Out(s) == IF spec.kind[s] = "produce" /\ J(s).st \in {"settled", "cancelled"}
                       THEN Ended(s, [me.view[s] EXCEPT !.gen = 1], FoldOutcome(J(s)))
                       ELSE [me.view[s] EXCEPT !.state = "queued", !.gen = 1]
             me1(s) == [me EXCEPT !.pc = "enqueued", !.at = s, !.out = Out(s)]
  <2>1. PICK s \in Ready(me) :
            /\ job' = IF J(s).st # "none" THEN job
                      ELSE [job EXCEPT ![me.run][s][me.view[s].attempt] =
                                [NoJob EXCEPT !.st = "queued", !.gen = 1]]
            /\ Move(p, me1(s))
    BY <1>12 DEF Enqueue
  <2>2. s \in Stages /\ me \in ProcRec /\ me.view[s] \in Rows /\ me.run \in Runs
        /\ me.view[s].attempt \in Attempts
    BY <1>r
  <2>3. Out(s) \in Rows
    <3>1. /\ [me.view[s] EXCEPT !.gen = 1] \in Rows
          /\ [me.view[s] EXCEPT !.state = "queued", !.gen = 1] \in Rows
      <4>1. 1 \in 0..MaxGen
        BY Constants
      <4> QED BY <2>2, <4>1 DEF Rows, StageStates
    <3>2. J(s) \in JobRows
      BY <2>2, <1>t
    <3> HIDE DEF J
    <3> QED BY <3>1, <3>2, <2>2, <1>b, EndedType, FoldOutcomeType
  <2> HIDE DEF Out
  <2>4. me1(s) \in ProcRec
    BY <2>2, <2>3, Constants DEF ProcRec, PCs
  <2>5. ProcOK(me1(s))
    BY <2>2 DEF ProcOK, ProcRec
  <2>6. job' \in [Runs -> [Stages -> [Attempts -> JobRows]]]
    <3>1. [NoJob EXCEPT !.st = "queued", !.gen = 1] \in JobRows
      <4>1. 1 \in 0..MaxGen
        BY Constants
      <4> QED BY <4>1, Constants DEF JobRows
    <3> HIDE DEF me
    <3> QED BY <2>1, <2>2, <3>1, <1>t
  <2> HIDE DEF me1
  <2>7. proc' \in [Procs -> ProcRec] /\ ProcInv'
    BY <1>12, <2>1, <2>4, <2>5, <1>b, MoveType DEF Enqueue
  <2> QED BY <1>12, <1>t, <2>6, <2>7 DEF Enqueue
<1>13. ASSUME NEW p \in Procs, PutEnqueued(p) PROVE Goal
  <2> DEFINE me == proc[p]
  <2>1. me \in ProcRec /\ me.at \in Stages /\ me.out \in Rows
    BY <1>13, <1>b, <1>t DEF PutEnqueued, ProcInv, ProcOK, OnStage, ProcRec
  <2>2. row' \in [Runs -> [Stages -> Rows]]
    BY <1>13, <2>1, <1>b, PutType DEF PutEnqueued
  <2>3. EnqueueNext(Saw(me, me.at, me.out)) \in ProcRec
        /\ ProcOK(EnqueueNext(Saw(me, me.at, me.out)))
    BY <2>1, <1>b, SeeType
  <2>4. proc' \in [Procs -> ProcRec] /\ ProcInv'
    BY <1>13, <2>3, <1>b, MoveType DEF PutEnqueued
  <2> QED BY <1>13, <1>t, <2>2, <2>4 DEF PutEnqueued
<1>14. ASSUME NEW p \in Procs, Skip(p) PROVE Goal
  <2> DEFINE me == proc[p]
             X(s) == [me.view[s] EXCEPT !.state = "skipped"]
  <2>1. PICK s \in Left(me) : Put(p, s, X(s)) /\ Move(p, SkipNext(Saw(me, s, X(s))))
    BY <1>14 DEF Skip
  <2>2. X(s) \in Rows /\ s \in Stages
    <3>1. s \in Stages
      BY FirstIn DEF Left
    <3>2. me.view[s] \in Rows
      BY <3>1, <1>t DEF ProcRec
    <3> HIDE DEF me
    <3> QED BY <3>1, <3>2 DEF Rows, StageStates
  <2> HIDE DEF X
  <2>3. row' \in [Runs -> [Stages -> Rows]]
    BY <2>1, <2>2, <1>b, PutType
  <2>4. SkipNext(Saw(me, s, X(s))) \in ProcRec /\ ProcOK(SkipNext(Saw(me, s, X(s))))
    BY <2>2, <1>b, SeeType
  <2>5. proc' \in [Procs -> ProcRec] /\ ProcInv'
    BY <1>14, <2>1, <2>4, <1>b, MoveType DEF Skip
  <2> QED BY <1>14, <1>t, <2>3, <2>5 DEF Skip
<1>15. ASSUME NEW p \in Procs, Settle(p) PROVE Goal
  <2> DEFINE me == proc[p]
             to == Settlement(me.view)
  <2>1. PICK h \in to.halt : run' = [run EXCEPT ![me.run].state = to.state, ![me.run].halt = h]
    BY <1>15 DEF Settle
  <2>2. to.state \in RunStates /\ h \in 0..NStages
    <3> DEFINE In(st) == {s \in Stages : me.view[s].state = st}
    <3>1. First(In("failed")) \subseteq 0..NStages /\ First(In("blocked")) \subseteq 0..NStages
      BY FirstIn, Constants DEF Stages
    <3>2. to = IF In("failed") # {} THEN [state |-> "failed", halt |-> First(In("failed"))]
               ELSE IF In("blocked") # {}
               THEN [state |-> "blocked", halt |-> First(In("blocked"))]
               ELSE [state |-> "succeeded", halt |-> {0}]
      BY DEF Settlement
    <3> HIDE DEF In, to
    <3>3. /\ to.state \in {"failed", "blocked", "succeeded"}
          /\ to.halt \in {First(In("failed")), First(In("blocked")), {0}}
      BY <3>2
    <3>4. 0 \in 0..NStages
      BY Constants
    <3> QED BY <2>1, <3>1, <3>3, <3>4 DEF RunStates
  <2>3. me \in ProcRec /\ me.run \in Runs
    BY <1>t DEF ProcRec
  <2> HIDE DEF to
  <2>4. run' \in [Runs -> RunRec]
    <3>1. \A y \in RunRec : [y EXCEPT !.state = to.state, !.halt = h] \in RunRec
      BY <2>2 DEF RunRec
    <3>2. run' = [run EXCEPT ![me.run] = [run[me.run] EXCEPT !.state = to.state, !.halt = h]]
      BY <2>1, <2>3, <1>t DEF RunRec
    <3> QED BY <3>1, <3>2, <2>3, <1>t
  <2>5. PassDone(me) \in ProcRec /\ ProcOK(PassDone(me))
    BY <2>3, PassDoneType, <1>q
  <2>6. proc' \in [Procs -> ProcRec] /\ ProcInv'
    BY <1>15, <2>5, <1>b, MoveType DEF Settle
  <2> QED BY <1>15, <1>t, <2>4, <2>6 DEF Settle
<1>16. ASSUME NEW r \in Runs, Resume(r) PROVE Goal
  <2> DEFINE set(from) == {s \in AndDependents(from) : row[r][s].state \notin {"none", "succeeded"}}
             me1(from) == [Idle EXCEPT !.pc = "reset", !.run = r, !.view = row[r], !.set = set(from)]
  <2>1. PICK from \in {run[r].halt} \cup Stages :
            /\ \A s \in AndDependents(from) : row[r][s].attempt < MaxAttempt
            /\ Move(Oper, me1(from))
    BY <1>16 DEF Resume
  <2>2. AndDependents(from) \subseteq Stages
    BY DEF AndDependents
  <2>3. /\ me1(from) \in ProcRec /\ me1(from).pc = "reset" /\ me1(from).view = row[r]
        /\ me1(from).set \subseteq AndDependents(from)
    <3>1. set(from) \subseteq Stages /\ set(from) \subseteq AndDependents(from)
      BY <2>2
    <3>2. row[r] \in [Stages -> Rows]
      BY <1>t
    <3> HIDE DEF set
    <3> QED BY <3>1, <3>2, Constants DEF ProcRec, PCs
  <2> HIDE DEF me1
  <2>4. ProcOK(me1(from))
    BY <2>1, <2>3 DEF ProcOK, OnStage
  <2>5. proc' \in [Procs -> ProcRec] /\ ProcInv'
    BY <1>16, <1>d, <2>1, <2>3, <2>4, <1>b, MoveType DEF Resume
  <2> QED BY <1>16, <1>t, <2>5 DEF Resume
<1>17. ASSUME NEW r \in Runs, Cancel(r) PROVE Goal
  <2> DEFINE set == {s \in Stages : row[r][s].state \in {"pending", "queued", "running"}}
             me1 == [Idle EXCEPT !.pc = "kill", !.run = r, !.view = row[r], !.set = set]
  <2>1. Move(Oper, me1)
    BY <1>17 DEF Cancel
  <2>2. me1 \in ProcRec /\ me1.pc = "kill"
    <3>1. set \subseteq Stages /\ row[r] \in [Stages -> Rows]
      BY <1>t
    <3> HIDE DEF set
    <3> QED BY <3>1, Constants DEF ProcRec, PCs
  <2> HIDE DEF me1
  <2>3. ProcOK(me1)
    BY <2>2 DEF ProcOK, OnStage
  <2>4. proc' \in [Procs -> ProcRec] /\ ProcInv'
    BY <1>17, <1>d, <2>1, <2>2, <2>3, <1>b, MoveType DEF Cancel
  <2> QED BY <1>17, <1>t, <2>4 DEF Cancel
<1>18. ASSUME ResumeStage PROVE Goal
  <2> DEFINE me == proc[Oper]
  <2>1. PICK s \in First(me.set) :
            /\ row' = [row EXCEPT ![me.run][s] = [Pending EXCEPT !.attempt = me.view[s].attempt + 1]]
            /\ Move(Oper, [me EXCEPT !.set = @ \ {s}])
    BY <1>18 DEF ResumeStage
  <2>2. me \in ProcRec /\ me.pc = "reset" /\ me.run \in Runs /\ me.set \subseteq Stages
    BY <1>18, <1>d, <1>t DEF ResumeStage, ProcRec
  <2>3. s \in me.set /\ s \in Stages
    BY <2>2, FirstIn
  <2>o. \A t \in me.set : me.view[t].attempt < MaxAttempt
    BY <2>2, <1>b, <1>d DEF ProcInv, ProcOK
  <2>4. me.view[s].attempt < MaxAttempt /\ me.view[s].attempt \in 0..MaxAttempt
    BY <2>2, <2>3, <2>o DEF ProcRec, Rows, Attempts
  <2>5. me.view[s].attempt + 1 \in Attempts
    BY <2>4, Constants DEF Attempts
  <2>6. [Pending EXCEPT !.attempt = me.view[s].attempt + 1] \in Rows
    <3> DEFINE a == me.view[s].attempt + 1
    <3>1. a \in Attempts
      BY <2>5
    <3> HIDE DEF a
    <3>2. [Pending EXCEPT !.attempt = a] \in Rows
      BY <3>1, Constants DEF Rows
    <3> QED BY <3>2 DEF a
  <2>7. /\ [me EXCEPT !.set = @ \ {s}] \in ProcRec
        /\ ProcOK([me EXCEPT !.set = @ \ {s}])
    BY <2>2, <2>o DEF ProcRec, ProcOK, OnStage
  <2> HIDE DEF me
  <2>8. row' \in [Runs -> [Stages -> Rows]]
    BY <2>1, <2>2, <2>3, <2>6, <1>t
  <2>9. proc' \in [Procs -> ProcRec] /\ ProcInv'
    BY <1>18, <1>d, <2>1, <2>7, <1>b, MoveType DEF ResumeStage
  <2> QED BY <1>18, <1>t, <2>8, <2>9 DEF ResumeStage
<1>rn. ASSUME NEW r \in Runs, NEW st \in RunStates
       PROVE  /\ [run EXCEPT ![r].state = st] \in [Runs -> RunRec]
              /\ [run EXCEPT ![r].state = st, ![r].halt = 0] \in [Runs -> RunRec]
  <2>1. run[r] \in RunRec /\ 0 \in 0..NStages
    BY <1>t, Constants
  <2>2. [run[r] EXCEPT !.state = st] \in RunRec /\ [run[r] EXCEPT !.state = st, !.halt = 0] \in RunRec
    BY <2>1 DEF RunRec
  <2> QED BY <2>1, <2>2, <1>t
<1>or. proc[Oper].run \in Runs /\ proc[Oper] \in ProcRec
  BY <1>t, <1>d DEF ProcRec
<1>19. ASSUME ResumeRun PROVE Goal
  <2>1. run' \in [Runs -> RunRec]
    BY <1>19, <1>rn, <1>or DEF ResumeRun, RunStates
  <2>2. proc' \in [Procs -> ProcRec] /\ ProcInv'
    BY <1>19, <1>d, <1>j, <1>b, MoveType DEF ResumeRun
  <2> QED BY <1>19, <1>t, <2>1, <2>2 DEF ResumeRun
<1>20. ASSUME CancelJob PROVE Goal
  <2> DEFINE me == proc[Oper]
  <2>1. PICK s \in First(me.set) :
            /\ job' \in {job, [job EXCEPT ![me.run][s][me.view[s].attempt].st = "cancelled"]}
            /\ Move(Oper, [me EXCEPT !.pc = "mark", !.at = s])
    BY <1>20 DEF CancelJob
  <2>2. s \in Stages /\ me \in ProcRec /\ me.run \in Runs /\ me.view[s].attempt \in Attempts
    BY FirstIn, <1>or DEF ProcRec, Rows
  <2>3. job' \in [Runs -> [Stages -> [Attempts -> JobRows]]]
    <3>1. job[me.run][s][me.view[s].attempt] \in JobRows
      BY <1>t, <2>2
    <3>2. [job[me.run][s][me.view[s].attempt] EXCEPT !.st = "cancelled"] \in JobRows
      BY <3>1 DEF JobRows
    <3> HIDE DEF me
    <3>3. [job EXCEPT ![me.run][s][me.view[s].attempt].st = "cancelled"]
          \in [Runs -> [Stages -> [Attempts -> JobRows]]]
      BY <2>2, <1>t, <3>2
    <3> QED BY <2>1, <1>t, <3>3
  <2>4. [me EXCEPT !.pc = "mark", !.at = s] \in ProcRec
    BY <2>2, Constants DEF ProcRec, PCs
  <2>5. ProcOK([me EXCEPT !.pc = "mark", !.at = s])
    BY <2>2 DEF ProcOK, ProcRec, OnStage
  <2>6. proc' \in [Procs -> ProcRec] /\ ProcInv'
    BY <1>20, <1>d, <2>1, <2>4, <2>5, <1>b, MoveType DEF CancelJob
  <2> QED BY <1>20, <1>t, <2>3, <2>6 DEF CancelJob
<1>21. ASSUME CancelStage PROVE Goal
  <2> DEFINE me == proc[Oper]
  <2>1. me \in ProcRec /\ me.run \in Runs /\ me.at \in Stages /\ me.view[me.at] \in Rows
    BY <1>21, <1>d, <1>b, <1>or DEF CancelStage, ProcInv, ProcOK, OnStage, ProcRec
  <2>2. row' = [row EXCEPT ![me.run][me.at] = [me.view[me.at] EXCEPT !.state = "cancelled"]]
        /\ Move(Oper, [me EXCEPT !.pc = "kill", !.set = @ \ {me.at}])
    BY <1>21 DEF CancelStage
  <2>3. [me.view[me.at] EXCEPT !.state = "cancelled"] \in Rows
    BY <2>1 DEF Rows, StageStates
  <2>4. [me EXCEPT !.pc = "kill", !.set = @ \ {me.at}] \in ProcRec
        /\ ProcOK([me EXCEPT !.pc = "kill", !.set = @ \ {me.at}])
    BY <2>1 DEF ProcRec, PCs, ProcOK, OnStage
  <2>5. row' \in [Runs -> [Stages -> Rows]]
    BY <2>1, <2>2, <2>3, <1>t
  <2>6. proc' \in [Procs -> ProcRec] /\ ProcInv'
    BY <1>21, <1>d, <2>2, <2>4, <1>b, MoveType DEF CancelStage
  <2> QED BY <1>21, <1>t, <2>5, <2>6 DEF CancelStage
<1>22. ASSUME CancelRun PROVE Goal
  <2>1. run' \in [Runs -> RunRec]
    BY <1>22, <1>rn, <1>or DEF CancelRun, RunStates
  <2>2. proc' \in [Procs -> ProcRec] /\ ProcInv'
    BY <1>22, <1>d, <1>j, <1>b, MoveType DEF CancelRun
  <2> QED BY <1>22, <1>t, <2>1, <2>2 DEF CancelRun
<1>u. proc' = proc /\ spec' = spec => ProcInv'
  BY <1>b DEF ProcInv, ProcOK
<1>23. ASSUME NEW r \in Runs, NEW s \in Stages, NEW a \in Attempts, JobStart(r, s, a) PROVE Goal
  <2>1. job[r][s][a] \in JobRows
    BY <1>t
  <2>2. [job[r][s][a] EXCEPT !.st = "running"] \in JobRows
    BY <2>1 DEF JobRows
  <2>3. job' \in [Runs -> [Stages -> [Attempts -> JobRows]]]
    BY <1>23, <1>t, <2>2 DEF JobStart
  <2> QED BY <1>23, <1>t, <1>u, <2>3 DEF JobStart
<1>jb. ASSUME NEW r \in Runs, NEW s \in Stages, NEW a \in Attempts, NEW j \in JobRows
       PROVE  [job EXCEPT ![r][s][a] = j] \in [Runs -> [Stages -> [Attempts -> JobRows]]]
  BY <1>t
<1>24. ASSUME NEW r \in Runs, NEW s \in Stages, NEW a \in Attempts, JobSettle(r, s, a) PROVE Goal
  <2> DEFINE j == job[r][s][a]
  <2>1. PICK d \in {"ok", "skipped", "blocked", "failed"}, more \in BOOLEAN :
            job' = [job EXCEPT ![r][s][a] = [j EXCEPT !.st = "settled", !.dec = d, !.more = more]]
    BY <1>24 DEF JobSettle
  <2>2. j \in JobRows
    BY <1>t
  <2>3. [j EXCEPT !.st = "settled", !.dec = d, !.more = more] \in JobRows
    BY <2>2 DEF JobRows
  <2>5. job' \in [Runs -> [Stages -> [Attempts -> JobRows]]]
    BY <1>jb, <2>1, <2>3
  <2>6. pr' \in [Runs -> [Stages -> PRs]]
    BY <1>24, <1>t DEF JobSettle, PRs
  <2> QED BY <1>24, <1>t, <1>u, <2>5, <2>6 DEF JobSettle
<1>25. ASSUME NEW r \in Runs, NEW s \in Stages, NEW a \in Attempts, JobAdvance(r, s, a) PROVE Goal
  <2> DEFINE j == job[r][s][a]
             j1 == [j EXCEPT !.st = "queued", !.gen = j.gen + 1, !.more = FALSE]
  <2>1. CASE j.more /\ pr' = pr /\ job' = [job EXCEPT ![r][s][a] = j1]
    <3>1. j \in JobRows /\ j.gen < MaxGen
      BY <1>t, <1>b, <2>1 DEF JobInv
    <3>2. j.gen + 1 \in 0..MaxGen
      BY <3>1, Constants DEF JobRows
    <3>3. j1 \in JobRows
      BY <3>1, <3>2 DEF JobRows
    <3>5. job' \in [Runs -> [Stages -> [Attempts -> JobRows]]]
      BY <1>jb, <2>1, <3>3
    <3> QED BY <1>25, <1>t, <1>u, <2>1, <3>5 DEF JobAdvance
  <2>2. CASE job' = job /\ \E x \in {"open", "nopr"} : pr' = [pr EXCEPT ![r][s] = x]
    <3>1. pr' \in [Runs -> [Stages -> PRs]]
      BY <2>2, <1>t DEF PRs
    <3> QED BY <1>25, <1>t, <1>u, <2>2, <3>1 DEF JobAdvance
  <2> QED BY <1>25, <2>1, <2>2 DEF JobAdvance
<1>26. ASSUME NEW r \in Runs, NEW s \in Stages, Host(r, s) PROVE Goal
  <2>1. pr' \in [Runs -> [Stages -> PRs]]
    BY <1>26, <1>t DEF Host, PRs
  <2> QED BY <1>26, <1>t, <1>u, <2>1 DEF Host
<1>27. ASSUME NEW r \in Runs, NEW s \in Stages, Expire(r, s) PROVE Goal
  <2>1. row[r][s] \in Rows
    BY <1>t
  <2>2. [row[r][s] EXCEPT !.late = TRUE] \in Rows
    BY <2>1 DEF Rows
  <2>3. row' \in [Runs -> [Stages -> Rows]]
    BY <1>27, <1>t, <2>2 DEF Expire
  <2> QED BY <1>27, <1>t, <1>u, <2>3 DEF Expire
<1>28. ASSUME Tick PROVE Goal
  BY <1>28, <1>t, <1>u DEF Tick
<1>29. ASSUME NEW u \in DOMAIN up, Upstream(u) PROVE Goal
  <2>1. up' \in [1..MaxUps -> {"running", "parked", "succeeded"}]
    BY <1>29, <1>t DEF Upstream
  <2> QED BY <1>29, <1>t, <1>u, <2>1 DEF Upstream
<1>30. ASSUME NEW p \in Procs, Crash(p) PROVE Goal
  <2>1. proc' \in [Procs -> ProcRec] /\ ProcInv'
    BY <1>30, <1>j, <1>b, MoveType DEF Crash
  <2> QED BY <1>30, <1>t, <2>1 DEF Crash
<1>31. ASSUME UNCHANGED vars PROVE Goal
  BY <1>31, <1>t, <1>u DEF vars
<1> QED
  BY <1>1, <1>2, <1>3, <1>4, <1>5, <1>6, <1>7, <1>8, <1>9, <1>10, <1>11, <1>12, <1>13, <1>14,
     <1>15, <1>16, <1>17, <1>18, <1>19, <1>20, <1>21, <1>22, <1>23, <1>24, <1>25, <1>26, <1>27,
     <1>28, <1>29, <1>30, <1>31, <1>d DEF Next, Pass, Command, Work
-----------------------------------------------------------------------------
(* What a step can do to a job and to a pull request *)

JobMove(r, s, a) ==
    LET j == job[r][s][a]
        k == job'[r][s][a]
    IN \/ k.st = j.st /\ k.dec = j.dec /\ k.more = j.more /\ k.gen = j.gen
       \/ /\ j.st = "none" /\ k.st = "queued" /\ k.dec = "failed" /\ ~k.more
          /\ \E p \in Procs : proc[p].run = r /\ DepsSucceeded(proc[p].view, s)
          /\ ~Unbound(r, s)
       \/ /\ j.st \in {"queued", "running"} \/ j.dec = "blocked"
          /\ k.st = "cancelled" /\ k.more = j.more /\ k.gen = j.gen
       \/ j.st = "queued" /\ k.st = "running" /\ k.more = j.more /\ k.gen = j.gen
       \/ /\ j.st = "running" /\ k.st = "settled"
          /\ k.more => k.gen < MaxGen /\ spec.kind[s] = "orchestrate"
       \/ j.st = "settled" /\ j.more /\ k.st = "queued" /\ ~k.more

PrMove(r, s) ==
    \/ pr'[r][s] = pr[r][s]
    \/ pr[r][s] = "none" /\ pr'[r][s] \in {"nopr", "open"}
    \/ pr[r][s] \in {"open", "pushed"} /\ pr'[r][s] \in {"pushed", "merged", "closed"}

\* Every step moves every job and every pull request in one of those ways.
LEMMA Moves ==
    Base /\ [Next]_vars =>
        /\ spec' = spec
        /\ \A r \in Runs, s \in Stages : PrMove(r, s) /\ \A a \in Attempts : JobMove(r, s, a)
<1> SUFFICES ASSUME Base, [Next]_vars
             PROVE  /\ spec' = spec
                    /\ \A r \in Runs, s \in Stages :
                          PrMove(r, s) /\ \A a \in Attempts : JobMove(r, s, a)
  OBVIOUS
<1> DEFINE Goal == /\ spec' = spec
                   /\ \A r \in Runs, s \in Stages :
                         PrMove(r, s) /\ \A a \in Attempts : JobMove(r, s, a)
<1>b. TypeOK /\ JobInv /\ ProcInv
  BY DEF Base
<1>t. /\ job \in [Runs -> [Stages -> [Attempts -> JobRows]]]
      /\ pr \in [Runs -> [Stages -> PRs]] /\ proc \in [Procs -> ProcRec]
  BY <1>b, TypeParts
<1>d. Daemon \in Procs /\ Cli \in Procs /\ Oper \in Procs
  BY DEF Procs
<1>pr. pr' = pr => \A r \in Runs, s \in Stages : PrMove(r, s)
  BY DEF PrMove
<1>jb. job' = job => \A r \in Runs, s \in Stages, a \in Attempts : JobMove(r, s, a)
  BY DEF JobMove
<1>u. ASSUME UNCHANGED <<spec, job, pr>> PROVE Goal
  BY <1>u, <1>pr, <1>jb
<1>ps. ASSUME NEW r, NEW s, NEW x, pr' = [pr EXCEPT ![r][s] = x],
              \/ pr[r][s] = "none" /\ x \in {"nopr", "open"}
              \/ pr[r][s] \in {"open", "pushed"} /\ x \in {"pushed", "merged", "closed"}
       PROVE  \A q \in Runs, t \in Stages : PrMove(q, t)
  <2>1. \A q \in Runs, t \in Stages :
            pr'[q][t] = pr[q][t] \/ (q = r /\ t = s /\ pr'[q][t] = x)
    BY <1>ps, <1>t
  <2> QED BY <1>ps, <2>1 DEF PrMove
<1>at. ASSUME NEW r \in Runs, NEW s \in Stages, NEW a \in Attempts, NEW k \in JobRows,
              job' = [job EXCEPT ![r][s][a] = k], JobMove(r, s, a)
       PROVE  \A q \in Runs, t \in Stages, b \in Attempts : JobMove(q, t, b)
  <2>1. \A q \in Runs, t \in Stages, b \in Attempts :
            q # r \/ t # s \/ b # a => job'[q][t][b] = job[q][t][b]
    BY <1>at, <1>t
  <2> QED BY <1>at, <2>1 DEF JobMove
<1>1. ASSUME NEW p \in Procs, Fold(p) PROVE Goal
  <2> DEFINE me == proc[p]
  <2>1. PICK s \in Open(me) :
            job' \in {job, [job EXCEPT ![me.run][s][me.view[s].attempt].killed = TRUE]}
    BY <1>1 DEF Fold
  <2>2. s \in Stages /\ me.run \in Runs /\ me.view[s].attempt \in Attempts
    <3>1. me \in ProcRec
      BY <1>t
    <3>2. s \in me.at..NStages /\ me.at \in 1..(NStages + 1)
      BY <3>1, FirstIn DEF Open, ProcRec
    <3>3. s \in Stages
      BY <3>2, Constants DEF Stages
    <3> QED BY <3>1, <3>3 DEF ProcRec, Rows
  <2> HIDE DEF me
  <2> DEFINE a == me.view[s].attempt
             k == [job[me.run][s][a] EXCEPT !.killed = TRUE]
  <2>3. job[me.run][s][a] \in JobRows
    BY <2>2, <1>t
  <2>4. k \in JobRows
    BY <2>3 DEF JobRows
  <2>5. job' = job \/ job' = [job EXCEPT ![me.run][s][a] = k]
    BY <2>1
  <2>6. /\ k.st = job[me.run][s][a].st /\ k.dec = job[me.run][s][a].dec
        /\ k.more = job[me.run][s][a].more /\ k.gen = job[me.run][s][a].gen
    BY <2>3 DEF JobRows
  <2>7. \A q \in Runs, t \in Stages, b \in Attempts : JobMove(q, t, b)
    <3>1. CASE job' = job
      BY <3>1, <1>jb
    <3>2. CASE job' = [job EXCEPT ![me.run][s][a] = k]
      <4> HIDE DEF k, a
      <4>a. a \in Attempts
        BY <2>2 DEF a
      <4>1. job'[me.run][s][a] = k
        BY <3>2, <2>2, <2>4, <4>a, <1>t
      <4>2. JobMove(me.run, s, a)
        BY <4>1, <2>6 DEF JobMove
      <4> QED BY <3>2, <2>2, <2>4, <4>2, <4>a, <1>at
    <3> QED BY <2>5, <3>1, <3>2
  <2> QED BY <1>1, <1>pr, <2>7 DEF Fold
<1>2. ASSUME NEW p \in Procs, Merge(p) PROVE Goal
  <2> DEFINE me == proc[p]
             src == spec.source[me.at]
  <2>1. /\ pr' = pr \/ (pr[me.run][src] = "open" /\ pr' = [pr EXCEPT ![me.run][src] = "merged"])
        /\ job' = job /\ spec' = spec
    BY <1>2 DEF Merge
  <2> HIDE DEF me, src
  <2>2. \A r \in Runs, s \in Stages : PrMove(r, s)
    BY <2>1, <1>pr, <1>ps
  <2> QED BY <2>1, <2>2, <1>jb
<1>3. ASSUME NEW p \in Procs, Enqueue(p) PROVE Goal
  <2> DEFINE me == proc[p]
             k == [NoJob EXCEPT !.st = "queued", !.gen = 1]
  <2>1. PICK s \in Ready(me) :
            /\ ~Unbound(me.run, s)
            /\ job' = IF job[me.run][s][me.view[s].attempt].st # "none" THEN job
                      ELSE [job EXCEPT ![me.run][s][me.view[s].attempt] = k]
    BY <1>3 DEF Enqueue
  <2>2. /\ s \in Stages /\ me.run \in Runs /\ me.view[s].attempt \in Attempts
        /\ DepsSucceeded(me.view, s)
    <3>1. me \in ProcRec
      BY <1>t
    <3>2. s \in me.at..NStages /\ me.at \in 1..(NStages + 1) /\ DepsSucceeded(me.view, s)
      BY <3>1, FirstIn DEF Ready, ProcRec
    <3>3. s \in Stages
      BY <3>2, Constants DEF Stages
    <3> QED BY <3>1, <3>2, <3>3 DEF ProcRec, Rows
  <2>3. k \in JobRows /\ k.st = "queued" /\ k.dec = "failed" /\ ~k.more
    <3>1. 1 \in 0..MaxGen
      BY Constants
    <3> QED BY <3>1, Constants DEF JobRows, NoJob
  <2>4. \E q \in Procs : proc[q].run = me.run /\ DepsSucceeded(proc[q].view, s)
    BY <2>2
  <2> HIDE DEF me, k
  <2> DEFINE a == me.view[s].attempt
  <2>5. \A q \in Runs, t \in Stages, b \in Attempts : JobMove(q, t, b)
    <3>1. CASE job' = job
      BY <3>1, <1>jb
    <3>2. CASE job[me.run][s][a].st = "none" /\ job' = [job EXCEPT ![me.run][s][a] = k]
      <4>a. a \in Attempts
        BY <2>2
      <4> HIDE DEF a
      <4>1. job'[me.run][s][a] = k
        BY <3>2, <2>2, <2>3, <4>a, <1>t
      <4>2. JobMove(me.run, s, a)
        BY <4>1, <3>2, <2>1, <2>3, <2>4 DEF JobMove
      <4> QED BY <3>2, <2>2, <2>3, <4>2, <4>a, <1>at
    <3> QED BY <2>1, <3>1, <3>2
  <2> QED BY <1>3, <1>pr, <2>5 DEF Enqueue
<1>4. ASSUME CancelJob PROVE Goal
  <2> DEFINE me == proc[Oper]
             J(s) == job[me.run][s][me.view[s].attempt]
  <2>1. PICK s \in First(me.set) :
            \/ job' = job
            \/ /\ J(s).st \in {"queued", "running"} \/ J(s).dec = "blocked"
               /\ job' = [job EXCEPT ![me.run][s][me.view[s].attempt].st = "cancelled"]
    BY <1>4 DEF CancelJob
  <2>2. s \in Stages /\ me.run \in Runs /\ me.view[s].attempt \in Attempts
    BY FirstIn, <1>t, <1>d DEF ProcRec, Rows
  <2>3. J(s) \in JobRows
    BY <2>2, <1>t
  <2> HIDE DEF me
  <2> DEFINE a == me.view[s].attempt
             k == [J(s) EXCEPT !.st = "cancelled"]
  <2>4. k \in JobRows /\ k.st = "cancelled" /\ k.more = J(s).more /\ k.gen = J(s).gen
    BY <2>3 DEF JobRows
  <2>5. \A q \in Runs, t \in Stages, b \in Attempts : JobMove(q, t, b)
    <3>1. CASE job' = job
      BY <3>1, <1>jb
    <3>2. CASE /\ J(s).st \in {"queued", "running"} \/ J(s).dec = "blocked"
               /\ job' = [job EXCEPT ![me.run][s][a] = k]
      <4>a. a \in Attempts /\ J(s) = job[me.run][s][a]
        BY <2>2
      <4> HIDE DEF a, k, J
      <4>1. job'[me.run][s][a] = k
        BY <3>2, <2>2, <2>4, <4>a, <1>t
      <4>2. JobMove(me.run, s, a)
        BY <4>1, <4>a, <3>2, <2>4 DEF JobMove
      <4> QED BY <3>2, <2>2, <2>4, <4>2, <4>a, <1>at
    <3> QED BY <2>1, <3>1, <3>2
  <2> QED BY <1>4, <1>pr, <2>5 DEF CancelJob
<1>5. ASSUME NEW r \in Runs, NEW s \in Stages, NEW a \in Attempts, JobStart(r, s, a) PROVE Goal
  <2> DEFINE j == job[r][s][a]
             k == [j EXCEPT !.st = "running"]
  <2>1. j \in JobRows /\ j.st = "queued" /\ job' = [job EXCEPT ![r][s][a] = k]
    BY <1>5, <1>t DEF JobStart
  <2>2. k \in JobRows /\ k.st = "running" /\ k.more = j.more /\ k.gen = j.gen
    BY <2>1 DEF JobRows
  <2> HIDE DEF k
  <2>3. job'[r][s][a] = k
    BY <2>1, <2>2, <1>t
  <2>4. JobMove(r, s, a)
    BY <2>1, <2>2, <2>3 DEF JobMove
  <2>5. \A q \in Runs, t \in Stages, b \in Attempts : JobMove(q, t, b)
    BY <2>1, <2>2, <2>4, <1>at
  <2> QED BY <1>5, <1>pr, <2>5 DEF JobStart
<1>6. ASSUME NEW r \in Runs, NEW s \in Stages, NEW a \in Attempts, JobSettle(r, s, a) PROVE Goal
  <2> DEFINE j == job[r][s][a]
             K(d, more) == [j EXCEPT !.st = "settled", !.dec = d, !.more = more]
  <2>1. PICK d \in {"ok", "skipped", "blocked", "failed"}, more \in BOOLEAN :
            /\ more => spec.kind[s] = "orchestrate" /\ j.gen < MaxGen
            /\ job' = [job EXCEPT ![r][s][a] = K(d, more)]
    BY <1>6 DEF JobSettle
  <2>2. j \in JobRows /\ j.st = "running"
    BY <1>6, <1>t DEF JobSettle
  <2> DEFINE k == K(d, more)
  <2>3. k \in JobRows /\ k.st = "settled" /\ k.more = more /\ k.gen = j.gen
    BY <2>2 DEF JobRows
  <2>e. job' = [job EXCEPT ![r][s][a] = k]
    BY <2>1
  <2> HIDE DEF K, k
  <2>4. job'[r][s][a] = k
    BY <2>e, <2>3, <1>t
  <2>5. JobMove(r, s, a)
    BY <2>1, <2>2, <2>3, <2>4 DEF JobMove
  <2>6. \A q \in Runs, t \in Stages, b \in Attempts : JobMove(q, t, b)
    BY <2>e, <2>3, <2>5, <1>at
  <2>7. pr' = pr \/ (pr[r][s] = "none" /\ pr' = [pr EXCEPT ![r][s] = "nopr"])
    BY <1>6 DEF JobSettle
  <2>8. \A q \in Runs, t \in Stages : PrMove(q, t)
    BY <2>7, <1>pr, <1>ps
  <2> QED BY <1>6, <2>6, <2>8 DEF JobSettle
<1>7. ASSUME NEW r \in Runs, NEW s \in Stages, NEW a \in Attempts, JobAdvance(r, s, a) PROVE Goal
  <2> DEFINE j == job[r][s][a]
             k == [j EXCEPT !.st = "queued", !.gen = j.gen + 1, !.more = FALSE]
  <2>0. j \in JobRows /\ j.st = "settled" /\ spec' = spec
    BY <1>7, <1>t DEF JobAdvance
  <2>1. CASE j.more /\ pr' = pr /\ job' = [job EXCEPT ![r][s][a] = k]
    <3>1. j.gen < MaxGen
      BY <1>b, <2>1 DEF JobInv
    <3>2. j.gen + 1 \in 0..MaxGen
      BY <3>1, <2>0, Constants DEF JobRows
    <3>3. k \in JobRows /\ k.st = "queued" /\ ~k.more
      BY <2>0, <3>2 DEF JobRows
    <3> HIDE DEF k
    <3>4. job'[r][s][a] = k
      BY <2>1, <3>3, <1>t
    <3>5. JobMove(r, s, a)
      BY <2>0, <2>1, <3>3, <3>4 DEF JobMove
    <3>6. \A q \in Runs, t \in Stages, b \in Attempts : JobMove(q, t, b)
      BY <2>1, <3>3, <3>5, <1>at
    <3> QED BY <2>0, <2>1, <1>pr, <3>6
  <2>2. CASE /\ job' = job /\ pr[r][s] = "none"
             /\ \E x \in {"open", "nopr"} : pr' = [pr EXCEPT ![r][s] = x]
    <3>1. \A q \in Runs, t \in Stages : PrMove(q, t)
      BY <2>2, <1>t DEF PrMove
    <3> QED BY <2>0, <2>2, <3>1, <1>jb
  <2> QED BY <1>7, <2>1, <2>2 DEF JobAdvance
<1>8. ASSUME NEW r \in Runs, NEW s \in Stages, Host(r, s) PROVE Goal
  <2>1. \A q \in Runs, t \in Stages : PrMove(q, t)
    BY <1>8, <1>t DEF Host, PrMove
  <2> QED BY <1>8, <2>1, <1>jb DEF Host
<1>9. ASSUME \/ \E p \in Procs :
                   \/ Check(p) \/ CreateRun(p) \/ CreateStage(p) \/ NextDue(p) \/ Trigger(p)
                   \/ List(p) \/ FoldGate(p) \/ PutMerged(p) \/ Start(p) \/ PutEnqueued(p)
                   \/ Skip(p) \/ Settle(p) \/ Crash(p)
             \/ \E r \in Runs : Resume(r) \/ Cancel(r)
             \/ ResumeStage \/ ResumeRun \/ CancelStage \/ CancelRun
             \/ \E r \in Runs, s \in Stages : Expire(r, s)
             \/ Tick \/ (\E u \in DOMAIN up : Upstream(u)) \/ UNCHANGED vars
      PROVE  UNCHANGED <<spec, job, pr>>
  BY <1>9 DEF Check, CreateRun, CreateStage, NextDue, Trigger, List, FoldGate, PutMerged, Start,
              PutEnqueued, Skip, Settle, Crash, Resume, Cancel, ResumeStage, ResumeRun,
              CancelStage, CancelRun, Expire, Tick, Upstream, vars
<1> QED
  BY <1>1, <1>2, <1>3, <1>4, <1>5, <1>6, <1>7, <1>8, <1>9, <1>u, <1>d
     DEF Next, Pass, Command, Work

\* Every step keeps what JobInv says of decisions and delegations.
LEMMA JobStep == Base /\ [Next]_vars => JobInv'
<1> SUFFICES ASSUME Base, [Next]_vars,
                    NEW r \in Runs, NEW s \in Stages, NEW a \in Attempts
             PROVE  /\ job'[r][s][a].st = "none" => job'[r][s][a].dec = "failed"
                    /\ job'[r][s][a].more =>
                          job'[r][s][a].gen < MaxGen /\ spec'.kind[s] = "orchestrate"
  BY DEF JobInv
<1>1. spec' = spec /\ JobMove(r, s, a)
  BY Moves
<1>2. /\ job[r][s][a].st = "none" => job[r][s][a].dec = "failed"
      /\ job[r][s][a].more => job[r][s][a].gen < MaxGen /\ spec.kind[s] = "orchestrate"
  BY DEF Base, JobInv
<1> QED BY <1>1, <1>2 DEF JobMove

-----------------------------------------------------------------------------
(* The stages that have done their work, per run *)

Finished == [r \in Runs |-> {s \in Stages : Done(r, s)}]

\* Finished is Done.
LEMMA FinishedDone ==
    ASSUME NEW r \in Runs, NEW s \in Stages
    PROVE  s \in Finished[r] <=> Done(r, s)
BY DEF Finished

\* The pull request of a stage, once it is known, stays known; a merge is final.
LEMMA PrStable ==
    ASSUME Base, [Next]_vars, NEW r \in Runs, NEW s \in Stages
    PROVE  /\ pr[r][s] = "merged" => pr'[r][s] = "merged"
           /\ pr[r][s] # "none" => pr'[r][s] # "none"
           /\ pr[r][s] \notin {"none", "nopr"} => pr'[r][s] \notin {"none", "nopr"}
BY Moves DEF PrMove

\* No step undoes the work of a stage.
LEMMA Stable ==
    ASSUME Base, [Next]_vars
    PROVE  \A r \in Runs : Finished[r] \subseteq Finished'[r]
<1> SUFFICES ASSUME NEW r \in Runs, NEW s \in Stages, Done(r, s)
             PROVE  Done(r, s)'
  BY DEF Finished
<1>1. spec' = spec
  BY Moves
<1>2. CASE spec.kind[s] \in Jobless
  <2>1. spec.source[s] \in Stages
    BY <1>2, SpecFacts DEF Base, SpecOK
  <2>2. pr[r][spec.source[s]] = "merged"
    BY <1>2 DEF Done
  <2>3. pr'[r][spec.source[s]] = "merged"
    BY <2>1, <2>2, PrStable
  <2> QED BY <1>1, <1>2, <2>3 DEF Done
<1>3. CASE spec.kind[s] \notin Jobless
  <2>1. PICK a \in Attempts :
            /\ job[r][s][a].st = "settled" /\ job[r][s][a].dec \in {"ok", "skipped"}
            /\ ~job[r][s][a].more
            /\ spec.kind[s] = "implement" => pr[r][s] # "none"
    BY <1>3 DEF Done
  <2>2. /\ job'[r][s][a].st = "settled" /\ job'[r][s][a].dec \in {"ok", "skipped"}
        /\ ~job'[r][s][a].more
    <3>1. JobMove(r, s, a)
      BY Moves
    <3> QED BY <2>1, <3>1 DEF JobMove
  <2>3. spec.kind[s] = "implement" => pr'[r][s] # "none"
    BY <2>1, PrStable
  <2> QED BY <1>1, <1>3, <2>2, <2>3 DEF Done
<1> QED BY <1>2, <1>3

\* A row, a row in a pass's view and a row about to be written that say
\* succeeded are about a stage that has done its work.
RowsHonest == \A r \in Runs, s \in Stages : row[r][s].state = "succeeded" => s \in Finished[r]
ViewHonest(me) ==
    \A s \in Stages : me.view[s].state = "succeeded" => s \in Finished[me.run]
OutHonest(me) ==
    me.pc \in {"merged", "enqueued"} /\ me.out.state = "succeeded" => me.at \in Finished[me.run]
Honest == RowsHonest /\ \A p \in Procs : ViewHonest(proc[p]) /\ OutHonest(proc[p])

\* An empty view is honest.
LEMMA IdleHonest ==
    ASSUME NEW me, me.view = Idle.view
    PROVE  ViewHonest(me)
<1>1. \A s \in Stages : me.view[s].state = "none"
  BY DEF Idle, NoRow
<1> QED BY <1>1 DEF ViewHonest

\* Only a process about to write has a result.
LEMMA QuietOut == ASSUME NEW me, me.pc \notin {"merged", "enqueued"} PROVE OutHonest(me)
BY DEF OutHonest

\* What a pass does next is honest if its view is.
LEMMA NextHonest ==
    ASSUME NEW me \in ProcRec, ViewHonest(me)
    PROVE  /\ ViewHonest(FoldNext(me)) /\ OutHonest(FoldNext(me))
           /\ ViewHonest(EnqueueNext(me)) /\ OutHonest(EnqueueNext(me))
           /\ ViewHonest(SkipNext(me)) /\ OutHonest(SkipNext(me))
           /\ ViewHonest(PassDone(me)) /\ OutHonest(PassDone(me))
<1>1. \A y : ((y.view = me.view /\ y.run = me.run) \/ y.view = Idle.view) => ViewHonest(y)
  <2> SUFFICES ASSUME NEW y, (y.view = me.view /\ y.run = me.run) \/ y.view = Idle.view
               PROVE ViewHonest(y)
    OBVIOUS
  <2>1. CASE y.view = me.view /\ y.run = me.run
    BY <2>1 DEF ViewHonest
  <2>2. CASE y.view = Idle.view
    BY <2>2, IdleHonest
  <2> QED BY <2>1, <2>2
<1>2. \A y : y.pc \in Quiet => OutHonest(y)
  BY DEF OutHonest, Quiet
<1>3. ViewHonest(FoldNext(me)) /\ OutHonest(FoldNext(me))
  BY <1>1, <1>2, FoldNextType
<1>4. ViewHonest(EnqueueNext(me)) /\ OutHonest(EnqueueNext(me))
  BY <1>1, <1>2, EnqueueNextType
<1>5. ViewHonest(SkipNext(me)) /\ OutHonest(SkipNext(me))
  BY <1>1, <1>2, SkipNextType
<1>6. ViewHonest(PassDone(me)) /\ OutHonest(PassDone(me))
  BY <1>1, <1>2, PassDoneType
<1> QED BY <1>3, <1>4, <1>5, <1>6

\* So is a view a true row is put in.
LEMMA SawHonest ==
    ASSUME NEW me \in ProcRec, ViewHonest(me), NEW s \in Stages, NEW x \in Rows,
           x.state = "succeeded" => s \in Finished[me.run]
    PROVE  Saw(me, s, x) \in ProcRec /\ ViewHonest(Saw(me, s, x))
<1> DEFINE y == Saw(me, s, x)
<1>1. y \in ProcRec /\ y.view = [me.view EXCEPT ![s] = x] /\ y.run = me.run
  BY SawType
<1>2. me.view \in [Stages -> Rows]
  BY DEF ProcRec
<1> HIDE DEF y
<1>3. \A t \in Stages : y.view[t] = IF t = s THEN x ELSE me.view[t]
  BY <1>1, <1>2
<1>4. ViewHonest(y)
  BY <1>1, <1>3 DEF ViewHonest
<1> QED BY <1>1, <1>4 DEF y

\* Only a success ends in success.
LEMMA EndedSucceeded ==
    ASSUME NEW s, NEW x \in Rows, NEW st \in {"succeeded", "blocked", "failed"},
           Ended(s, x, st).state = "succeeded"
    PROVE  st = "succeeded"
<1>1. st = "failed" /\ x.attempt < spec.retry[s] => Ended(s, x, st).state = "pending"
  BY DEF Ended, Pending, NoRow
<1>2. ~(st = "failed" /\ x.attempt < spec.retry[s]) => Ended(s, x, st).state = st
  BY DEF Ended, Rows
<1> QED BY <1>1, <1>2

\* A fold reads success off a job only if the stage has done its work.
LEMMA JobOutcomeHonest ==
    ASSUME Base, NEW r \in Runs, NEW s \in Stages, NEW x \in Rows, InFlight(x),
           spec.kind[s] \notin Jobless, JobOutcome(r, s, x).state = "succeeded"
    PROVE  s \in Finished[r]
<1> DEFINE j == job[r][s][x.attempt]
<1>a. x.attempt \in Attempts
  BY DEF Rows
<1>1. x.attempt \in Attempts /\ j \in JobRows
  BY <1>a DEF Base, TypeOK
<1>i. (j.st = "none" => j.dec = "failed")
  BY <1>1 DEF Base, JobInv
<1>2. x.state # "succeeded" /\ Reflect(x).state # "succeeded"
      /\ [Reflect(x) EXCEPT !.gen = @ + 1].state # "succeeded"
  BY DEF InFlight, Reflect, Rows
<1>3. FoldOutcome(j) \in {"succeeded", "blocked", "failed"}
  BY <1>1, FoldOutcomeType
<1> HIDE DEF j
<1>4. /\ ~(j.st \in {"queued", "running"}) /\ ~(j.st = "settled" /\ j.more)
      /\ ~(spec.kind[s] = "implement" /\ FoldOutcome(j) = "succeeded" /\ pr[r][s] = "none")
      /\ JobOutcome(r, s, x) = Ended(s, x, FoldOutcome(j))
  BY <1>2 DEF JobOutcome, j
<1>5. FoldOutcome(j) = "succeeded"
  BY <1>3, <1>4, EndedSucceeded
<1>6. j.st # "cancelled" /\ j.dec \in {"ok", "skipped"}
  BY <1>1, <1>5 DEF FoldOutcome, JobRows
<1>7. j.st = "settled" /\ ~j.more /\ (spec.kind[s] = "implement" => pr[r][s] # "none")
  BY <1>1, <1>i, <1>4, <1>5, <1>6 DEF JobRows
<1>8. Done(r, s)
  BY <1>1, <1>6, <1>7 DEF Done, j
<1> QED BY <1>8, FinishedDone

\* A gate reads success off a merged pull request only.
LEMMA GateOutcomeHonest ==
    ASSUME NEW r \in Runs, NEW s \in Stages, NEW ci, spec.kind[s] \in Jobless,
           GateOutcome(r, s) = "succeeded" \/ AutoOutcome(r, s, ci) = "succeeded"
    PROVE  s \in Finished[r]
<1>1. ASSUME GateOutcome(r, s) = "succeeded" PROVE pr[r][spec.source[s]] = "merged"
  BY <1>1 DEF GateOutcome, SourcePR
<1>2. ASSUME AutoOutcome(r, s, ci) = "succeeded" PROVE pr[r][spec.source[s]] = "merged"
  BY <1>2 DEF AutoOutcome, Evaluate
<1>3. Done(r, s)
  BY <1>1, <1>2 DEF Done
<1> QED BY <1>3, FinishedDone

\* Every step keeps rows, views and results about to be written honest.
LEMMA HonestStep == Base /\ Honest /\ [Next]_vars => Honest'
<1> SUFFICES ASSUME Base, Honest, [Next]_vars PROVE Honest'
  OBVIOUS
<1>b. TypeOK /\ JobInv /\ ProcInv
  BY DEF Base
<1>t. /\ row \in [Runs -> [Stages -> Rows]] /\ proc \in [Procs -> ProcRec]
      /\ \A p \in Procs : /\ proc[p] \in ProcRec /\ proc[p].run \in Runs
                          /\ proc[p].view \in [Stages -> Rows]
  BY <1>b, TypeParts DEF ProcRec
<1>h. /\ \A r \in Runs, s \in Stages : row[r][s].state = "succeeded" => s \in Finished[r]
      /\ \A p \in Procs : ViewHonest(proc[p]) /\ OutHonest(proc[p])
  BY DEF Honest, RowsHonest
<1>s. \A r \in Runs : Finished[r] \subseteq Finished'[r]
  BY Stable
<1>d. Daemon \in Procs /\ Cli \in Procs /\ Oper \in Procs
  BY DEF Procs
<1>row. ASSUME \A r \in Runs, s \in Stages :
                  row'[r][s].state = "succeeded" =>
                      row[r][s].state = "succeeded" \/ s \in Finished[r]
        PROVE  RowsHonest'
  BY <1>row, <1>h, <1>s DEF RowsHonest
<1>same. row' = row => RowsHonest'
  BY <1>row
<1>put. ASSUME NEW p \in Procs, NEW s \in Stages, NEW x \in Rows, Put(p, s, x),
               x.state = "succeeded" => s \in Finished[proc[p].run]
        PROVE  RowsHonest'
  <2>1. \A r \in Runs, t \in Stages :
           row'[r][t] = row[r][t] \/ (r = proc[p].run /\ t = s /\ row'[r][t] = x)
    BY <1>put, <1>b, PutType
  <2> QED BY <1>put, <2>1, <1>row
<1>old. \A p \in Procs : proc'[p] = proc[p] => ViewHonest(proc[p])' /\ OutHonest(proc[p])'
  <2> SUFFICES ASSUME NEW p \in Procs, proc'[p] = proc[p]
               PROVE ViewHonest(proc[p])' /\ OutHonest(proc[p])'
    OBVIOUS
  <2>1. ViewHonest(proc[p])'
    BY <1>h, <1>s, <1>t DEF ViewHonest
  <2>2. OutHonest(proc[p])'
    BY <1>h, <1>s, <1>t DEF OutHonest
  <2> QED BY <2>1, <2>2
<1>keep. proc' = proc => \A p \in Procs : ViewHonest(proc[p])' /\ OutHonest(proc[p])'
  BY <1>old
<1>move. ASSUME NEW p \in Procs, NEW me \in ProcRec, Move(p, me), ViewHonest(me), OutHonest(me)
         PROVE  \A q \in Procs : ViewHonest(proc[q])' /\ OutHonest(proc[q])'
  <2>1. \A q \in Procs : proc'[q] = IF q = p THEN me ELSE proc[q]
    BY <1>move, <1>t DEF Move
  <2>2. me.run \in Runs
    BY DEF ProcRec
  <2>3. ViewHonest(proc[p])' /\ OutHonest(proc[p])'
    <3>1. proc'[p] = me
      BY <2>1
    <3>2. ViewHonest(proc[p])'
      BY <1>move, <2>2, <3>1, <1>s DEF ViewHonest
    <3>3. OutHonest(proc[p])'
      BY <1>move, <2>2, <3>1, <1>s DEF OutHonest
    <3> QED BY <3>2, <3>3
  <2> QED BY <2>1, <2>3, <1>old
<1>all. ASSUME RowsHonest', \A q \in Procs : ViewHonest(proc[q])' /\ OutHonest(proc[q])'
        PROVE  Honest'
  BY <1>all DEF Honest
<1>idle. ASSUME NEW p \in Procs, NEW me \in ProcRec, Move(p, me), me.view = Idle.view,
                me.pc \notin {"merged", "enqueued"}
         PROVE  \A q \in Procs : ViewHonest(proc[q])' /\ OutHonest(proc[q])'
  BY <1>idle, <1>move, IdleHonest, QuietOut
<1>keeps. ASSUME NEW p \in Procs, NEW me \in ProcRec, Move(p, me), me.view = proc[p].view,
                me.run = proc[p].run, me.pc \notin {"merged", "enqueued"}
         PROVE  \A q \in Procs : ViewHonest(proc[q])' /\ OutHonest(proc[q])'
  <2>1. ViewHonest(me)
    BY <1>keeps, <1>h DEF ViewHonest
  <2> QED BY <1>keeps, <2>1, <1>move, QuietOut
<1>saw. ASSUME NEW p \in Procs, NEW s \in Stages, NEW x \in Rows, Put(p, s, x),
               x.state = "succeeded" => s \in Finished[proc[p].run],
               \/ Move(p, FoldNext(Saw(proc[p], s, x)))
               \/ Move(p, EnqueueNext(Saw(proc[p], s, x)))
               \/ Move(p, SkipNext(Saw(proc[p], s, x)))
        PROVE  Honest'
  <2> DEFINE me == Saw(proc[p], s, x)
  <2>1. me \in ProcRec /\ ViewHonest(me)
    BY <1>saw, <1>t, <1>h, SawHonest
  <2> HIDE DEF me
  <2>2. /\ FoldNext(me) \in ProcRec /\ EnqueueNext(me) \in ProcRec /\ SkipNext(me) \in ProcRec
    BY <2>1, FoldNextType, EnqueueNextType, SkipNextType
  <2>3. /\ ViewHonest(FoldNext(me)) /\ OutHonest(FoldNext(me))
        /\ ViewHonest(EnqueueNext(me)) /\ OutHonest(EnqueueNext(me))
        /\ ViewHonest(SkipNext(me)) /\ OutHonest(SkipNext(me))
    BY <2>1, NextHonest
  <2>4. Move(p, FoldNext(me)) \/ Move(p, EnqueueNext(me)) \/ Move(p, SkipNext(me))
    BY <1>saw DEF me
  <2>5. \A q \in Procs : ViewHonest(proc[q])' /\ OutHonest(proc[q])'
    BY <2>2, <2>3, <2>4, <1>move
  <2>6. RowsHonest'
    BY <1>saw, <1>put
  <2> QED BY <2>5, <2>6, <1>all
<1>i. Idle \in ProcRec /\ Idle.pc = "idle" /\ \A pc \in {"create", "trigger", "idle", "due"} :
          /\ [Idle EXCEPT !.pc = pc] \in ProcRec /\ [Idle EXCEPT !.pc = pc].view = Idle.view
          /\ [Idle EXCEPT !.pc = pc].pc \notin {"merged", "enqueued"}
  <2>1. Idle \in ProcRec /\ Idle.pc = "idle"
    BY Constants DEF Idle
  <2> QED BY <2>1 DEF ProcRec, PCs
<1>1. ASSUME NEW p \in Procs, Check(p) PROVE Honest'
  <2>1. row' = row /\ \E pc \in {"create", "trigger", "idle", "due"} : Move(p, [Idle EXCEPT !.pc = pc])
    BY <1>1 DEF Check
  <2> QED BY <2>1, <1>i, <1>idle, <1>same, <1>all
<1>2. ASSUME NEW p \in Procs, CreateRun(p) PROVE Honest'
  <2>1. PICK r \in Fresh : Move(p, [Idle EXCEPT !.pc = "stages", !.run = r])
    BY <1>2 DEF CreateRun
  <2> DEFINE me == [Idle EXCEPT !.pc = "stages", !.run = r]
  <2>r. r \in Runs
    BY DEF Fresh
  <2>2. me \in ProcRec /\ me.view = Idle.view /\ me.pc = "stages"
    <3>1. me \in ProcRec
      BY <2>r, Constants DEF ProcRec, PCs
    <3>2. me.view = Idle.view /\ me.pc = "stages"
      BY Constants DEF ProcRec
    <3> QED BY <3>1, <3>2
  <2>3. row' = row
    BY <1>2 DEF CreateRun
  <2> HIDE DEF me
  <2>4. Move(p, me)
    BY <2>1 DEF me
  <2> QED BY <2>2, <2>3, <2>4, <1>idle, <1>same, <1>all
<1>3. ASSUME NEW p \in Procs, CreateStage(p) PROVE Honest'
  <2> DEFINE me == proc[p]
             me1 == IF me.at < NStages THEN [me EXCEPT !.at = @ + 1]
                    ELSE [me EXCEPT !.pc = IF p = Daemon THEN "due" ELSE "list",
                                    !.at = 1, !.todo = IF p = Daemon THEN {} ELSE {me.run}]
  <2>1. /\ me \in ProcRec /\ me.at \in Stages /\ me.pc = "stages" /\ me.run \in Runs
    BY <1>3, <1>b, <1>t DEF CreateStage, ProcInv, ProcOK, OnStage, ProcRec
  <2>2. row' = [row EXCEPT ![me.run][me.at] = Pending] /\ Move(p, me1)
    BY <1>3 DEF CreateStage
  <2>3. me.at < NStages => me.at + 1 \in 1..(NStages + 1)
    BY <2>1, Constants DEF Stages
  <2>4. me1 \in ProcRec /\ me1.view = me.view /\ me1.run = me.run
        /\ me1.pc \notin {"merged", "enqueued"}
    BY <2>1, <2>3, Constants DEF ProcRec, PCs
  <2> HIDE DEF me1
  <2>5. RowsHonest'
    <3>1. Pending.state = "pending"
      BY DEF Pending, NoRow
    <3>2. \A r \in Runs, s \in Stages : row'[r][s] = row[r][s] \/ row'[r][s] = Pending
      BY <2>1, <2>2, <1>t
    <3> QED BY <3>1, <3>2, <1>row
  <2> QED BY <2>2, <2>4, <2>5, <1>keeps, <1>all
<1>4. ASSUME NEW p \in Procs, NextDue(p) PROVE Honest'
  BY <1>4, <1>i, <1>idle, <1>same, <1>all DEF NextDue
<1>5. ASSUME NEW p \in Procs, Trigger(p) PROVE Honest'
  <2> DEFINE me1 == [Idle EXCEPT !.todo = {r \in Runs : run'[r].state = "running"}]
  <2>1. me1 \in ProcRec
    BY <1>i DEF ProcRec
  <2>2. Move(p, PassDone(me1))
    BY <1>5 DEF Trigger
  <2> HIDE DEF me1
  <2>3. PassDone(me1) \in ProcRec /\ PassDone(me1).view = Idle.view
        /\ PassDone(me1).pc \notin {"merged", "enqueued"}
    BY <2>1, PassDoneType DEF Quiet
  <2>4. RowsHonest'
    <3>1. row' = row \/ \E r \in Fresh : row' = [row EXCEPT ![r] = [s \in Stages |-> Pending]]
      BY <1>5 DEF Trigger
    <3>2. Pending.state = "pending"
      BY DEF Pending, NoRow
    <3>3. \A r \in Runs, s \in Stages : row'[r][s] = row[r][s] \/ row'[r][s] = Pending
      BY <3>1, <1>t DEF Fresh
    <3> QED BY <3>2, <3>3, <1>row
  <2> QED BY <2>2, <2>3, <2>4, <1>idle, <1>all
<1>6. ASSUME NEW p \in Procs, List(p) PROVE Honest'
  <2>1. PICK r \in First(proc[p].todo) :
            Move(p, FoldNext([Idle EXCEPT !.run = r, !.view = row[r], !.todo = proc[p].todo \ {r}]))
    BY <1>6 DEF List
  <2>2. r \in Runs /\ proc[p].todo \subseteq Runs
    BY FirstIn, <1>t DEF ProcRec
  <2> DEFINE me1 == [Idle EXCEPT !.run = r, !.view = row[r], !.todo = proc[p].todo \ {r}]
  <2>3. me1 \in ProcRec /\ me1.view = row[r] /\ me1.run = r
    BY <2>2, <1>t, <1>i DEF ProcRec
  <2> HIDE DEF me1
  <2>4. ViewHonest(me1)
    BY <2>2, <2>3, <1>h DEF ViewHonest
  <2>5. FoldNext(me1) \in ProcRec /\ ViewHonest(FoldNext(me1)) /\ OutHonest(FoldNext(me1))
    BY <2>3, <2>4, FoldNextType, NextHonest
  <2>6. Move(p, FoldNext(me1)) /\ row' = row
    BY <1>6, <2>1 DEF List, me1
  <2> QED BY <2>5, <2>6, <1>move, <1>same, <1>all
<1>o. ASSUME NEW p \in Procs, NEW s \in Open(proc[p])
      PROVE  s \in Stages /\ proc[p].view[s] \in Rows /\ InFlight(proc[p].view[s])
  <2>1. s \in proc[p].at..NStages /\ proc[p].at \in 1..(NStages + 1) /\ InFlight(proc[p].view[s])
    BY <1>t, FirstIn DEF Open, ProcRec
  <2>2. s \in Stages
    BY <2>1, Constants DEF Stages
  <2> QED BY <2>1, <2>2, <1>t
<1>r. ASSUME NEW p \in Procs, NEW s \in Ready(proc[p])
      PROVE  /\ s \in Stages /\ proc[p].view[s] \in Rows /\ proc[p].view[s].state = "pending"
             /\ proc[p].view[s].attempt \in Attempts
  <2>1. /\ s \in proc[p].at..NStages /\ proc[p].at \in 1..(NStages + 1)
        /\ proc[p].view[s].state = "pending"
    BY <1>t, FirstIn DEF Ready, ProcRec
  <2>2. s \in Stages
    BY <2>1, Constants DEF Stages
  <2> QED BY <2>1, <2>2, <1>t DEF Rows
<1>7. ASSUME NEW p \in Procs, Fold(p) PROVE Honest'
  <2> DEFINE X(s) == JobOutcome(proc[p].run, s, proc[p].view[s])
  <2>1. PICK s \in Open(proc[p]) :
            /\ spec.kind[s] \notin Jobless
            /\ Put(p, s, X(s)) /\ Move(p, FoldNext(Saw(proc[p], s, X(s))))
    BY <1>7 DEF Fold
  <2>2. s \in Stages /\ proc[p].view[s] \in Rows /\ InFlight(proc[p].view[s])
    BY <1>o
  <2>3. X(s) \in Rows
    BY <2>2, <1>t, <1>b, JobOutcomeType
  <2>4. X(s).state = "succeeded" => s \in Finished[proc[p].run]
    BY <2>1, <2>2, <1>t, JobOutcomeHonest
  <2> HIDE DEF X
  <2> QED BY <2>1, <2>2, <2>3, <2>4, <1>saw
<1>8. ASSUME NEW p \in Procs, FoldGate(p) PROVE Honest'
  <2> DEFINE me == proc[p]
             O(s, ci) == IF spec.kind[s] = "gate" THEN GateOutcome(me.run, s)
                         ELSE AutoOutcome(me.run, s, ci)
             X(s, o) == IF o = "wait" THEN Waiting(me.view[s]) ELSE [me.view[s] EXCEPT !.state = o]
  <2>1. PICK s \in Open(me), ci \in {"green", "red", "unknown"} :
            /\ spec.kind[s] \in Jobless
            /\ \/ /\ O(s, ci) = "claim"
                  /\ Move(p, [me EXCEPT !.pc = "merge", !.at = s])
                  /\ UNCHANGED row
               \/ /\ O(s, ci) # "claim"
                  /\ Put(p, s, X(s, O(s, ci))) /\ Move(p, FoldNext(Saw(me, s, X(s, O(s, ci)))))
    BY <1>8 DEF FoldGate
  <2>2. s \in Stages /\ me.view[s] \in Rows /\ me \in ProcRec /\ me.run \in Runs
    BY <1>o, <1>t
  <2>3. O(s, ci) \in {"wait", "blocked", "succeeded", "claim"}
    BY AutoOutcomeType, GateOutcomeType
  <2>k. spec.kind[s] \in Jobless
    BY <2>1
  <2>4. CASE O(s, ci) = "claim"
    <3> DEFINE me1 == [me EXCEPT !.pc = "merge", !.at = s]
    <3>1. me1 \in ProcRec /\ me1.view = me.view /\ me1.run = me.run /\ me1.pc = "merge"
      BY <2>2, Constants DEF ProcRec, PCs
    <3>2. Move(p, me1) /\ row' = row
      BY <2>1, <2>4, Zenon
    <3> HIDE DEF me1
    <3> QED BY <3>1, <3>2, <1>keeps, <1>same, <1>all
  <2>5. CASE O(s, ci) # "claim"
    <3> DEFINE o == O(s, ci)
               x == X(s, o)
    <3>1. o = "succeeded" => s \in Finished[me.run]
      BY <2>k, <2>2, GateOutcomeHonest
    <3>2. Put(p, s, x) /\ Move(p, FoldNext(Saw(me, s, x)))
      BY <2>1, <2>5
    <3>3. o \in {"wait", "blocked", "succeeded"}
      BY <2>3, <2>5
    <3> HIDE DEF o
    <3>4. x \in Rows /\ (x.state = "succeeded" => o = "succeeded")
      <4>1. Waiting(me.view[s]) \in Rows /\ Waiting(me.view[s]).state # "succeeded"
        BY <2>2, WaitingType
      <4>2. \A z \in {"blocked", "succeeded"} :
                /\ [me.view[s] EXCEPT !.state = z] \in Rows
                /\ [me.view[s] EXCEPT !.state = z].state = z
        BY <2>2 DEF Rows, StageStates
      <4> QED BY <3>3, <4>1, <4>2
    <3> HIDE DEF x
    <3> QED BY <2>2, <3>1, <3>2, <3>4, <1>saw
  <2> QED BY <2>4, <2>5
<1>9. ASSUME NEW p \in Procs, Merge(p) PROVE Honest'
  <2> DEFINE me == proc[p]
             src == spec.source[me.at]
             Out(ok) == [me.view[me.at] EXCEPT !.state = IF ok THEN "succeeded" ELSE "blocked"]
  <2>1. PICK ok \in BOOLEAN :
            /\ ok => pr' = [pr EXCEPT ![me.run][src] = "merged"]
            /\ Move(p, [me EXCEPT !.pc = "merged", !.out = Out(ok)])
    BY <1>9 DEF Merge
  <2>2. /\ me \in ProcRec /\ me.pc = "merge" /\ me.at \in Stages /\ me.run \in Runs
        /\ spec.kind[me.at] = "auto" /\ me.view[me.at] \in Rows
    BY <1>9, <1>b, <1>t DEF Merge, ProcInv, ProcOK, OnStage, ProcRec
  <2>3. src \in Stages
    BY <2>2, <1>b, SpecFacts DEF SpecOK, Jobless
  <2>4. Out(ok) \in Rows /\ (Out(ok).state = "succeeded" => ok)
    BY <2>2 DEF Rows, StageStates
  <2>5. row' = row /\ spec' = spec
    BY <1>9 DEF Merge
  <2> HIDE DEF Out, me, src
  <2>6. ok => me.at \in Finished'[me.run]
    <3> SUFFICES ASSUME ok PROVE me.at \in Finished'[me.run]
      OBVIOUS
    <3>1. pr'[me.run][src] = "merged"
      BY <2>1, <2>2, <2>3, <1>b DEF TypeOK
    <3>2. \A r \in Runs, s \in Stages :
              s \in Finished'[r] <=> Done(r, s)'
      BY DEF Finished
    <3>3. \A r \in Runs, s \in Stages :
             spec.kind[s] \in Jobless /\ pr'[r][spec.source[s]] = "merged" => s \in Finished'[r]
      BY <3>2, <2>5 DEF Done
    <3> QED BY <2>2, <3>1, <3>3 DEF src, Jobless
  <2>7. \A q \in Procs : proc'[q] = IF q = p THEN [me EXCEPT !.pc = "merged", !.out = Out(ok)]
                                   ELSE proc[q]
    BY <2>1, <1>t DEF Move
  <2>8. /\ proc'[p].view = me.view /\ proc'[p].run = me.run /\ proc'[p].at = me.at
        /\ proc'[p].out = Out(ok)
    BY <2>2, <2>7 DEF ProcRec
  <2>9. ViewHonest(proc[p])'
    <3>1. \A s \in Stages : me.view[s].state = "succeeded" => s \in Finished'[me.run]
      BY <1>h, <1>s, <2>2 DEF ViewHonest, me
    <3> QED BY <2>8, <3>1 DEF ViewHonest
  <2>10. OutHonest(proc[p])'
    BY <2>4, <2>6, <2>8 DEF OutHonest
  <2>11. \A q \in Procs : ViewHonest(proc[q])' /\ OutHonest(proc[q])'
    BY <2>7, <2>9, <2>10, <1>old
  <2> QED BY <2>5, <2>11, <1>same, <1>all
<1>10. ASSUME NEW p \in Procs, PutMerged(p) \/ PutEnqueued(p) PROVE Honest'
  <2> DEFINE me == proc[p]
  <2>1. /\ me \in ProcRec /\ me.at \in Stages /\ me.out \in Rows
        /\ me.pc \in {"merged", "enqueued"}
    BY <1>10, <1>b, <1>t DEF PutMerged, PutEnqueued, ProcInv, ProcOK, OnStage, ProcRec
  <2>2. me.out.state = "succeeded" => me.at \in Finished[me.run]
    BY <2>1, <1>h DEF OutHonest
  <2>3. /\ Put(p, me.at, me.out)
        /\ Move(p, FoldNext(Saw(me, me.at, me.out))) \/ Move(p, EnqueueNext(Saw(me, me.at, me.out)))
    BY <1>10 DEF PutMerged, PutEnqueued
  <2> QED BY <2>1, <2>2, <2>3, <1>saw
<1>11. ASSUME NEW p \in Procs, Start(p) PROVE Honest'
  <2> DEFINE X(s) == [proc[p].view[s] EXCEPT
                            !.state = IF spec.kind[s] \in Jobless THEN "queued" ELSE "blocked"]
  <2>1. PICK s \in Ready(proc[p]) : Put(p, s, X(s)) /\ Move(p, EnqueueNext(Saw(proc[p], s, X(s))))
    BY <1>11 DEF Start
  <2>2. X(s) \in Rows /\ s \in Stages /\ X(s).state # "succeeded"
    BY <1>r DEF Rows, StageStates
  <2> HIDE DEF X
  <2> QED BY <2>1, <2>2, <1>saw
<1>12. ASSUME NEW p \in Procs, Enqueue(p) PROVE Honest'
  <2> DEFINE me == proc[p]
             J(s) == job[me.run][s][me.view[s].attempt]
             Out(s) == IF spec.kind[s] = "produce" /\ J(s).st \in {"settled", "cancelled"}
                       THEN Ended(s, [me.view[s] EXCEPT !.gen = 1], FoldOutcome(J(s)))
                       ELSE [me.view[s] EXCEPT !.state = "queued", !.gen = 1]
             me1(s) == [me EXCEPT !.pc = "enqueued", !.at = s, !.out = Out(s)]
  <2>1. PICK s \in Ready(me) : Move(p, me1(s))
    BY <1>12 DEF Enqueue
  <2>r. row' = row
    BY <1>12 DEF Enqueue
  <2>2. s \in Stages /\ me \in ProcRec /\ me.view[s] \in Rows /\ me.run \in Runs
        /\ me.view[s].attempt \in Attempts
    BY <1>r, <1>t
  <2>3. J(s) \in JobRows
    BY <2>2, <1>b, TypeParts
  <2>4. /\ [me.view[s] EXCEPT !.gen = 1] \in Rows
        /\ [me.view[s] EXCEPT !.state = "queued", !.gen = 1] \in Rows
        /\ [me.view[s] EXCEPT !.state = "queued", !.gen = 1].state = "queued"
    <3>1. 1 \in 0..MaxGen
      BY Constants
    <3> QED BY <2>2, <3>1 DEF Rows, StageStates
  <2>j. (J(s).more => spec.kind[s] = "orchestrate")
    BY <2>2, <1>b DEF JobInv
  <2>5. FoldOutcome(J(s)) \in {"succeeded", "blocked", "failed"}
    BY <2>3, FoldOutcomeType
  <2>d. ASSUME spec.kind[s] = "produce", J(s).st = "settled", J(s).dec \in {"ok", "skipped"}
        PROVE  s \in Finished[me.run]
    <3>1. Done(me.run, s)
      BY <2>d, <2>j, <2>2 DEF Done, Jobless
    <3> QED BY <3>1, <2>2, FinishedDone
  <2> HIDE DEF J
  <2>6. Out(s) \in Rows
    BY <2>2, <2>4, <2>5, <1>b, EndedType
  <2>7. Out(s).state = "succeeded" => s \in Finished[me.run]
    <3> SUFFICES ASSUME Out(s).state = "succeeded" PROVE s \in Finished[me.run]
      OBVIOUS
    <3>1. /\ spec.kind[s] = "produce" /\ J(s).st \in {"settled", "cancelled"}
          /\ Out(s) = Ended(s, [me.view[s] EXCEPT !.gen = 1], FoldOutcome(J(s)))
      BY <2>4
    <3>2. FoldOutcome(J(s)) = "succeeded"
      <4> HIDE DEF Out
      <4> QED BY <3>1, <2>4, <2>5, EndedSucceeded
    <3>3. J(s).st = "settled" /\ J(s).dec \in {"ok", "skipped"}
      BY <3>1, <3>2, <2>3 DEF FoldOutcome, JobRows
    <3> QED BY <3>1, <3>3, <2>d
  <2> HIDE DEF Out
  <2>8. /\ me1(s) \in ProcRec /\ me1(s).view = me.view /\ me1(s).run = me.run
        /\ me1(s).at = s /\ me1(s).out = Out(s)
    BY <2>2, <2>6, Constants DEF ProcRec, PCs
  <2> HIDE DEF me1
  <2>9. ViewHonest(me1(s)) /\ OutHonest(me1(s))
    BY <2>7, <2>8, <1>h DEF ViewHonest, OutHonest
  <2> QED BY <2>1, <2>r, <2>8, <2>9, <1>move, <1>same, <1>all
<1>13. ASSUME NEW p \in Procs, Skip(p) PROVE Honest'
  <2> DEFINE X(s) == [proc[p].view[s] EXCEPT !.state = "skipped"]
  <2>1. PICK s \in Left(proc[p]) : Put(p, s, X(s)) /\ Move(p, SkipNext(Saw(proc[p], s, X(s))))
    BY <1>13 DEF Skip
  <2>2. s \in Stages
    BY FirstIn DEF Left
  <2>3. X(s) \in Rows /\ X(s).state # "succeeded"
    <3>1. proc[p].view[s] \in Rows
      BY <2>2, <1>t
    <3> QED BY <3>1 DEF Rows, StageStates
  <2> HIDE DEF X
  <2> QED BY <2>1, <2>2, <2>3, <1>saw
<1>14. ASSUME NEW p \in Procs, Settle(p) PROVE Honest'
  <2>1. Move(p, PassDone(proc[p])) /\ row' = row
    BY <1>14 DEF Settle
  <2>2. PassDone(proc[p]) \in ProcRec /\ PassDone(proc[p]).view = Idle.view
        /\ PassDone(proc[p]).pc \notin {"merged", "enqueued"}
    BY <1>t, PassDoneType DEF Quiet
  <2> QED BY <2>1, <2>2, <1>idle, <1>same, <1>all
<1>15. ASSUME NEW r \in Runs, Resume(r) \/ Cancel(r) PROVE Honest'
  <2> DEFINE me(pc, set) == [Idle EXCEPT !.pc = pc, !.run = r, !.view = row[r], !.set = set]
  <2>1. /\ row' = row
        /\ \E pc \in {"reset", "kill"}, set \in SUBSET Stages : Move(Oper, me(pc, set))
    <3>1. CASE Resume(r)
      <4>1. PICK from \in {run[r].halt} \cup Stages :
               Move(Oper, me("reset", {s \in AndDependents(from) :
                                          row[r][s].state \notin {"none", "succeeded"}}))
        BY <3>1 DEF Resume
      <4>2. {s \in AndDependents(from) : row[r][s].state \notin {"none", "succeeded"}}
               \in SUBSET Stages
        BY DEF AndDependents
      <4>3. row' = row
        BY <3>1 DEF Resume
      <4> HIDE DEF me
      <4> QED BY <4>1, <4>2, <4>3
    <3>2. CASE Cancel(r)
      <4>1. /\ Move(Oper, me("kill", {s \in Stages :
                                        row[r][s].state \in {"pending", "queued", "running"}}))
            /\ row' = row
        BY <3>2 DEF Cancel
      <4> HIDE DEF me
      <4> QED BY <4>1
    <3> QED BY <1>15, <3>1, <3>2
  <2>2. PICK pc \in {"reset", "kill"}, set \in SUBSET Stages : Move(Oper, me(pc, set))
    BY <2>1
  <2>3. /\ me(pc, set) \in ProcRec /\ me(pc, set).view = row[r] /\ me(pc, set).run = r
        /\ me(pc, set).pc = pc
    <3>1. row[r] \in [Stages -> Rows]
      BY <1>t
    <3>2. me(pc, set) \in ProcRec
      BY <3>1, Constants DEF ProcRec, PCs
    <3>3. me(pc, set).view = row[r] /\ me(pc, set).run = r /\ me(pc, set).pc = pc
      BY Constants DEF ProcRec
    <3> QED BY <3>2, <3>3
  <2> HIDE DEF me
  <2>4. ViewHonest(me(pc, set)) /\ OutHonest(me(pc, set))
    BY <2>3, <1>h DEF ViewHonest, OutHonest
  <2> QED BY <2>1, <2>2, <2>3, <2>4, <1>d, <1>move, <1>same, <1>all
<1>w. ASSUME NEW s \in Stages, NEW x, x.state # "succeeded",
             row' = [row EXCEPT ![proc[Oper].run][s] = x]
      PROVE  RowsHonest'
  <2>1. \A r \in Runs, t \in Stages : row'[r][t] = row[r][t] \/ row'[r][t] = x
    BY <1>w, <1>t
  <2> QED BY <1>w, <2>1, <1>row
<1>me. ASSUME NEW pc \in {"reset", "kill", "mark"}, NEW set \in SUBSET Stages
       PROVE  LET me == [proc[Oper] EXCEPT !.pc = pc, !.set = set]
              IN /\ me \in ProcRec /\ me.view = proc[Oper].view /\ me.run = proc[Oper].run
                 /\ me.pc = pc
  <2>1. proc[Oper] \in ProcRec
    BY <1>t, <1>d
  <2> QED BY <2>1 DEF ProcRec, PCs
<1>16. ASSUME ResumeStage PROVE Honest'
  <2> DEFINE me == proc[Oper]
             x(s) == [Pending EXCEPT !.attempt = me.view[s].attempt + 1]
             me1(s) == [me EXCEPT !.pc = "reset", !.set = me.set \ {s}]
  <2>0. me \in ProcRec /\ me.set \subseteq Stages /\ me.pc = "reset"
    BY <1>16, <1>d, <1>t DEF ResumeStage, ProcRec
  <2>1. PICK s \in First(me.set) :
            row' = [row EXCEPT ![me.run][s] = x(s)] /\ Move(Oper, [me EXCEPT !.set = @ \ {s}])
    BY <1>16 DEF ResumeStage
  <2>2. s \in Stages
    BY <2>0, FirstIn
  <2>3. [me EXCEPT !.set = @ \ {s}] = me1(s)
    BY <2>0 DEF ProcRec
  <2>4. x(s).state = "pending"
    BY DEF Pending, NoRow
  <2>5. RowsHonest'
    <3> HIDE DEF x
    <3> QED BY <2>1, <2>2, <2>4, <1>w
  <2>6. /\ me1(s) \in ProcRec /\ me1(s).view = me.view /\ me1(s).run = me.run
        /\ me1(s).pc = "reset"
    BY <2>0, <1>me
  <2>7. Move(Oper, me1(s))
    BY <2>1, <2>3
  <2> HIDE DEF me1
  <2> QED BY <2>5, <2>6, <2>7, <1>d, <1>keeps, <1>all
<1>22. ASSUME CancelStage PROVE Honest'
  <2> DEFINE me == proc[Oper]
             x == [me.view[me.at] EXCEPT !.state = "cancelled"]
             me1 == [me EXCEPT !.pc = "kill", !.set = me.set \ {me.at}]
  <2>0. me \in ProcRec /\ me.set \subseteq Stages /\ me.at \in Stages /\ me.view[me.at] \in Rows
    BY <1>22, <1>d, <1>b, <1>t DEF CancelStage, ProcInv, ProcOK, OnStage, ProcRec
  <2>1. row' = [row EXCEPT ![me.run][me.at] = x] /\ Move(Oper, me1)
    BY <1>22 DEF CancelStage
  <2>2. x.state = "cancelled"
    BY <2>0 DEF Rows
  <2>3. RowsHonest'
    <3> HIDE DEF x
    <3> QED BY <2>0, <2>1, <2>2, <1>w
  <2>4. me1 \in ProcRec /\ me1.view = me.view /\ me1.run = me.run /\ me1.pc = "kill"
    BY <2>0, <1>me
  <2> HIDE DEF me1
  <2> QED BY <2>1, <2>3, <2>4, <1>d, <1>keeps, <1>all
<1>17. ASSUME ResumeRun \/ CancelRun PROVE Honest'
  BY <1>17, <1>i, <1>d, <1>idle, <1>same, <1>all DEF ResumeRun, CancelRun
<1>18. ASSUME CancelJob PROVE Honest'
  <2> DEFINE me == proc[Oper]
             me1(s) == [me EXCEPT !.pc = "mark", !.at = s]
  <2>1. PICK s \in First(me.set) : Move(Oper, me1(s))
    BY <1>18 DEF CancelJob
  <2>2. s \in Stages /\ me \in ProcRec
    BY FirstIn, <1>t, <1>d DEF ProcRec
  <2>3. /\ me1(s) \in ProcRec /\ me1(s).view = me.view /\ me1(s).run = me.run
        /\ me1(s).pc = "mark"
    BY <2>2, Constants DEF ProcRec, PCs
  <2>4. row' = row
    BY <1>18 DEF CancelJob
  <2> HIDE DEF me1
  <2> QED BY <2>1, <2>3, <2>4, <1>d, <1>keeps, <1>same, <1>all
<1>un. row' = row /\ proc' = proc => Honest'
  BY <1>same, <1>keep, <1>all
<1>19. ASSUME NEW r \in Runs, NEW s \in Stages, NEW a \in Attempts, Work(r, s, a) PROVE Honest'
  BY <1>19, <1>un DEF Work, JobStart, JobSettle, JobAdvance
<1>23. ASSUME NEW r \in Runs, NEW s \in Stages, Host(r, s) PROVE Honest'
  BY <1>23, <1>un DEF Host
<1>24. ASSUME Tick \/ (\E u \in DOMAIN up : Upstream(u)) \/ UNCHANGED vars PROVE Honest'
  BY <1>24, <1>un DEF Tick, Upstream, vars
<1>20. ASSUME NEW r \in Runs, NEW s \in Stages, Expire(r, s) PROVE Honest'
  <2>1. proc' = proc /\ row' = [row EXCEPT ![r][s] = [row[r][s] EXCEPT !.late = TRUE]]
    BY <1>20 DEF Expire
  <2>2. [row[r][s] EXCEPT !.late = TRUE].state = row[r][s].state
    BY <1>t DEF Rows
  <2>3. \A q \in Runs, t \in Stages : row'[q][t].state = row[q][t].state
    BY <2>1, <2>2, <1>t
  <2> QED BY <2>1, <2>3, <1>row, <1>keep, <1>all
<1>21. ASSUME NEW p \in Procs, Crash(p) PROVE Honest'
  BY <1>21, <1>i, <1>idle, <1>same, <1>all DEF Crash
<1> QED
  BY <1>1, <1>2, <1>3, <1>4, <1>5, <1>6, <1>7, <1>8, <1>9, <1>10, <1>11, <1>12, <1>13, <1>14,
     <1>15, <1>16, <1>17, <1>18, <1>19, <1>20, <1>21, <1>22, <1>23, <1>24, <1>d
     DEF Next, Pass, Command
-----------------------------------------------------------------------------
(* Needs come first *)

\* A job is minted only when what its stage needs is done, and stays so.
LEMMA NeedsStep == Base /\ Honest /\ NeedsFirst /\ [Next]_vars => NeedsFirst'
<1> SUFFICES ASSUME Base, Honest, NeedsFirst, [Next]_vars,
                    NEW r \in Runs, NEW s \in Stages, NEW a \in Attempts,
                    job'[r][s][a].st # "none"
             PROVE  /\ \A d \in spec'.needs[s] : Done(r, d)'
                    /\ IsReview(s)' => pr'[r][spec'.source[s]] \notin {"none", "nopr"}
  BY DEF NeedsFirst
<1>1. spec' = spec /\ JobMove(r, s, a)
  BY Moves
<1>2. spec.needs[s] \subseteq Stages /\ (IsReview(s) => spec.source[s] \in Stages)
  BY SpecFacts DEF Base, IsReview
<1>3. /\ \A d \in spec.needs[s] : d \in Finished[r]
      /\ IsReview(s) => pr[r][spec.source[s]] \notin {"none", "nopr"}
  <2>1. CASE job[r][s][a].st # "none"
    BY <2>1, <1>2, FinishedDone DEF NeedsFirst
  <2>2. CASE job[r][s][a].st = "none"
    <3>1. /\ \E p \in Procs : proc[p].run = r /\ DepsSucceeded(proc[p].view, s)
          /\ ~Unbound(r, s)
      <4>1. job[r][s][a].dec = "failed"
        BY <2>2 DEF Base, JobInv
      <4> QED BY <1>1, <2>2, <4>1 DEF JobMove
    <3>2. \A d \in spec.needs[s] : d \in Finished[r]
      BY <3>1, <1>2 DEF DepsSucceeded, Honest, ViewHonest
    <3> QED BY <3>1, <3>2 DEF Unbound
  <2> QED BY <2>1, <2>2
<1>4. \A d \in spec.needs[s] : d \in Finished'[r]
  BY <1>3, Stable
<1>5. \A d \in Stages : d \in Finished'[r] <=> Done(r, d)'
  BY DEF Finished
<1>6. IsReview(s) => pr'[r][spec.source[s]] \notin {"none", "nopr"}
  BY <1>2, <1>3, PrStable
<1>7. IsReview(s)' = IsReview(s)
  BY <1>1 DEF IsReview
<1> QED BY <1>1, <1>2, <1>4, <1>5, <1>6, <1>7

-----------------------------------------------------------------------------
(* At most one merge *)

\* A gate that holds a claim is about work that is done and reviewed.
ClaimInv ==
    \A r \in Runs : \A s \in claim[r] :
        /\ spec.source[s] \in Finished[r]
        /\ Reviews(s) # {} /\ Reviews(s) \subseteq Finished[r]
\* Only a claim is redeemed, and only once.
OneMerge == \A r \in Runs, s \in Stages : merges[r][s] <= 1 /\ (merges[r][s] > 0 => s \in claim[r])
\* A process about to merge holds a claim that was not redeemed, alone.
AtMerge ==
    \A p \in Procs : proc[p].pc = "merge" =>
        proc[p].at \in claim[proc[p].run] /\ merges[proc[p].run][proc[p].at] = 0
Apart ==
    \A p, q \in Procs : p # q /\ proc[p].pc = "merge" /\ proc[q].pc = "merge" =>
        proc[p].run # proc[q].run \/ proc[p].at # proc[q].at
MergeInv == ClaimInv /\ OneMerge /\ AtMerge /\ Apart

\* Only FoldGate leads to a merge; only FoldGate and Merge touch claims and merges.
LEMMA MergeFrame ==
    ASSUME Base, [Next]_vars, ~\E p \in Procs : FoldGate(p) \/ Merge(p)
    PROVE  /\ UNCHANGED <<claim, merges>>
           /\ \A q \in Procs : proc'[q] = proc[q] \/ proc'[q].pc # "merge"
<1> DEFINE Goal == \A q \in Procs : proc'[q] = proc[q] \/ proc'[q].pc # "merge"
<1>t. /\ proc \in [Procs -> ProcRec] /\ \A p \in Procs : proc[p] \in ProcRec
      /\ \A p \in Procs : proc[p].at \in 1..(NStages + 1)
  BY TypeParts DEF Base, ProcRec
<1>d. Daemon \in Procs /\ Cli \in Procs /\ Oper \in Procs
  BY DEF Procs
<1>o. \A p \in Procs : proc[p].pc \in OnStage => proc[p].at \in Stages
  BY DEF Base, ProcInv, ProcOK
<1>m. ASSUME NEW p \in Procs, NEW me, Move(p, me), me.pc # "merge" PROVE Goal
  BY <1>m, <1>t DEF Move
<1>i. Idle.pc = "idle" /\ \A pc : [Idle EXCEPT !.pc = pc].pc = pc
  BY DEF Idle
<1>q. "merge" \notin Quiet
  BY DEF Quiet
<1>1. ASSUME NEW p \in Procs, Check(p) PROVE Goal
  <2>1. Move(p, [Idle EXCEPT !.pc = "create"]) \/ Move(p, [Idle EXCEPT !.pc = "trigger"])
    BY <1>1 DEF Check
  <2> QED BY <2>1, <1>i, <1>m
<1>2. ASSUME NEW p \in Procs, CreateRun(p) PROVE Goal
  <2>1. PICK r \in Fresh : Move(p, [Idle EXCEPT !.pc = "stages", !.run = r])
    BY <1>2 DEF CreateRun
  <2>2. [Idle EXCEPT !.pc = "stages", !.run = r].pc = "stages"
    BY DEF Idle
  <2> QED BY <2>1, <2>2, <1>m
<1>3. ASSUME NEW p \in Procs, CreateStage(p) PROVE Goal
  <2> DEFINE me == proc[p]
             me1 == IF me.at < NStages THEN [me EXCEPT !.at = @ + 1]
                    ELSE [me EXCEPT !.pc = IF p = Daemon THEN "due" ELSE "list",
                                    !.at = 1, !.todo = IF p = Daemon THEN {} ELSE {me.run}]
  <2>1. me.pc = "stages" /\ Move(p, me1) /\ me \in ProcRec
    BY <1>3, <1>t DEF CreateStage
  <2>2. me1.pc # "merge"
    BY <2>1 DEF ProcRec
  <2> HIDE DEF me1
  <2> QED BY <2>1, <2>2, <1>m
<1>4. ASSUME NEW p \in Procs, NextDue(p) PROVE Goal
  BY <1>4, <1>i, <1>m DEF NextDue
<1>5. ASSUME NEW p \in Procs, Trigger(p) PROVE Goal
  <2> DEFINE me1 == [Idle EXCEPT !.todo = {r \in Runs : run'[r].state = "running"}]
  <2>1. me1 \in ProcRec
    BY Constants DEF ProcRec
  <2>2. Move(p, PassDone(me1))
    BY <1>5 DEF Trigger
  <2> HIDE DEF me1
  <2> QED BY <2>1, <2>2, PassDoneType, <1>q, <1>m
<1>6. ASSUME NEW p \in Procs, List(p) PROVE Goal
  <2>1. PICK r \in First(proc[p].todo) :
            Move(p, FoldNext([Idle EXCEPT !.run = r, !.view = row[r], !.todo = proc[p].todo \ {r}]))
    BY <1>6 DEF List
  <2>2. r \in Runs /\ proc[p].todo \subseteq Runs /\ row[r] \in [Stages -> Rows]
    BY FirstIn, <1>t, TypeParts DEF ProcRec, Base
  <2> DEFINE me1 == [Idle EXCEPT !.run = r, !.view = row[r], !.todo = proc[p].todo \ {r}]
  <2>3. me1 \in ProcRec
    BY <2>2, Constants DEF ProcRec
  <2> HIDE DEF me1
  <2>4. Move(p, FoldNext(me1))
    BY <2>1 DEF me1
  <2> QED BY <2>3, <2>4, FoldNextType, <1>q, <1>m
<1>saw. ASSUME NEW p \in Procs, NEW s \in Stages, NEW x \in Rows,
               \/ Move(p, FoldNext(Saw(proc[p], s, x)))
               \/ Move(p, EnqueueNext(Saw(proc[p], s, x)))
               \/ Move(p, SkipNext(Saw(proc[p], s, x)))
        PROVE  Goal
  <2> DEFINE me == Saw(proc[p], s, x)
  <2>1. me \in ProcRec
    BY <1>t, SawType
  <2> HIDE DEF me
  <2>2. Move(p, FoldNext(me)) \/ Move(p, EnqueueNext(me)) \/ Move(p, SkipNext(me))
    BY <1>saw DEF me
  <2> QED BY <2>1, <2>2, FoldNextType, EnqueueNextType, SkipNextType, <1>q, <1>m
<1>v. \A p \in Procs : /\ \A s \in Open(proc[p]) \cup Ready(proc[p]) \cup Left(proc[p]) :
                             s \in Stages /\ proc[p].view[s] \in Rows
                       /\ proc[p].run \in Runs /\ proc[p].out \in Rows
  <2> SUFFICES ASSUME NEW p \in Procs
               PROVE  /\ \A s \in Open(proc[p]) \cup Ready(proc[p]) \cup Left(proc[p]) :
                             s \in Stages /\ proc[p].view[s] \in Rows
                      /\ proc[p].run \in Runs /\ proc[p].out \in Rows
    OBVIOUS
  <2>1. proc[p].at..NStages \subseteq Stages
    BY <1>t, Constants DEF Stages
  <2>2. Open(proc[p]) \cup Ready(proc[p]) \cup Left(proc[p]) \subseteq Stages
    BY <2>1, FirstIn DEF Open, Ready, Left
  <2> QED BY <2>2, <1>t DEF ProcRec
<1>7. ASSUME NEW p \in Procs, Fold(p) PROVE Goal
  <2> DEFINE X(s) == JobOutcome(proc[p].run, s, proc[p].view[s])
  <2>1. PICK s \in Open(proc[p]) : Move(p, FoldNext(Saw(proc[p], s, X(s))))
    BY <1>7 DEF Fold
  <2>2. s \in Stages /\ X(s) \in Rows
    BY <1>v, JobOutcomeType DEF Base
  <2> HIDE DEF X
  <2> QED BY <2>1, <2>2, <1>saw
<1>8. ASSUME NEW p \in Procs, PutMerged(p) \/ PutEnqueued(p) PROVE Goal
  <2>1. proc[p].at \in Stages /\ proc[p].out \in Rows
    BY <1>8, <1>o, <1>v DEF PutMerged, PutEnqueued, OnStage
  <2> QED BY <1>8, <2>1, <1>saw DEF PutMerged, PutEnqueued
<1>9. ASSUME NEW p \in Procs, Start(p) PROVE Goal
  <2> DEFINE X(s) == [proc[p].view[s] EXCEPT
                            !.state = IF spec.kind[s] \in Jobless THEN "queued" ELSE "blocked"]
  <2>1. PICK s \in Ready(proc[p]) : Move(p, EnqueueNext(Saw(proc[p], s, X(s))))
    BY <1>9 DEF Start
  <2>2. s \in Stages /\ proc[p].view[s] \in Rows
    BY <1>v
  <2>3. X(s) \in Rows
    BY <2>2 DEF Rows, StageStates
  <2> HIDE DEF X
  <2> QED BY <2>1, <2>2, <2>3, <1>saw
<1>10. ASSUME NEW p \in Procs, Enqueue(p) PROVE Goal
  <2>1. \E s, out : Move(p, [proc[p] EXCEPT !.pc = "enqueued", !.at = s, !.out = out])
    BY <1>10 DEF Enqueue
  <2>2. \A s, out : [proc[p] EXCEPT !.pc = "enqueued", !.at = s, !.out = out].pc = "enqueued"
    BY <1>t DEF ProcRec
  <2> QED BY <2>1, <2>2, <1>m
<1>11. ASSUME NEW p \in Procs, Skip(p) PROVE Goal
  <2> DEFINE X(s) == [proc[p].view[s] EXCEPT !.state = "skipped"]
  <2>1. PICK s \in Left(proc[p]) : Move(p, SkipNext(Saw(proc[p], s, X(s))))
    BY <1>11 DEF Skip
  <2>2. s \in Stages /\ proc[p].view[s] \in Rows
    BY <1>v
  <2>3. X(s) \in Rows
    BY <2>2 DEF Rows, StageStates
  <2> HIDE DEF X
  <2> QED BY <2>1, <2>2, <2>3, <1>saw
<1>12. ASSUME NEW p \in Procs, Settle(p) PROVE Goal
  <2>1. Move(p, PassDone(proc[p]))
    BY <1>12 DEF Settle
  <2> QED BY <2>1, <1>t, PassDoneType, <1>q, <1>m
<1>13. ASSUME NEW r \in Runs, Resume(r) PROVE Goal
  <2>1. \E set : Move(Oper, [Idle EXCEPT !.pc = "reset", !.run = r, !.view = row[r], !.set = set])
    BY <1>13 DEF Resume
  <2>2. \A set : [Idle EXCEPT !.pc = "reset", !.run = r, !.view = row[r], !.set = set].pc = "reset"
    BY DEF Idle
  <2> QED BY <2>1, <2>2, <1>d, <1>m
<1>14. ASSUME NEW r \in Runs, Cancel(r) PROVE Goal
  <2>1. \E set : Move(Oper, [Idle EXCEPT !.pc = "kill", !.run = r, !.view = row[r], !.set = set])
    BY <1>14 DEF Cancel
  <2>2. \A set : [Idle EXCEPT !.pc = "kill", !.run = r, !.view = row[r], !.set = set].pc = "kill"
    BY DEF Idle
  <2> QED BY <2>1, <2>2, <1>d, <1>m
<1>15. ASSUME ResumeStage PROVE Goal
  <2>1. /\ proc[Oper].pc = "reset"
        /\ \E s : Move(Oper, [proc[Oper] EXCEPT !.set = @ \ {s}])
    BY <1>15 DEF ResumeStage
  <2>2. \A s : [proc[Oper] EXCEPT !.set = @ \ {s}].pc = "reset"
    BY <2>1, <1>t, <1>d DEF ProcRec
  <2> QED BY <2>1, <2>2, <1>d, <1>m
<1>16. ASSUME ResumeRun \/ CancelRun PROVE Goal
  BY <1>16, <1>i, <1>d, <1>m DEF ResumeRun, CancelRun
<1>17. ASSUME CancelJob PROVE Goal
  <2>1. \E s : Move(Oper, [proc[Oper] EXCEPT !.pc = "mark", !.at = s])
    BY <1>17 DEF CancelJob
  <2>2. \A s : [proc[Oper] EXCEPT !.pc = "mark", !.at = s].pc = "mark"
    BY <1>t, <1>d DEF ProcRec
  <2> QED BY <2>1, <2>2, <1>d, <1>m
<1>18. ASSUME CancelStage PROVE Goal
  <2>1. \E set : Move(Oper, [proc[Oper] EXCEPT !.pc = "kill", !.set = set])
    BY <1>18 DEF CancelStage
  <2>2. \A set : [proc[Oper] EXCEPT !.pc = "kill", !.set = set].pc = "kill"
    BY <1>t, <1>d DEF ProcRec
  <2> QED BY <2>1, <2>2, <1>d, <1>m
<1>19. ASSUME NEW r \in Runs, NEW s \in Stages, NEW a \in Attempts, Work(r, s, a)
       PROVE  Goal /\ UNCHANGED <<claim, merges>>
  BY <1>19 DEF Work, JobStart, JobSettle, JobAdvance
<1>20. ASSUME NEW r \in Runs, NEW s \in Stages, Host(r, s) \/ Expire(r, s)
       PROVE  Goal /\ UNCHANGED <<claim, merges>>
  BY <1>20 DEF Host, Expire
<1>21. ASSUME Tick \/ (\E u \in DOMAIN up : Upstream(u)) \/ UNCHANGED vars
       PROVE  Goal /\ UNCHANGED <<claim, merges>>
  BY <1>21 DEF Tick, Upstream, vars
<1>22. ASSUME NEW p \in Procs, Crash(p) PROVE Goal
  BY <1>22, <1>i, <1>m DEF Crash
<1>23. ASSUME \/ \E p \in Procs :
                   \/ Check(p) \/ CreateRun(p) \/ CreateStage(p) \/ NextDue(p) \/ Trigger(p)
                   \/ List(p) \/ Fold(p) \/ PutMerged(p) \/ Start(p) \/ Enqueue(p)
                   \/ PutEnqueued(p) \/ Skip(p) \/ Settle(p) \/ Crash(p)
              \/ \E r \in Runs : Resume(r) \/ Cancel(r)
              \/ ResumeStage \/ ResumeRun \/ CancelJob \/ CancelStage \/ CancelRun
       PROVE  UNCHANGED <<claim, merges>>
  BY <1>23 DEF Check, CreateRun, CreateStage, NextDue, Trigger, List, Fold, PutMerged, Start,
               Enqueue, PutEnqueued, Skip, Settle, Crash, Resume, Cancel, ResumeStage, ResumeRun,
               CancelJob, CancelStage, CancelRun
<1> QED
  BY <1>1, <1>2, <1>3, <1>4, <1>5, <1>6, <1>7, <1>8, <1>9, <1>10, <1>11, <1>12, <1>13, <1>14,
     <1>15, <1>16, <1>17, <1>18, <1>19, <1>20, <1>21, <1>22, <1>23, <1>d DEF Next, Pass, Command

\* The evaluation that leads to a claim sees done and reviewed work.
LEMMA ClaimHonest ==
    ASSUME Base, Honest, NEW r \in Runs, NEW s \in Stages, spec.kind[s] \in Jobless, NEW ci,
           AutoOutcome(r, s, ci) = "claim"
    PROVE  /\ s \notin claim[r] /\ spec.source[s] \in Finished[r]
           /\ Reviews(s) # {} /\ Reviews(s) \subseteq Finished[r]
<1>1. spec.source[s] \in Stages
  BY SpecFacts DEF Base, SpecOK
<1>2. /\ row[r][spec.source[s]].state = "succeeded" /\ Reviews(s) # {} /\ s \notin claim[r]
      /\ \A t \in Reviews(s) : row[r][t].state = "succeeded"
  BY DEF AutoOutcome, Evaluate
<1>3. Reviews(s) \subseteq Stages
  BY DEF Reviews
<1> QED BY <1>1, <1>2, <1>3 DEF Honest, RowsHonest

\* Every step keeps claims earned and redeemed at most once.
LEMMA MergeStep == Base /\ Honest /\ MergeInv /\ [Next]_vars => MergeInv'
<1> SUFFICES ASSUME Base, Honest, MergeInv, [Next]_vars PROVE MergeInv'
  OBVIOUS
<1>t. /\ proc \in [Procs -> ProcRec] /\ claim \in [Runs -> SUBSET Stages]
      /\ merges \in [Runs -> [Stages -> Nat]]
      /\ \A p \in Procs : proc[p] \in ProcRec /\ proc[p].run \in Runs
  BY TypeParts DEF Base, ProcRec
<1>s. /\ spec' = spec /\ \A r \in Runs : Finished[r] \subseteq Finished'[r]
  BY Moves, Stable
<1>c. claim' = claim => ClaimInv'
  BY <1>s DEF MergeInv, ClaimInv, Reviews
<1>1. CASE ~\E p \in Procs : FoldGate(p) \/ Merge(p)
  <2>1. /\ claim' = claim /\ merges' = merges
        /\ \A q \in Procs : proc'[q] = proc[q] \/ proc'[q].pc # "merge"
    BY <1>1, MergeFrame
  <2>2. OneMerge' /\ AtMerge'
    BY <2>1 DEF MergeInv, OneMerge, AtMerge
  <2>3. Apart'
    BY <2>1 DEF MergeInv, Apart
  <2> QED BY <2>1, <2>2, <2>3, <1>c DEF MergeInv
<1>2. ASSUME NEW p \in Procs, Merge(p) PROVE MergeInv'
  <2> DEFINE me == proc[p]
  <2>1. /\ me \in ProcRec /\ me.pc = "merge" /\ me.at \in Stages /\ me.run \in Runs
    BY <1>2, <1>t DEF Merge, Base, ProcInv, ProcOK, OnStage, ProcRec
  <2>2. /\ claim' = claim /\ merges' = [merges EXCEPT ![me.run][me.at] = @ + 1]
        /\ \E out : Move(p, [me EXCEPT !.pc = "merged", !.out = out])
    BY <1>2 DEF Merge
  <2>3. /\ proc'[p].pc = "merged" /\ \A q \in Procs : q # p => proc'[q] = proc[q]
    BY <2>1, <2>2, <1>t DEF Move, ProcRec
  <2>4. me.at \in claim[me.run] /\ merges[me.run][me.at] = 0
    BY <2>1 DEF MergeInv, AtMerge
  <2> HIDE DEF me
  <2>5. \A r \in Runs, s \in Stages :
           merges'[r][s] = IF r = me.run /\ s = me.at THEN 1 ELSE merges[r][s]
    BY <2>1, <2>2, <2>4, <1>t
  <2>6. OneMerge'
    BY <2>2, <2>4, <2>5 DEF MergeInv, OneMerge
  <2>7. AtMerge'
    <3> SUFFICES ASSUME NEW q \in Procs, proc'[q].pc = "merge"
                 PROVE  /\ proc'[q].at \in claim'[proc'[q].run]
                        /\ merges'[proc'[q].run][proc'[q].at] = 0
      BY DEF AtMerge
    <3>1. q # p /\ proc'[q] = proc[q]
      BY <2>3
    <3>2. proc[q].at \in claim[proc[q].run] /\ merges[proc[q].run][proc[q].at] = 0
      BY <3>1 DEF MergeInv, AtMerge
    <3>3. proc[q].run # me.run \/ proc[q].at # me.at
      BY <3>1, <2>1 DEF MergeInv, Apart, me
    <3>4. proc[q].run \in Runs /\ proc[q].at \in Stages
      BY <3>2, <1>t
    <3> QED BY <3>1, <3>2, <3>3, <3>4, <2>2, <2>5
  <2>8. Apart'
    BY <2>3 DEF MergeInv, Apart
  <2> QED BY <2>2, <2>6, <2>7, <2>8, <1>c DEF MergeInv
<1>3. ASSUME NEW p \in Procs, FoldGate(p) PROVE MergeInv'
  <2> DEFINE me == proc[p]
             O(s, ci) == IF spec.kind[s] = "gate" THEN GateOutcome(me.run, s)
                         ELSE AutoOutcome(me.run, s, ci)
             X(s, o) == IF o = "wait" THEN Waiting(me.view[s]) ELSE [me.view[s] EXCEPT !.state = o]
             me1(s) == [me EXCEPT !.pc = "merge", !.at = s]
  <2>1. PICK s \in Open(me), ci \in {"green", "red", "unknown"} :
            /\ spec.kind[s] \in Jobless
            /\ \/ /\ O(s, ci) = "claim"
                  /\ claim' = [claim EXCEPT ![me.run] = @ \cup {s}]
                  /\ Move(p, me1(s))
               \/ /\ O(s, ci) # "claim"
                  /\ Move(p, FoldNext(Saw(me, s, X(s, O(s, ci)))))
                  /\ UNCHANGED claim
    BY <1>3 DEF FoldGate
  <2>2. s \in Stages /\ me.view[s] \in Rows /\ me \in ProcRec /\ me.run \in Runs
    <3>1. s \in me.at..NStages /\ me.at \in 1..(NStages + 1)
      BY <1>t, FirstIn DEF Open, ProcRec
    <3>2. s \in Stages
      BY <3>1, Constants DEF Stages
    <3> QED BY <3>2, <1>t DEF ProcRec
  <2>3. merges' = merges
    BY <1>3 DEF FoldGate
  <2>k. spec.kind[s] \in Jobless
    BY <2>1
  <2>4. CASE O(s, ci) = "claim"
    <3>1. /\ s \notin claim[me.run] /\ spec.source[s] \in Finished[me.run]
          /\ Reviews(s) # {} /\ Reviews(s) \subseteq Finished[me.run]
      <4>1. AutoOutcome(me.run, s, ci) = "claim"
        BY <2>4, GateOutcomeType
      <4> QED BY <4>1, <2>2, <2>k, ClaimHonest
    <3>2. claim' = [claim EXCEPT ![me.run] = @ \cup {s}] /\ Move(p, me1(s))
      BY <2>1, <2>4, Zenon
    <3>3. me1(s).pc = "merge" /\ me1(s).at = s /\ me1(s).run = me.run
      BY <2>2 DEF ProcRec
    <3>4. \A q \in Procs : proc'[q] = IF q = p THEN me1(s) ELSE proc[q]
      BY <3>2, <1>t DEF Move
    <3> HIDE DEF me, me1, O
    <3>5. \A r \in Runs : claim'[r] = IF r = me.run THEN claim[r] \cup {s} ELSE claim[r]
      BY <3>2, <1>t
    <3>6. ClaimInv'
      <4> SUFFICES ASSUME NEW r \in Runs, NEW t \in claim'[r]
                   PROVE  /\ spec'.source[t] \in Finished'[r]
                          /\ Reviews(t)' # {} /\ Reviews(t)' \subseteq Finished'[r]
        BY DEF ClaimInv
      <4>1. Reviews(t)' = Reviews(t)
        BY <1>s DEF Reviews
      <4>2. t \in claim[r] \/ (r = me.run /\ t = s)
        BY <3>5
      <4>3. spec.source[t] \in Finished[r] /\ Reviews(t) # {} /\ Reviews(t) \subseteq Finished[r]
        BY <4>2, <3>1 DEF MergeInv, ClaimInv
      <4> QED BY <4>1, <4>3, <1>s
    <3>7. OneMerge'
      BY <3>5, <2>3 DEF MergeInv, OneMerge
    <3>8. AtMerge'
      <4> SUFFICES ASSUME NEW q \in Procs, proc'[q].pc = "merge"
                   PROVE  /\ proc'[q].at \in claim'[proc'[q].run]
                          /\ merges'[proc'[q].run][proc'[q].at] = 0
        BY DEF AtMerge
      <4>1. CASE q = p
        <5>1. proc'[q].run = me.run /\ proc'[q].at = s
          BY <4>1, <3>3, <3>4
        <5>2. ~(merges[me.run][s] > 0) /\ merges[me.run][s] \in Nat
          BY <3>1, <2>2, <1>t DEF MergeInv, OneMerge
        <5>3. merges[me.run][s] = 0
          BY <5>2
        <5>4. s \in claim'[me.run]
          BY <3>5, <2>2
        <5> QED BY <5>1, <5>3, <5>4, <2>3
      <4>2. CASE q # p
        <5>1. proc'[q] = proc[q] /\ proc[q].run \in Runs
          BY <4>2, <3>4, <1>t
        <5>2. proc[q].at \in claim[proc[q].run] /\ merges[proc[q].run][proc[q].at] = 0
          BY <5>1 DEF MergeInv, AtMerge
        <5> QED BY <5>1, <5>2, <3>5, <2>3
      <4> QED BY <4>1, <4>2
    <3>9. Apart'
      <4>1. \A q \in Procs : q # p /\ proc[q].pc = "merge" =>
                proc[q].run # me.run \/ proc[q].at # s
        BY <3>1 DEF MergeInv, AtMerge
      <4> SUFFICES ASSUME NEW q1 \in Procs, NEW q2 \in Procs, q1 # q2,
                          proc'[q1].pc = "merge", proc'[q2].pc = "merge"
                   PROVE  proc'[q1].run # proc'[q2].run \/ proc'[q1].at # proc'[q2].at
        BY DEF Apart
      <4>2. CASE q1 = p
        BY <4>1, <4>2, <3>3, <3>4
      <4>3. CASE q2 = p
        BY <4>1, <4>3, <3>3, <3>4
      <4>4. CASE q1 # p /\ q2 # p
        BY <4>4, <3>4 DEF MergeInv, Apart
      <4> QED BY <4>2, <4>3, <4>4
    <3> QED BY <3>6, <3>7, <3>8, <3>9 DEF MergeInv
  <2>5. CASE O(s, ci) # "claim"
    <3> DEFINE x == X(s, O(s, ci))
               me2 == FoldNext(Saw(me, s, x))
    <3>1. x \in Rows
      <4>1. Waiting(me.view[s]) \in Rows
        BY <2>2, WaitingType
      <4>2. \A o \in {"blocked", "succeeded"} : [me.view[s] EXCEPT !.state = o] \in Rows
        BY <2>2 DEF Rows, StageStates
      <4>3. O(s, ci) \in {"wait", "blocked", "succeeded"}
        BY <2>5, AutoOutcomeType, GateOutcomeType
      <4> HIDE DEF O
      <4> QED BY <4>1, <4>2, <4>3
    <3>2. Move(p, me2) /\ claim' = claim
      BY <2>1, <2>5
    <3> HIDE DEF x
    <3>3. me2.pc # "merge"
      BY <3>1, <2>2, SawType, FoldNextType DEF Quiet
    <3> HIDE DEF me2
    <3>4. \A q \in Procs : proc'[q] = proc[q] \/ proc'[q].pc # "merge"
      BY <3>2, <3>3, <1>t DEF Move
    <3>5. OneMerge' /\ AtMerge'
      BY <3>2, <3>4, <2>3 DEF MergeInv, OneMerge, AtMerge
    <3>6. Apart'
      BY <3>4 DEF MergeInv, Apart
    <3> QED BY <3>2, <3>5, <3>6, <1>c DEF MergeInv
  <2> QED BY <2>4, <2>5
<1> QED BY <1>1, <1>2, <1>3

\* The invariant on claims implies the property.
LEMMA MergeEarnedHolds == Base /\ MergeInv => MergeEarned
<1> SUFFICES ASSUME Base, MergeInv, NEW r \in Runs, NEW s \in Stages
             PROVE  /\ merges[r][s] <= 1
                    /\ merges[r][s] > 0 => /\ Done(r, spec.source[s])
                                           /\ Reviews(s) # {} /\ \A t \in Reviews(s) : Done(r, t)
  BY DEF MergeEarned
<1>1. merges[r][s] <= 1 /\ (merges[r][s] > 0 => s \in claim[r])
  BY DEF MergeInv, OneMerge
<1>2. s \in claim[r] => /\ spec.source[s] \in Finished[r]
                        /\ Reviews(s) # {} /\ Reviews(s) \subseteq Finished[r]
  BY DEF MergeInv, ClaimInv
<1>3. \A t \in Finished[r] : Done(r, t)
  BY DEF Finished
<1> QED BY <1>1, <1>2, <1>3

-----------------------------------------------------------------------------
(* At most one run per upstream success *)

FiredInv == FiredOnce /\ \A r \in Runs : run[r].from <= cursor

\* Every step keeps the trigger cursor ahead of every run it fired.
LEMMA FiredStep == Base /\ FiredInv /\ [Next]_vars => FiredInv'
<1> SUFFICES ASSUME Base, FiredInv, [Next]_vars PROVE FiredInv'
  OBVIOUS
<1>t. /\ run \in [Runs -> RunRec] /\ cursor \in 0..MaxUps /\ MaxUps \in Nat
      /\ \A r \in Runs : run[r].from \in 0..MaxUps
      /\ DOMAIN up = 1..MaxUps
  BY TypeParts, Constants DEF Base, RunRec
<1>f. /\ \A r \in Runs : run[r].from <= cursor
      /\ \A q, r \in Runs : q # r /\ run[q].from # 0 => run[q].from # run[r].from
  BY DEF FiredInv, FiredOnce
<1>same. ASSUME cursor' = cursor, \A r \in Runs : run'[r].from = run[r].from \/ run'[r].from = 0
         PROVE  FiredInv'
  BY <1>same, <1>f, <1>t DEF FiredInv, FiredOnce
<1>u. cursor' = cursor /\ run' = run => FiredInv'
  BY <1>same
<1>st. ASSUME NEW r \in Runs, NEW st, NEW h, cursor' = cursor,
              \/ run' = [run EXCEPT ![r].state = st]
              \/ run' = [run EXCEPT ![r].state = st, ![r].halt = h]
       PROVE  FiredInv'
  <2>1. \A q \in Runs : run'[q].from = run[q].from
    <3>1. run[r] \in RunRec
      BY <1>t
    <3>2. CASE run' = [run EXCEPT ![r].state = st]
      BY <3>1, <3>2, <1>t DEF RunRec
    <3>3. CASE run' = [run EXCEPT ![r].state = st, ![r].halt = h]
      <4>1. run' = [run EXCEPT ![r] = [run[r] EXCEPT !.state = st, !.halt = h]]
        BY <3>1, <3>3, <1>t DEF RunRec
      <4>2. [run[r] EXCEPT !.state = st, !.halt = h].from = run[r].from
        BY <3>1 DEF RunRec
      <4> QED BY <4>1, <4>2, <1>t
    <3> QED BY <1>st, <3>2, <3>3
  <2> QED BY <2>1, <1>st, <1>same
<1>pr. \A p \in Procs : proc[p].run \in Runs
  BY TypeParts DEF Base, ProcRec
<1>d. Daemon \in Procs /\ Cli \in Procs /\ Oper \in Procs
  BY DEF Procs
<1>1. ASSUME NEW p \in Procs, CreateRun(p) PROVE FiredInv'
  <2>1. PICK r \in Fresh, x \in {"schedule", "manual"} : run' = [run EXCEPT ![r] = New(x, 0)]
    BY <1>1 DEF CreateRun
  <2>2. New(x, 0).from = 0 /\ cursor' = cursor
    BY <1>1 DEF New, CreateRun
  <2>3. \A q \in Runs : run'[q] = run[q] \/ run'[q] = New(x, 0)
    BY <2>1, <1>t
  <2> QED BY <2>2, <2>3, <1>same
<1>2. ASSUME NEW p \in Procs, Trigger(p) PROVE FiredInv'
  <2>1. CASE run' = run /\ cursor' = cursor
    BY <2>1, <1>u
  <2>2. CASE \E u \in DOMAIN up, r \in Fresh :
                u > cursor /\ run' = [run EXCEPT ![r] = New("pipeline", u)] /\ cursor' = u
    <3>1. PICK u \in DOMAIN up, r \in Fresh :
                u > cursor /\ run' = [run EXCEPT ![r] = New("pipeline", u)] /\ cursor' = u
      BY <2>2
    <3>2. New("pipeline", u).from = u /\ u \in Nat /\ cursor \in Nat
      BY <1>t DEF New
    <3>3. r \in Runs /\ \A q \in Runs : run'[q] = IF q = r THEN New("pipeline", u) ELSE run[q]
      BY <3>1, <1>t DEF Fresh
    <3>4. \A q \in Runs : run'[q].from = IF q = r THEN u ELSE run[q].from
      BY <3>2, <3>3
    <3>5. \A q \in Runs : run[q].from < u /\ run[q].from \in Nat
      BY <3>1, <3>2, <1>f, <1>t
    <3>6. \A q \in Runs : run'[q].from <= cursor'
      BY <3>1, <3>2, <3>4, <3>5
    <3>7. FiredOnce'
      BY <3>2, <3>4, <3>5, <1>f DEF FiredOnce
    <3> QED BY <3>6, <3>7 DEF FiredInv
  <2> QED BY <1>2, <2>1, <2>2, FirstIn DEF Trigger
<1>3. ASSUME NEW p \in Procs, Settle(p) PROVE FiredInv'
  BY <1>3, <1>pr, <1>st DEF Settle
<1>4. ASSUME ResumeRun \/ CancelRun PROVE FiredInv'
  BY <1>4, <1>d, <1>pr, <1>st DEF ResumeRun, CancelRun
<1>5. ASSUME NEW r \in Runs, NEW s \in Stages, NEW a \in Attempts, Work(r, s, a)
      PROVE  FiredInv'
  BY <1>5, <1>u DEF Work, JobStart, JobSettle, JobAdvance
<1>6. ASSUME NEW r \in Runs, NEW s \in Stages, Host(r, s) \/ Expire(r, s) PROVE FiredInv'
  BY <1>6, <1>u DEF Host, Expire
<1>7. ASSUME \/ \E p \in Procs :
                   \/ Check(p) \/ CreateStage(p) \/ NextDue(p) \/ List(p) \/ Fold(p)
                   \/ FoldGate(p) \/ Merge(p) \/ PutMerged(p) \/ Start(p) \/ Enqueue(p)
                   \/ PutEnqueued(p) \/ Skip(p) \/ Crash(p)
             \/ \E r \in Runs : Resume(r) \/ Cancel(r)
             \/ ResumeStage \/ CancelJob \/ CancelStage
             \/ Tick \/ (\E u \in DOMAIN up : Upstream(u)) \/ UNCHANGED vars
      PROVE  cursor' = cursor /\ run' = run
  BY <1>7 DEF Check, CreateStage, NextDue, List, Fold, FoldGate, Merge, PutMerged, Start,
              Enqueue, PutEnqueued, Skip, Crash, Resume, Cancel, ResumeStage, CancelJob,
              CancelStage, Tick, Upstream, vars
<1> QED
  BY <1>1, <1>2, <1>3, <1>4, <1>5, <1>6, <1>7, <1>u, <1>d DEF Next, Pass, Command

-----------------------------------------------------------------------------
(* The theorems *)

Inv == Base /\ Honest /\ NeedsFirst /\ MergeInv /\ FiredInv

\* The invariant holds at the start.
LEMMA InvInit == Init => Inv
<1> SUFFICES ASSUME Init PROVE Inv
  OBVIOUS
<1>c. /\ NoRow \in Rows /\ NoJob \in JobRows /\ Idle \in ProcRec
      /\ 0 \in 0..NStages /\ 0 \in 0..MaxUps
  BY Constants
<1>1. TypeOK
  <2>1. /\ run \in [Runs -> RunRec]
        /\ row \in [Runs -> [Stages -> Rows]]
        /\ job \in [Runs -> [Stages -> [Attempts -> JobRows]]]
        /\ pr \in [Runs -> [Stages -> PRs]] /\ claim \in [Runs -> SUBSET Stages]
        /\ merges \in [Runs -> [Stages -> Nat]]
        /\ proc \in [Procs -> ProcRec]
    BY <1>c DEF Init, RunRec, RunStates, PRs
  <2>2. /\ spec \in Specs /\ due \in BOOLEAN /\ cursor \in 0..MaxUps
        /\ up \in [1..MaxUps -> {"running", "parked", "succeeded"}]
        /\ resumes \in Nat /\ crashes \in Nat
    BY <1>c DEF Init
  <2> QED BY <2>1, <2>2, TypeParts
<1>p. \A p \in Procs : proc[p] = Idle
  BY DEF Init
<1>2. JobInv /\ NeedsFirst
  BY DEF Init, JobInv, NeedsFirst, NoJob
<1>3. ProcInv
  BY <1>p DEF ProcInv, ProcOK, OnStage, Idle
<1>4. Honest
  <2>1. RowsHonest
    BY DEF Init, RowsHonest, NoRow
  <2>2. ViewHonest(Idle) /\ OutHonest(Idle)
    BY IdleHonest DEF OutHonest, Idle
  <2> QED BY <1>p, <2>1, <2>2 DEF Honest
<1>5. MergeInv
  <2>1. Idle.pc # "merge"
    BY DEF Idle
  <2>2. ClaimInv /\ OneMerge
    BY DEF Init, ClaimInv, OneMerge
  <2> QED BY <1>p, <2>1, <2>2 DEF MergeInv, AtMerge, Apart
<1>6. FiredInv
  BY DEF Init, FiredInv, FiredOnce
<1> QED BY <1>1, <1>2, <1>3, <1>4, <1>5, <1>6 DEF Inv, Base

\* The invariant is inductive.
LEMMA InvStep == Inv /\ [Next]_vars => Inv'
<1> SUFFICES ASSUME Inv, [Next]_vars PROVE Inv'
  OBVIOUS
<1>1. Base'
  BY TypeStep, JobStep DEF Inv, Base
<1> QED BY <1>1, HonestStep, NeedsStep, MergeStep, FiredStep DEF Inv

\* The whole invariant holds of every behaviour.
LEMMA InvHolds == Spec => []Inv
BY InvInit, InvStep, PTL DEF Spec

\* Whatever the specs and however passes, commands and crashes interleave, the
\* rows and what the processes keep of them have their types; in particular no
\* attempt and no continuation exceeds its bound.
THEOREM PipelineTypeCorrect == Spec => []TypeOK
<1>1. Inv => TypeOK
  BY DEF Inv, Base
<1> QED BY <1>1, InvHolds, PTL

\* enqueuePipelineStageJob never mints a job before what the stage needs is done,
\* however stale the view of the pass is.
THEOREM NeedsHold == Spec => []NeedsFirst
<1>1. Inv => NeedsFirst
  BY DEF Inv
<1> QED BY <1>1, InvHolds, PTL

\* The claim event makes every gate call the merge API at most once, for done and
\* reviewed work, with any number of scans, crashes, resumes and racing processes.
THEOREM MergeOnce == Spec => []MergeEarned
<1>1. Inv => MergeEarned
  BY MergeEarnedHolds DEF Inv
<1> QED BY <1>1, InvHolds, PTL

\* The trigger's transaction fires at most one run per upstream success.
THEOREM FiresOnce == Spec => []FiredOnce
<1>1. Inv => FiredOnce
  BY DEF Inv, FiredInv
<1> QED BY <1>1, InvHolds, PTL
=============================================================================
