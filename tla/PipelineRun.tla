---------------------------- MODULE PipelineRun ----------------------------
(***************************************************************************)
(* The runs of one pipeline (internal/pipeline/run.go and resume.go, with  *)
(* their rows in internal/db/pipeline_run.go and pipeline_trigger.go).     *)
(*                                                                         *)
(* A run is a row, a row per stage, and the jobs the stages mint.  The     *)
(* daemon's scan creates runs (on schedule, or after an upstream success)  *)
(* and advances the running ones; `pipeline run` creates a run and         *)
(* advances it once, from a process of its own; an operator resumes parked *)
(* runs and cancels.  No row carries a version and no write is conditional *)
(* on what was read: a pass works on the view of the rows it listed first. *)
(* Every write is a step, and a process may die between two of them.       *)
(***************************************************************************)
EXTENDS Integers, FiniteSets, Sequences

CONSTANTS
    NStages,       \* number of stages of the spec
    Specs,         \* the pipeline specs of the instance
    MaxRuns,       \* bound on runs
    MaxAttempt,    \* bound on attempts of a stage
    MaxGen,        \* bound on continuations of an orchestrate stage's tree
    Creators,      \* who creates runs: Daemon (schedule), Cli (`pipeline run`)
    MaxUps,        \* bound on upstream runs
    Mortal         \* the processes that may crash

Stages == 1..NStages
Runs == 1..MaxRuns
Attempts == 0..MaxAttempt
Daemon == "daemon"
Cli == "cli"
Oper == "operator"
Procs == {Daemon, Cli, Oper}

Kinds == {"shell", "review", "produce", "implement", "orchestrate", "gate", "auto"}
Jobless == {"gate", "auto"}
AllSpecs ==
    [kind: [Stages -> Kinds], needs: [Stages -> SUBSET Stages],
     source: [Stages -> Stages \cup {0}],  \* the implement stage a review or a gate is about
     retry: [Stages -> Attempts],
     timed: SUBSET Stages,                 \* stages with a timeout
     after: BOOLEAN,                       \* an upstream pipeline triggers this one
     runs: Runs, resumes: Nat, crashes: Nat,   \* bounds, `resumes` on `pipeline resume`
     cancels: SUBSET {"running", "blocked", "failed"}]  \* where an operator cancels

ASSUME PipelineAssumption ==
    /\ NStages \in Nat \ {0} /\ MaxRuns \in Nat \ {0} /\ MaxAttempt \in Nat /\ MaxGen \in Nat \ {0}
    /\ MaxUps \in Nat
    /\ Creators \subseteq {Daemon, Cli} /\ Mortal \subseteq Procs
    /\ Specs \subseteq AllSpecs
    /\ \A q \in Specs, s \in Stages :
           /\ \A d \in q.needs[s] : d < s             \* validated acyclic, in order
           /\ q.source[s] # 0 => q.source[s] \in q.needs[s]
           /\ q.kind[s] \in Jobless => q.source[s] # 0
           /\ q.source[s] # 0 => q.kind[q.source[s]] = "implement"

VARIABLES
    spec,      \* the pipeline's spec
    run,       \* run -> its row: state, halt stage, trigger, upstream run
    row,       \* run -> stage -> its row
    job,       \* run -> stage -> attempt -> the job with that deterministic id
    pr,        \* run -> implement stage -> its pull request
    claim,     \* run -> gates with an event pipeline_auto_merge_claim
    merges,    \* run -> gate -> calls of the merge API
    due,       \* the schedule's next_due has passed
    up,        \* upstream run (in order of start) -> its state
    cursor,    \* the upstream run the trigger fired on last
    resumes, crashes,
    proc       \* process -> where it is and what it knows

vars == <<spec, run, row, job, pr, claim, merges, due, up, cursor, resumes, crashes, proc>>

RunStates == {"none", "running", "succeeded", "blocked", "failed", "cancelled"}
StageStates == {"none", "pending", "queued", "running", "succeeded", "blocked", "failed",
                "skipped", "cancelled"}
\* gen is the generation of the job in JobID: 0 no job, 1 the stage's own job,
\* more its continuations; late is that StartedAt lies further back than the
\* stage's timeout.
Rows == [state: StageStates, attempt: Attempts, gen: 0..MaxGen, late: BOOLEAN]
NoRow == [state |-> "none", attempt |-> 0, gen |-> 0, late |-> FALSE]
\* st and dec are those of the newest generation; more is that its result
\* carries delegations the engine has yet to turn into a continuation.
JobRows == [st: {"none", "queued", "running", "settled", "cancelled"},
            dec: {"ok", "skipped", "blocked", "failed"},
            gen: 0..MaxGen, more: BOOLEAN, killed: BOOLEAN]
NoJob == [st |-> "none", dec |-> "failed", gen |-> 0, more |-> FALSE, killed |-> FALSE]
PRs == {"none", "nopr", "open", "pushed", "merged", "closed"}
PCs == {"idle", "create", "stages", "due", "trigger", "list", "fold", "merge", "merged",
        "enqueue", "enqueued", "skip", "settle", "reset", "kill", "mark"}
Idle == [pc |-> "idle", run |-> 1, at |-> 1, view |-> [s \in Stages |-> NoRow],
         todo |-> {}, out |-> NoRow, set |-> {}]

Init ==
    /\ spec \in Specs
    /\ run = [r \in Runs |-> [state |-> "none", halt |-> 0, trigger |-> "none", from |-> 0]]
    /\ row = [r \in Runs |-> [s \in Stages |-> NoRow]]
    /\ job = [r \in Runs |-> [s \in Stages |-> [a \in Attempts |-> NoJob]]]
    /\ pr = [r \in Runs |-> [s \in Stages |-> "none"]]
    /\ claim = [r \in Runs |-> {}]
    /\ merges = [r \in Runs |-> [s \in Stages |-> 0]]
    /\ due \in BOOLEAN
    /\ up = [u \in 1..MaxUps |-> "running"]
    /\ cursor = 0
    /\ resumes = 0 /\ crashes = 0
    /\ proc = [q \in Procs |-> Idle]
-----------------------------------------------------------------------------
Active == \E r \in Runs : run[r].state = "running"
Fresh == {r \in Runs : run[r].state = "none" /\ \A q \in 1..(r - 1) : run[q].state # "none"}
First(S) == {s \in S : \A t \in S : s <= t}
\* the bound on runs leaves room for one more
Room ==
    Cardinality({r \in 1..spec.runs : run[r].state = "none"})
    > Cardinality({q \in Procs : proc[q].pc = "create"})
InFlight(x) == x.state \in {"queued", "running"}
New(trigger, u) == [state |-> "running", halt |-> 0, trigger |-> trigger, from |-> u]
Pending == [NoRow EXCEPT !.state = "pending"]
IsReview(s) == spec.kind[s] = "review" /\ spec.source[s] # 0
\* a source-bound review without a pull request to be bound to
Unbound(r, s) == IsReview(s) /\ pr[r][spec.source[s]] \in {"none", "nopr"}

\* Defect: a dependency need only have ended.
Bug_DepsSucceeded(view, s) ==
    \A d \in spec.needs[s] : view[d].state \in {"succeeded", "blocked", "failed", "skipped"}

\* pipelineStageDepsSucceeded
DepsSucceeded(view, s) == \A d \in spec.needs[s] : view[d].state = "succeeded"

\* foldPipelineStageOutcome
FoldOutcome(j) ==
    IF j.st = "cancelled" THEN "failed"
    ELSE IF j.dec \in {"ok", "skipped"} THEN "succeeded"
    ELSE j.dec

\* Defect: one retry too many.
Bug_Ended(s, x, st) ==
    IF st = "failed" /\ x.attempt <= spec.retry[s]
    THEN [Pending EXCEPT !.attempt = x.attempt + 1]
    ELSE [x EXCEPT !.state = st]

\* The row of a stage that settled in state st: a failure with retries left
\* goes back to pending under the next attempt.
Ended(s, x, st) ==
    IF st = "failed" /\ x.attempt < spec.retry[s]
    THEN [Pending EXCEPT !.attempt = x.attempt + 1]
    ELSE [x EXCEPT !.state = st]

\* reflectPipelineStageRunning: the timeout counts from the start of the job.
Reflect(x) == IF x.state = "queued" THEN [x EXCEPT !.state = "running", !.late = FALSE] ELSE x

\* Defect: an implement stage waits for a pull request that will never come.
Bug_JobOutcome(r, s, x) ==
    LET j == job[r][s][x.attempt]
    IN IF x.gen < j.gen THEN [Reflect(x) EXCEPT !.gen = @ + 1]
       ELSE IF \/ j.st \in {"queued", "running"} \/ j.more
               \/ spec.kind[s] = "implement" /\ FoldOutcome(j) = "succeeded"
                  /\ pr[r][s] \in {"none", "nopr"}
            THEN x
       ELSE Ended(s, x, FoldOutcome(j))

\* decision-, implement- and orchestrateStageSettleOutcome: the row of a stage
\* with a job, after a look at that job
JobOutcome(r, s, x) ==
    LET j == job[r][s][x.attempt]
    IN IF x.gen = 0 THEN x
       ELSE IF x.gen < j.gen THEN [Reflect(x) EXCEPT !.gen = @ + 1]
       ELSE IF j.st = "running" THEN Reflect(x)
       ELSE IF \/ j.st = "queued"
               \/ j.st = "settled" /\ j.more
               \/ /\ spec.kind[s] = "implement" /\ FoldOutcome(j) = "succeeded"
                  /\ pr[r][s] = "none"
            THEN x
       ELSE Ended(s, x, FoldOutcome(j))

\* a gate that is not settled by its pull request
Waiting(x) == [x EXCEPT !.state = IF x.late THEN "blocked" ELSE "running"]

\* pipelineSourceStagePR
SourcePR(r, s) ==
    IF row[r][spec.source[s]].state = "succeeded" THEN pr[r][spec.source[s]] ELSE "none"

\* gateStageSettleOutcome
GateOutcome(r, s) ==
    CASE SourcePR(r, s) = "merged" -> "succeeded"
      [] SourcePR(r, s) \in {"nopr", "closed"} -> "blocked"
      [] OTHER -> "wait"

Reviews(s) == {t \in Stages : spec.kind[t] = "review" /\ spec.source[t] = spec.source[s]}
Approved(r, t) == job[r][t][row[r][t].attempt].dec = "ok"
\* Defect: the claim of an earlier scan is not honoured.
Bug_AutoOutcome(r, s, ci) ==
    IF row[r][spec.source[s]].state # "succeeded" THEN "wait"
    ELSE IF \E t \in Reviews(s) : ~(row[r][t].state = "succeeded" /\ Approved(r, t)) THEN "blocked"
    ELSE IF pr[r][spec.source[s]] = "merged" THEN "succeeded"
    ELSE IF pr[r][spec.source[s]] # "open" \/ ci = "red" THEN "blocked"
    ELSE IF ci = "unknown" THEN "wait" ELSE "claim"

\* PipelineAutoMerger.Evaluate: the live pull request x against the reviewed head,
\* and ci, what mergeability and the status policy say of an open one
Evaluate(x, ci) ==
    IF x = "merged" THEN "succeeded"
    ELSE IF x # "open" \/ ci = "red" THEN "blocked"      \* x: closed, or its head drifted
    ELSE IF ci = "unknown" THEN "wait" ELSE "ready"

\* autoMergeGateStageSettleOutcome up to the claim: how the gate settles, "wait",
\* or "claim" when there is a merge to try that no earlier scan claimed.
AutoOutcome(r, s, ci) ==
    IF row[r][spec.source[s]].state # "succeeded" THEN "wait"
    ELSE IF pr[r][spec.source[s]] \in {"none", "nopr"} \/ Reviews(s) = {} THEN "blocked"
    ELSE IF \E t \in Reviews(s) :
              /\ row[r][t].state \in {"none", "pending", "queued", "running"}
              /\ \A v \in Reviews(s) : v < t => row[r][v].state = "succeeded" /\ Approved(r, v)
         THEN "wait"
    ELSE IF \E t \in Reviews(s) : ~(row[r][t].state = "succeeded" /\ Approved(r, t)) THEN "blocked"
    ELSE IF Evaluate(pr[r][spec.source[s]], ci) # "ready" THEN Evaluate(pr[r][spec.source[s]], ci)
    ELSE IF s \in claim[r] THEN "wait" ELSE "claim"
-----------------------------------------------------------------------------
(* Passes.  Put writes stage s of p's run, as persistPipelineStage does: only *)
(* if the pass changed it.  Between two writes a pass only looks at its view. *)
Move(p, me) == proc' = [proc EXCEPT ![p] = me]
Put(p, s, x) ==
    row' = IF x = proc[p].view[s] THEN row ELSE [row EXCEPT ![proc[p].run][s] = x]

\* The scan goes on with the next run it listed, `pipeline run` returns.
PassDone(me) == [Idle EXCEPT !.pc = IF me.todo = {} THEN "idle" ELSE "list", !.todo = me.todo]

Open(me) == First({s \in me.at..NStages : InFlight(me.view[s])})
Ready(me) ==
    First({s \in me.at..NStages : me.view[s].state = "pending" /\ DepsSucceeded(me.view, s)})
Left(me) == First({s \in Stages : me.view[s].state = "pending"})

\* The three loops of AdvancePipelineRun: what the pass does next
SkipNext(me) == [me EXCEPT !.pc = IF Left(me) = {} THEN "settle" ELSE "skip", !.at = 1]
EnqueueNext(me) ==
    IF Ready(me) # {} THEN [me EXCEPT !.pc = "enqueue"]
    ELSE IF \E s \in Stages : InFlight(me.view[s]) THEN PassDone(me)
    ELSE SkipNext(me)
FoldNext(me) ==
    IF Open(me) # {} THEN [me EXCEPT !.pc = "fold"] ELSE EnqueueNext([me EXCEPT !.at = 1])
Saw(me, s, x) == [me EXCEPT !.at = s + 1, !.view[s] = x, !.out = NoRow]

\* scheduleOnePipeline and runPipelineRun up to the guard on active runs; a
\* scan that has nothing to create goes on to the trigger pass
Check(p) ==
    /\ proc[p].pc = "idle" /\ p # Oper
    /\ IF p \in Creators /\ (p = Daemon => due) /\ ~Active /\ Room
       THEN Move(p, [Idle EXCEPT !.pc = "create"])
       ELSE p = Daemon /\ Move(p, [Idle EXCEPT !.pc = "trigger"])
    /\ UNCHANGED <<spec, run, row, job, pr, claim, merges, due, up, cursor, resumes, crashes>>

\* CreatePipelineRun: the run's row, then the stages' rows one by one
CreateRun(p) ==
    /\ proc[p].pc = "create"
    /\ \E r \in Fresh :
           /\ run' = [run EXCEPT ![r] = New(IF p = Daemon THEN "schedule" ELSE "manual", 0)]
           /\ Move(p, [Idle EXCEPT !.pc = "stages", !.run = r])
    /\ UNCHANGED <<spec, row, job, pr, claim, merges, due, up, cursor, resumes, crashes>>

CreateStage(p) ==
    LET me == proc[p]
    IN /\ me.pc = "stages"
       /\ row' = [row EXCEPT ![me.run][me.at] = Pending]
       /\ Move(p, IF me.at < NStages THEN [me EXCEPT !.at = @ + 1]
                  ELSE [me EXCEPT !.pc = IF p = Daemon THEN "due" ELSE "list",
                                  !.at = 1, !.todo = IF p = Daemon THEN {} ELSE {me.run}])
       /\ UNCHANGED <<spec, run, job, pr, claim, merges, due, up, cursor, resumes, crashes>>

\* AdvancePipelineNextDue
NextDue(p) ==
    /\ proc[p].pc = "due"
    /\ due' = FALSE
    /\ Move(p, [Idle EXCEPT !.pc = "trigger"])
    /\ UNCHANGED <<spec, run, row, job, pr, claim, merges, up, cursor, resumes, crashes>>

\* Defect: the cursor is left where it was.
Bug_Trigger(p) ==
    /\ proc[p].pc = "trigger"
    /\ IF Active \/ ~Room \/ ~\E u \in DOMAIN up : up[u] = "succeeded"
       THEN UNCHANGED <<run, row>>
       ELSE \E u \in First({v \in DOMAIN up : up[v] = "succeeded"}), r \in Fresh :
                /\ run' = [run EXCEPT ![r] = New("pipeline", u)]
                /\ row' = [row EXCEPT ![r] = [s \in Stages |-> Pending]]
    /\ Move(p, PassDone([Idle EXCEPT !.todo = {r \in Runs : run'[r].state = "running"}]))
    /\ UNCHANGED <<spec, job, pr, claim, merges, due, up, cursor, resumes, crashes>>

\* triggerOnePipeline: the oldest success after the cursor, in one transaction
\* with the guard on active runs, all rows of the new run and the cursor; then
\* ListActivePipelineRuns
Trigger(p) ==
    LET ripe == First({u \in DOMAIN up : u > cursor /\ up[u] = "succeeded"})
    IN /\ proc[p].pc = "trigger"
       /\ IF ripe = {} \/ Active \/ ~Room THEN UNCHANGED <<run, row, cursor>>
          ELSE \E u \in ripe, r \in Fresh :
                   /\ run' = [run EXCEPT ![r] = New("pipeline", u)]
                   /\ row' = [row EXCEPT ![r] = [s \in Stages |-> Pending]]
                   /\ cursor' = u
       /\ Move(p, PassDone([Idle EXCEPT !.todo = {r \in Runs : run'[r].state = "running"}]))
       /\ UNCHANGED <<spec, job, pr, claim, merges, due, up, resumes, crashes>>

\* AdvancePipelineRun starts: the view of the pass
List(p) ==
    /\ proc[p].pc = "list"
    /\ \E r \in First(proc[p].todo) :
           Move(p, FoldNext([Idle EXCEPT !.run = r, !.view = row[r], !.todo = proc[p].todo \ {r}]))
    /\ UNCHANGED <<spec, run, row, job, pr, claim, merges, due, up, cursor, resumes, crashes>>

\* The FOLD pass.  A stage with a job; an orchestrate stage out of time has its
\* tree killed.
Fold(p) ==
    LET me == proc[p]
    IN /\ me.pc = "fold"
       /\ \E s \in Open(me) :
              LET x == JobOutcome(me.run, s, me.view[s])
              IN /\ spec.kind[s] \notin Jobless
                 /\ Put(p, s, x) /\ Move(p, FoldNext(Saw(me, s, x)))
                 /\ job' = IF spec.kind[s] = "orchestrate" /\ me.view[s].late
                           THEN [job EXCEPT ![me.run][s][me.view[s].attempt].killed = TRUE]
                           ELSE job
       /\ UNCHANGED <<spec, run, pr, claim, merges, due, up, cursor, resumes, crashes>>

\* A gate: waits, settles, or claims the right to merge.
FoldGate(p) ==
    LET me == proc[p]
        r == me.run
    IN /\ me.pc = "fold"
       /\ \E s \in Open(me), ci \in {"green", "red", "unknown"} :
              LET o == IF spec.kind[s] = "gate" THEN GateOutcome(r, s) ELSE AutoOutcome(r, s, ci)
                  x == IF o = "wait" THEN Waiting(me.view[s]) ELSE [me.view[s] EXCEPT !.state = o]
              IN /\ spec.kind[s] \in Jobless
                 /\ IF o = "claim"
                    THEN /\ claim' = [claim EXCEPT ![r] = @ \cup {s}]
                         /\ Move(p, [me EXCEPT !.pc = "merge", !.at = s])
                         /\ UNCHANGED row
                    ELSE /\ Put(p, s, x) /\ Move(p, FoldNext(Saw(me, s, x)))
                         /\ UNCHANGED claim
       /\ UNCHANGED <<spec, run, job, pr, merges, due, up, cursor, resumes, crashes>>

\* PipelineAutoMerger.Merge: one squash against the reviewed head, which the
\* host refuses when the head has moved
Merge(p) ==
    LET me == proc[p]
        r == me.run
        src == spec.source[me.at]
    IN /\ me.pc = "merge"
       /\ merges' = [merges EXCEPT ![r][me.at] = @ + 1]
       /\ \E ok \in BOOLEAN :
              /\ ok => pr[r][src] = "open"
              /\ pr' = IF ok THEN [pr EXCEPT ![r][src] = "merged"] ELSE pr
              /\ Move(p, [me EXCEPT !.pc = "merged", !.out =
                    [me.view[me.at] EXCEPT !.state = IF ok THEN "succeeded" ELSE "blocked"]])
       /\ UNCHANGED <<spec, run, row, job, claim, due, up, cursor, resumes, crashes>>

\* The gate's row is written after the merge.
PutMerged(p) ==
    LET me == proc[p]
    IN /\ me.pc = "merged"
       /\ Put(p, me.at, me.out) /\ Move(p, FoldNext(Saw(me, me.at, me.out)))
       /\ UNCHANGED <<spec, run, job, pr, claim, merges, due, up, cursor, resumes, crashes>>

\* The ENQUEUE pass.  A gate starts to wait, a review of no pull request is
\* blocked.
Start(p) ==
    LET me == proc[p]
    IN /\ me.pc = "enqueue"
       /\ \E s \in Ready(me) :
              LET x == [me.view[s] EXCEPT
                            !.state = IF spec.kind[s] \in Jobless THEN "queued" ELSE "blocked"]
              IN /\ spec.kind[s] \in Jobless \/ Unbound(me.run, s)
                 /\ Put(p, s, x) /\ Move(p, EnqueueNext(Saw(me, s, x)))
       /\ UNCHANGED <<spec, run, job, pr, claim, merges, due, up, cursor, resumes, crashes>>

\* Other stages get the job of their attempt, a new one or the one that is there
\* (enqueuePipelineStageJob).  A produce stage folds a settled job at once.
Enqueue(p) ==
    LET me == proc[p]
    IN /\ me.pc = "enqueue"
       /\ \E s \in Ready(me) :
              LET x == me.view[s]
                  j == job[me.run][s][x.attempt]
              IN /\ ~(spec.kind[s] \in Jobless \/ Unbound(me.run, s))
                 /\ job' = IF j.st # "none" THEN job
                           ELSE [job EXCEPT ![me.run][s][x.attempt] =
                                     [NoJob EXCEPT !.st = "queued", !.gen = 1]]
                 /\ Move(p, [me EXCEPT !.pc = "enqueued", !.at = s, !.out =
                       IF spec.kind[s] = "produce" /\ j.st \in {"settled", "cancelled"}
                       THEN Ended(s, [x EXCEPT !.gen = 1], FoldOutcome(j))
                       ELSE [x EXCEPT !.state = "queued", !.gen = 1]])
       /\ UNCHANGED <<spec, run, row, pr, claim, merges, due, up, cursor, resumes, crashes>>

PutEnqueued(p) ==
    LET me == proc[p]
    IN /\ me.pc = "enqueued"
       /\ Put(p, me.at, me.out) /\ Move(p, EnqueueNext(Saw(me, me.at, me.out)))
       /\ UNCHANGED <<spec, run, job, pr, claim, merges, due, up, cursor, resumes, crashes>>

\* Nothing is in flight: stages still pending are skipped.
Skip(p) ==
    LET me == proc[p]
    IN /\ me.pc = "skip"
       /\ \E s \in Left(me) :
              LET x == [me.view[s] EXCEPT !.state = "skipped"]
              IN Put(p, s, x) /\ Move(p, SkipNext(Saw(me, s, x)))
       /\ UNCHANGED <<spec, run, job, pr, claim, merges, due, up, cursor, resumes, crashes>>

\* Defect: only failed stages park a run.
Bug_Settlement(view) ==
    LET failed == {s \in Stages : view[s].state = "failed"}
    IN IF failed # {} THEN [state |-> "failed", halt |-> First(failed)]
       ELSE [state |-> "succeeded", halt |-> {0}]

\* computePipelineRunSettlement: the run's state and the stage it halts at
Settlement(view) ==
    LET In(st) == {s \in Stages : view[s].state = st}
    IN IF In("failed") # {} THEN [state |-> "failed", halt |-> First(In("failed"))]
       ELSE IF In("blocked") # {} THEN [state |-> "blocked", halt |-> First(In("blocked"))]
       ELSE [state |-> "succeeded", halt |-> {0}]

\* applyPipelineRunSettlement
Settle(p) ==
    LET me == proc[p]
        to == Settlement(me.view)
    IN /\ me.pc = "settle"
       /\ \E h \in to.halt : run' = [run EXCEPT ![me.run].state = to.state, ![me.run].halt = h]
       /\ Move(p, PassDone(me))
       /\ UNCHANGED <<spec, row, job, pr, claim, merges, due, up, cursor, resumes, crashes>>
-----------------------------------------------------------------------------
(* The operator's verbs.                                                    *)

\* pipelineStageAndDependents
AndDependents(from) ==
    LET in[s \in Stages] == s = from \/ \E d \in spec.needs[s] : in[d]
    IN {s \in Stages : in[s]}

\* Defect: stages that succeeded are reset, too.
Bug_Resume(r) ==
    /\ proc[Oper].pc = "idle" /\ resumes < spec.resumes
    /\ run[r].state \in {"blocked", "failed"}
    /\ \E from \in Stages :
           /\ \A s \in AndDependents(from) : row[r][s].attempt < MaxAttempt
           /\ Move(Oper, [Idle EXCEPT !.pc = "reset", !.run = r, !.view = row[r],
                                      !.set = AndDependents(from)])
    /\ resumes' = resumes + 1
    /\ UNCHANGED <<spec, run, row, job, pr, claim, merges, due, up, cursor, crashes>>

\* ResumePipelineRun: a parked run, from its halt stage or from another one
Resume(r) ==
    /\ proc[Oper].pc = "idle" /\ resumes < spec.resumes
    /\ run[r].state \in {"blocked", "failed"}
    /\ \E from \in {run[r].halt} \cup Stages :
           /\ \A s \in AndDependents(from) : row[r][s].attempt < MaxAttempt
           /\ Move(Oper, [Idle EXCEPT !.pc = "reset", !.run = r, !.view = row[r],
                                      !.set = {s \in AndDependents(from) :
                                                 row[r][s].state \notin {"none", "succeeded"}}])
    /\ resumes' = resumes + 1
    /\ UNCHANGED <<spec, run, row, job, pr, claim, merges, due, up, cursor, crashes>>

ResumeStage ==
    LET me == proc[Oper]
    IN /\ me.pc = "reset"
       /\ \E s \in First(me.set) :
              /\ row' = [row EXCEPT ![me.run][s] =
                             [Pending EXCEPT !.attempt = me.view[s].attempt + 1]]
              /\ Move(Oper, [me EXCEPT !.set = @ \ {s}])
       /\ UNCHANGED <<spec, run, job, pr, claim, merges, due, up, cursor, resumes, crashes>>

ResumeRun ==
    /\ proc[Oper].pc = "reset" /\ proc[Oper].set = {}
    /\ run' = [run EXCEPT ![proc[Oper].run].state = "running", ![proc[Oper].run].halt = 0]
    /\ Move(Oper, Idle)
    /\ UNCHANGED <<spec, row, job, pr, claim, merges, due, up, cursor, resumes, crashes>>

\* CancelPipelineRun: the jobs and rows of the open stages one by one, then
\* the run
Cancel(r) ==
    /\ proc[Oper].pc = "idle"
    /\ run[r].state \in spec.cancels
    /\ Move(Oper, [Idle EXCEPT !.pc = "kill", !.run = r, !.view = row[r],
                   !.set = {s \in Stages : row[r][s].state \in {"pending", "queued", "running"}}])
    /\ UNCHANGED <<spec, run, row, job, pr, claim, merges, due, up, cursor, resumes, crashes>>

\* workflow.CancelJob
CancelJob ==
    LET me == proc[Oper]
    IN /\ me.pc = "kill"
       /\ \E s \in First(me.set) :
              LET x == me.view[s]
                  j == job[me.run][s][x.attempt]
              IN /\ job' = IF /\ InFlight(x) /\ x.gen = j.gen
                              /\ \/ j.st \in {"queued", "running"}
                                 \/ j.st = "settled" /\ j.dec = "blocked"
                           THEN [job EXCEPT ![me.run][s][x.attempt].st = "cancelled"]
                           ELSE job
                 /\ Move(Oper, [me EXCEPT !.pc = "mark", !.at = s])
       /\ UNCHANGED <<spec, run, row, pr, claim, merges, due, up, cursor, resumes, crashes>>

CancelStage ==
    LET me == proc[Oper]
    IN /\ me.pc = "mark"
       /\ row' = [row EXCEPT ![me.run][me.at] = [me.view[me.at] EXCEPT !.state = "cancelled"]]
       /\ Move(Oper, [me EXCEPT !.pc = "kill", !.set = @ \ {me.at}])
       /\ UNCHANGED <<spec, run, job, pr, claim, merges, due, up, cursor, resumes, crashes>>

CancelRun ==
    /\ proc[Oper].pc = "kill" /\ proc[Oper].set = {}
    /\ run' = [run EXCEPT ![proc[Oper].run].state = "cancelled"]
    /\ Move(Oper, Idle)
    /\ UNCHANGED <<spec, row, job, pr, claim, merges, due, up, cursor, resumes, crashes>>
-----------------------------------------------------------------------------
(* What happens around the runs.                                            *)

\* A worker claims a stage's job.
JobStart(r, s, a) ==
    /\ job[r][s][a].st = "queued"
    /\ job' = [job EXCEPT ![r][s][a].st = "running"]
    /\ UNCHANGED <<spec, run, row, pr, claim, merges, due, up, cursor, resumes, crashes, proc>>

\* It settles.  The coordinator of an orchestrate stage may return delegations,
\* unless its tree was killed.
JobSettle(r, s, a) ==
    LET j == job[r][s][a]
    IN /\ j.st = "running"
       /\ \E d \in {"ok", "skipped", "blocked", "failed"}, more \in BOOLEAN :
              /\ d = "skipped" => spec.kind[s] \in {"implement", "produce"}
              /\ more => spec.kind[s] = "orchestrate" /\ j.gen < MaxGen /\ ~j.killed
              /\ job' = [job EXCEPT ![r][s][a] =
                             [@ EXCEPT !.st = "settled", !.dec = d, !.more = more]]
              /\ pr' = IF spec.kind[s] = "implement" /\ d = "skipped" /\ pr[r][s] = "none"
                       THEN [pr EXCEPT ![r][s] = "nopr"] ELSE pr
       /\ UNCHANGED <<spec, run, row, claim, merges, due, up, cursor, resumes, crashes, proc>>

\* The engine's advancement: a continuation for the delegations of a tree (see
\* Delegation), the pull request (or its absence) of an implemented stage.
JobAdvance(r, s, a) ==
    LET j == job[r][s][a]
    IN /\ j.st = "settled"
       /\ \/ /\ j.more
             /\ job' = [job EXCEPT ![r][s][a] =
                            [@ EXCEPT !.st = "queued", !.gen = j.gen + 1, !.more = FALSE]]
             /\ UNCHANGED pr
          \/ /\ spec.kind[s] = "implement" /\ j.dec = "ok" /\ pr[r][s] = "none"
             /\ \E x \in {"open", "nopr"} : pr' = [pr EXCEPT ![r][s] = x]
             /\ UNCHANGED job
       /\ UNCHANGED <<spec, run, row, claim, merges, due, up, cursor, resumes, crashes, proc>>

\* People push to, merge and close pull requests.
Host(r, s) ==
    /\ pr[r][s] \in {"open", "pushed"}
    /\ \E x \in {"pushed", "merged", "closed"} \ {pr[r][s]} : pr' = [pr EXCEPT ![r][s] = x]
    /\ UNCHANGED <<spec, run, row, job, claim, merges, due, up, cursor, resumes, crashes, proc>>

\* The timeout of a stage in flight passes.
Expire(r, s) ==
    /\ s \in spec.timed /\ InFlight(row[r][s]) /\ ~row[r][s].late
    /\ row' = [row EXCEPT ![r][s].late = TRUE]
    /\ UNCHANGED <<spec, run, job, pr, claim, merges, due, up, cursor, resumes, crashes, proc>>

\* The interval passes.
Tick ==
    /\ ~due /\ Room
    /\ due' = TRUE
    /\ UNCHANGED <<spec, run, row, job, pr, claim, merges, up, cursor, resumes, crashes, proc>>

\* Upstream runs succeed, or are parked and resumed.
Upstream(u) ==
    /\ spec.after /\ up[u] # "succeeded"
    /\ u > 1 => up[u - 1] # "running"
    /\ \E x \in {"parked", "succeeded"} \ {up[u]} : up' = [up EXCEPT ![u] = x]
    /\ UNCHANGED <<spec, run, row, job, pr, claim, merges, due, cursor, resumes, crashes, proc>>

Crash(p) ==
    /\ p \in Mortal /\ crashes < spec.crashes /\ proc[p].pc # "idle"
    /\ crashes' = crashes + 1
    /\ Move(p, Idle)
    /\ UNCHANGED <<spec, run, row, job, pr, claim, merges, due, up, cursor, resumes>>
-----------------------------------------------------------------------------
Pass(p) ==
    \/ Check(p) \/ CreateRun(p) \/ CreateStage(p) \/ NextDue(p) \/ Trigger(p) \/ List(p)
    \/ Fold(p) \/ FoldGate(p) \/ Merge(p) \/ PutMerged(p)
    \/ Start(p) \/ Enqueue(p) \/ PutEnqueued(p) \/ Skip(p) \/ Settle(p)

Command ==
    \/ \E r \in Runs : Resume(r) \/ Cancel(r)
    \/ ResumeStage \/ ResumeRun \/ CancelJob \/ CancelStage \/ CancelRun

Work(r, s, a) == JobStart(r, s, a) \/ JobSettle(r, s, a) \/ JobAdvance(r, s, a)

Next ==
    \/ \E p \in {Daemon, Cli} : Pass(p)
    \/ Command
    \/ \E r \in Runs, s \in Stages, a \in Attempts : Work(r, s, a)
    \/ \E r \in Runs, s \in Stages : Host(r, s) \/ Expire(r, s)
    \/ Tick
    \/ \E u \in DOMAIN up : Upstream(u)
    \/ \E p \in Procs : Crash(p)

Spec == Init /\ [][Next]_vars

\* The daemon loops over its scans, a started command goes on, jobs are run and
\* advanced, timeouts pass.  Nobody is obliged to merge, to push or to resume.
LiveSpec ==
    /\ Spec
    /\ \A p \in {Daemon, Cli} : WF_vars(Pass(p) /\ (proc[p].pc = "idle" => p = Daemon))
    /\ WF_vars(ResumeStage \/ ResumeRun \/ CancelJob \/ CancelStage \/ CancelRun)
    /\ \A r \in Runs, s \in Stages, a \in Attempts : WF_vars(Work(r, s, a))
    /\ \A r \in Runs, s \in Stages : WF_vars(Expire(r, s))
-----------------------------------------------------------------------------
(* Properties.                                                              *)

\* The types of the rows and of what the processes keep of them.
TypeOK ==
    /\ spec \in Specs
    /\ run \in [Runs -> [state: RunStates, halt: 0..NStages,
                        trigger: {"none", "schedule", "manual", "pipeline"}, from: 0..MaxUps]]
    /\ row \in [Runs -> [Stages -> Rows]]
    /\ job \in [Runs -> [Stages -> [Attempts -> JobRows]]]
    /\ pr \in [Runs -> [Stages -> PRs]]
    /\ claim \in [Runs -> SUBSET Stages]
    /\ merges \in [Runs -> [Stages -> Nat]]
    /\ due \in BOOLEAN
    /\ up \in [1..MaxUps -> {"running", "parked", "succeeded"}]
    /\ cursor \in 0..MaxUps
    /\ resumes \in Nat /\ crashes \in Nat
    /\ proc \in [Procs -> [pc: PCs, run: Runs, at: 1..(NStages + 1),
                          view: [Stages -> Rows], todo: SUBSET Runs, out: Rows,
                          set: SUBSET Stages]]

\* Stage s of run r has done its work, by its jobs and its pull request rather
\* than by its row: some attempt settled with a success decision, as the tail of
\* its continuation chain; a gate's pull request is merged.
Done(r, s) ==
    IF spec.kind[s] \in Jobless THEN pr[r][spec.source[s]] = "merged"
    ELSE \E a \in Attempts :
             /\ job[r][s][a].st = "settled" /\ job[r][s][a].dec \in {"ok", "skipped"}
             /\ ~job[r][s][a].more
             /\ spec.kind[s] = "implement" => pr[r][s] # "none"

\* No stage gets a job before the stages it needs have done their work (not just
\* settled), and no source-bound review before its pull request is stamped:
\* whatever view a pass works on, and whoever else writes the rows.
NeedsFirst ==
    \A r \in Runs, s \in Stages, a \in Attempts :
        job[r][s][a].st # "none" =>
            /\ \A d \in spec.needs[s] : Done(r, d)
            /\ IsReview(s) => pr[r][spec.source[s]] \notin {"none", "nopr"}

\* A stage has one live attempt at a time and none after a success: a later
\* attempt's job exists only once the earlier one is over without success, for
\* automatic retries, resumes and passes repeated after a crash alike.
InTurn ==
    \A r \in Runs, s \in Stages : \A a, b \in Attempts :
        a < b /\ job[r][s][b].st # "none" =>
            \/ job[r][s][a].st \in {"none", "cancelled"}
            \/ job[r][s][a].st = "settled" /\ job[r][s][a].dec \notin {"ok", "skipped"}

\* An auto-merge gate calls the merge API at most once in a run, however its
\* scans crash or race, and only for work whose source-bound reviews are done.
MergeEarned ==
    \A r \in Runs, s \in Stages :
        /\ merges[r][s] <= 1
        /\ merges[r][s] > 0 => /\ Done(r, spec.source[s])
                               /\ Reviews(s) # {} /\ \A t \in Reviews(s) : Done(r, t)

\* A run recorded as succeeded has done the work of every stage it has a row for,
\* unless a cancel has reached one of its stages: a scan takes a run that is being
\* cancelled, whose cancelled stage is neither open nor failed, for a finished one.
HonestSuccess ==
    \A r \in Runs : run[r].state = "succeeded" =>
        \/ \A s \in Stages : row[r][s].state = "none" \/ Done(r, s)
        \/ \E s \in Stages : row[r][s].state = "cancelled"

\* "RunSucceeded (every stage succeeded or skipped)" (state.go): no stage is
\* without a row.  It does not hold of runs that CreatePipelineRun inserts row by
\* row while a scan is looking.
SuccessMeansDone ==
    \A r \in Runs : run[r].state = "succeeded" =>
        \A s \in Stages : row[r][s].state = "skipped" \/ Done(r, s)

\* One upstream success starts at most one run, whatever crashes between the
\* scan's passes.
FiredOnce ==
    \A q, r \in Runs : q # r /\ run[q].from # 0 => run[q].from # run[r].from

\* A running run is settled in the end: every stage in flight is folded, retried
\* within its budget or timed out, over crashes of the scanning daemon.
RunEnds == \A r \in Runs : run[r].state = "running" ~> run[r].state # "running"
=============================================================================
