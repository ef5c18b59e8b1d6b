# gitmoot: a TLA+ verification project

gitmoot runs coding agents (codex, claude, kimi, shell) as *jobs*: rows of a
SQLite store that a background daemon picks up, runs in a runtime session and
advances along a delegation tree or a pipeline. Several processes share the
store with no coordinator but its transactions: the daemon with its worker
goroutines, foreground `gitmoot agent ...` commands, operator commands, and
runtimes that outlive the process that started them. What makes the system
hard is in that sharing, and that is what this project models.

Contents: [inventory](#inventory), [plan](#plan), [the modules](#modules),
[the runs](#runs), [bounds](#bounds), [fairness](#fairness),
[proofs](#proofs), [abstractions](#abstractions), [findings](#findings),
[known behaviours outside the passing runs](#known-behaviours-outside-the-passing-runs),
[not modelled](#not-modelled), [how to run](#how-to-run).

## Inventory

| Component | State it keeps | Operations | Interacts with |
|---|---|---|---|
| job rows (`internal/db/store_jobs.go`) | `jobs.state`, payload, `updated_at`, `runner_boot_id`, event log | create, compare-and-set transitions with an event, claim, listings for recovery, foreign-boot requeue | every process |
| resource locks (`internal/db/store_locks.go`, `cli/runtime_lock.go`) | one row per session / branch / checkout key: owner job, token, lease, boot id | acquire (reaps a dead row), heartbeat, token-scoped release, delete by owner, reap expired | workers, cancel, kill, recovery |
| job worker (`cli/daemon_worker.go`, `cli/daemon_result.go`) | a goroutine per job: preflight, lock, claim, run, error handling, deferred release | `jobWorker.run`, `handleRunJobError`, `runningJobContext` | mailbox, engine, locks, blocker holds |
| mailbox (`workflow/mailbox.go`) | the claim and the terminal write of one delivery | `Run`, `finishWithPayload`, `fail`, pre-terminal deferral hook | adapters, store |
| blocker deferral (`cli/job_blocker.go`, `job_blocker_checkout.go`) | `BlockerAttempts`, `BlockerRetryAt` in the payload | defer before the terminal write, defer on checkout contention, hold check | worker, selector |
| recovery (`cli/daemon_scheduler.go`) | listings taken once and used row by row; in-flight snapshot of a tick | expired locks, foreign boot, stale running rows, settle of cancelled rows | locks, rows, tracker |
| dispatch (`cli/daemon_dispatch_tracked.go`, `cli/daemon_scheduler.go`) | in-flight tracker: jobs, per-repo counts, checkout and runtime keys, pool passes, draining | barrier tick, pool pass, `beginWithin`/`end`, `tryBeginPool`/`endPool`, `drain` | worker, admission, supervisor |
| admission (`cli/admission_budget.go`) | reservations: one session and an estimate of memory per job | `Reserve`, `Release` | dispatch |
| operator commands (`workflow/job_recovery.go`, `job_kill.go`) | retry gate in the event log, `root_killed` | cancel, supersede, retry, settle, delegation kill | rows, locks, selector |
| delegation engine (`workflow/engine_delegation.go`, `engine_continuation_synthesis.go`, `engine_run_budgets.go`) | child jobs of a coordinator, its one continuation, advancement markers and delegation events | dispatch a plan, advance its DAG when a leg settles, retry a leg, gate, enqueue the continuation, finalize | workers, tick, store |
| escalation and resume (`workflow/engine_escalation_resume.go`) | rounds: requested / resolved events, the coordinator's task | pause for a failure or a question, resume by verb, TTL | poller, chat, engine |
| review loop and merge gate (`workflow/engine.go`, `merge_gate*.go`, `native_review*.go`) | task state, `pull_requests` mirror, branch lock, review and fix jobs of each round, CI observations | open the pull request, fan out reviews, route verdicts, fix, vet and merge, park | GitHub, poller |
| poller (`internal/daemon`) | what one poll has listed; processed comments | react to a changed head, retry advancements, promote, reconcile merged and closed pull requests, merge on request | engine, GitHub |
| pipelines (`internal/pipeline`, `db/pipeline_run.go`, `db/pipeline_trigger.go`) | run row, stage rows, deterministic job ids, merge claims, next due time, trigger cursor | create by schedule, command or upstream success; fold, gate, merge, enqueue, skip, settle; resume; cancel | engine, store, GitHub |
| worktrees and branches (`workflow/worktree.go`, `branch.go`, `checkout_lock.go`) | git worktrees, branch locks | allocate, take over, release | engine, cancel |
| heartbeats, events sink, credential gateway | due times; queue of deliveries; leases | wake, deliver, lend a credential | store, network |
| skillopt, memory, cockpit, configuration, clients | files, terminal | not concurrent in a way the life of a job depends on | |

Hard behaviours, with the properties that make each component correct:

* **Sessions.** At most one runtime drives a session, across the daemon,
  foreground processes and reparented runtimes; what a release or a reap
  deletes is one's own or a dead holder's row.
* **Recovery.** Listings are read first and acted on row by row, while workers
  claim, heartbeat, end and cancel; it must take back what crashed (and only
  that), soon enough and not too soon.
* **Terminal rows.** They stay terminal unless someone asks for a retry.
* **Cancel and retry.** A retry waits until the cancelled worker has settled.
* **Kill.** Queued legs of a killed tree never start; running ones keep their
  locks.
* **Dispatch.** The host-wide limit and the limit of each repository, one job
  per checkout, also for maintenance and polls, no double dispatch, budgets that
  are given back, a drain that ends and lets nothing start.
* **Advancement.** A finished job's consequences happen, and happen once, also
  when the process dies between the terminal write and them.
* **Delegations.** Legs settle at the same time and each advances the one DAG:
  dependencies before dependents, one live attempt per leg, one continuation,
  whose account of the legs is true; a paused tree is resumed or times out.
* **Reviews and merges.** A push, a verdict, a merge by a human, a closed pull
  request or a crash falls between any two steps of the gate: only vetted heads
  are merged, the task follows the host and never wedges.
* **Pipelines.** Scans work on views that others overwrite, and no write is
  conditional: needs first, attempts in turn, one merge, one run per trigger,
  every run ends.

The full list of components is in `PROJECT.json`; `hazards` there lists the
places where these behaviours can go wrong, each with the properties that
watch it.

## Plan

Done:

1. `JobRuns`: job rows, session locks, workers, recovery, operators, crashes.
   Theorems: types, session exclusion, row ownership, terminal rows, barrier
   accounting, killed legs.
2. `DispatchTracker`: in-flight tracker, pool and barrier selectors, isolation
   worktrees, polls and maintenance, admission, drain. Theorems: types,
   checkouts, limits, polls, maintenance, admission, isolation worktrees.
3. `Delegation` with the abstract specification `FanIn` it refines: advancement
   and its retry, the dependency DAG, failure policies, escalation and resume.
   Theorems: types, dependencies, honest synthesis, one attempt at a time, the
   refinement.
4. `PipelineRun`: runs and stages, schedule and trigger, gates and merges,
   resume and cancel. Theorems: types, needs, merges, triggers, and where one scan
   does it all the attempts of a stage and the success of a run.
5. `ReviewLoop`: pull request, review rounds, merge gate, poll. Theorems: types,
   vetted merges.

Left, in this order:

6. `BranchLocks` (branch and checkout locks over worktree allocation),
   heartbeats, `EventSink`, `CredentialLease`.
7. A fencing token per attempt in `JobRuns`, to state what a late result of an
   earlier attempt may do to a later one; in `DispatchTracker`, limits that a
   reload changes, and the memory half of the admission budget.

Modules that are proved about stay free of RECURSIVE operators, declare their
parameters as CONSTANTS with a named assumption, and have one action per store
statement or process event.

## Modules

| Module | What it is |
|---|---|
| `JobRuns` | the job row, its runtime-session lock and everything that may touch either |
| `MCJobRuns` | its constants for TLC: two jobs of one session |
| `JobRunsProofs` | inductive invariants and the TLAPS proofs |
| `DispatchTracker` | how the daemon starts jobs: tick, pool passes, job goroutines, poller, admission budget, shutdown |
| `MCDispatchTracker` | its constants for TLC: one or two repositories, up to three jobs, a task worktree |
| `DispatchTrackerProofs` | its inductive invariant and the TLAPS proofs |
| `FanIn` | what a coordinator is promised: legs in order, attempts, one join. A specification, not code |
| `Delegation` | a coordinator, its legs and everyone who advances their DAG; refines `FanIn` |
| `MCDelegation` | the plans of its runs |
| `DelegationProofs` | its invariants and the TLAPS proofs |
| `DelegationRestProofs` | the invariant of a tree that cannot come to rest undecided, and the TLAPS proofs |
| `FanInProofs` | the proof that it implements `FanIn` |
| `PipelineRun` | the runs of a pipeline, scanned by the daemon and by commands |
| `MCPipelineRun` | the pipelines of its runs |
| `PipelineRunProofs` | its inductive invariant and the TLAPS proofs |
| `PipelineScanProofs` | what holds where the daemon's scan is the only one to create and advance runs, and the TLAPS proofs |
| `ReviewLoop` | a task from its pull request to its merge |
| `MCReviewLoop` | the settings of its run |
| `ReviewLoopProofs` | its inductive invariant and the TLAPS proofs |

How they compose: `JobRuns` has a worker's row and its lock statement by statement
and says of dispatch only that a pass lists, and later begins what it listed;
`DispatchTracker` has the passes step by step and cuts the worker down to what a
pass can see of it (its row's state, a busy session, its result). The three
workflow modules start where a worker has its result. `Delegation` takes a job's
run as one step that settles it (that it runs once at a time is
`JobRuns!SessionExclusive` and `CoveredRunOwnsRow`). `ReviewLoop` has one worker or
the poll at work on a task's checkout, which is `DispatchTracker!CheckoutExclusive`
and `PollQuiet`. `PipelineRun` takes an orchestrate stage as a chain of
generations that ends, which is `Delegation!Settles`.

### JobRuns

Every action is one SQLite statement or transaction, or one event of a
process; whatever the code does between two statements may be interleaved with
anything else. The state:

| Variable | In the code |
|---|---|
| `state`, `attempts`, `hold` | `jobs.state`; `BlockerAttempts` and "`BlockerRetryAt` is in the future" of the payload |
| `unsettled` | `latestCancellationWasFromRunning` of the event log: the gate of `RetryJob` |
| `old`, `foreign` | `updated_at` before the stale window; `runner_boot_id` of an earlier boot |
| `lock` | `resource_locks` rows of runtime sessions: owner job, whose token it is, lease expired, earlier boot |
| `wk` | per process ("daemon", "fg") and job, how far the worker is (below) |
| `orphan` | jobs whose runtime was reparented when its process died |
| `listed` | what a dispatch pass has listed and not yet begun: stale when used |
| `pass`, `skip`, `todo`, `cur` | the recovery pass under way, the in-flight snapshot, the listed rows, the row found without a lease |
| `op`, `killed`, `ktodo` | operator commands between their statements; the kill's flag and listing |
| `cover` | history variable, read by properties only: what became of the lock row of a run |

A worker is `preflight` (before the lock), `locked` (before the claim),
`running`, `deferring` (between the two writes of a deferral), `failing` or
`erred` (before `handleRunJobError`), `advancing`, `releasing` (the deferred
release) and `idle`. The daemon's startup runs the passes `s_expired`,
`s_boot`, `s_bootlocks`, `s_stale`, `s_settle`; a tick runs `t_boot`,
`t_bootlocks`, `t_stale`, `t_expired`. `PROJECT.json` maps each definition to
its lines.

`cover` deserves a word. The code does not promise that two runtimes *never*
share a session: a lease that elapses while its holder is alive but silent is
given to somebody else on purpose, `job cancel` frees the session of a run that
may still be winding down, and a kill frees the locks of what is not running.
`cover` records exactly those three, so `SessionExclusive` can say that nothing
*else* breaks exclusion. For a daemon run in flight, an elapsed lease is not an
excuse (`KeptPastLease`): the in-flight exclusion of the tick and the
not-running condition of `AcquireResourceLock` must protect it.

### DispatchTracker

The tracker is one mutex-protected object, but what its users do with it is not
one critical section: a pass reads counts and keys, selects, and then reserves
and begins job by job, while the goroutines of jobs, the pool passes of other
repositories, the poller and a shutdown go on. Each read and each critical
section is an action.

| Variable | In the code |
|---|---|
| `state`, `iso`, `tree`, `deferred` | the row; "the payload points at the isolation worktree"; the worktree on disk; `BlockerRetryAt` |
| `sess` | who holds a runtime-session lock |
| `daemon`, `usePool`, `stops` | process and context; the scheduler of each repository, re-read every tick; bound on stops |
| `mutex` | the checkout lock of each repository, which tick and poll hold |
| `trk`, `pools` | `inflightJobTracker`: jobs with their checkout keys, `poolRuns` |
| `reserved` | `admissionBudget` |
| `wkr`, `by`, `isoRun` | the goroutine of a dispatch, the pass it will report to, whether it runs in an isolation worktree |
| `at`, `pend`, `seen`, `sel`, `rest`, `seed`, `cur`, `moved`, `bounced`, `failed` | per pass (the tick's, one per repository's pool): program counter, listed jobs, their payloads as read, selected, left over, keys held at selection, job in hand, "dispatched something", `bouncedBusy`, `firstErr` |
| `trepo`, `mkey`, `poll`, `pollAt` | where the tick is, the checkout its maintenance mutates, where the poll is |

A tick is `TickLock`, any number of `MaintCheck`/`MaintDone`, then either
`TickPool` (tryBeginPool) or `TickList`, `TickSelect`, and per job `Reserve` and
`Begin`, then `TickUnlock`. A pool pass is the loop `PoolReap`/`PoolEnd`/
`PoolRelease` per returned job, `PoolList`, `PoolSelect`, per job `Reserve` and
`Begin`, per job left over `PoolIsolate` and `PoolIsolatedBegin`,
`PoolDispatched`, `PoolWait`. A job is `StartFail`, `StartBusy` or `Start` and
`Finish`; a barrier job ends with `BarrierRelease` and `BarrierEnd`, in the order
of the deferred calls, a pool job when its pass reaps it.

### Delegation and FanIn

`Delegation` starts when the coordinator `P` has returned a plan. Its actors are
`P`'s own worker, the worker of every leg and attempt, the tick that repeats
advancements, the poller and a chat process; each has a record in `p` with where it
is and what it has read. A read of the children and every write is a step.

| Variable | In the code |
|---|---|
| `plan` | the delegations of the result (dependencies, retries, policies, synthesis rule) and what `P`'s payload says of its past (nudged, stalled, replan) |
| `row`, `text` | child jobs by delegation and attempt (`l`, `l/retry/k`, `l/resume`); the text a human's retry was queued with |
| `mark` | the latest `advancement_*` event of a job, from which the tick decides what to repeat |
| `cont`, `evCont`, `evFin`, `evRefused` | the job `P/continuation` and the events that keep it unique |
| `reqs`, `resolved`, `task` | `delegation_escalation_requested` / `_resolved` events; the state of `P`'s task |
| `tripped` | the tree's backstops: killed, or out of time, tokens or cost |

`AdvanceJob` to `AfterAdvance` are the entry of an advancement; `Dispatch` and
`Spawn` the plan's first legs; `Events`, `Retry`, `Pause`, `Deps`, `Reread`, `Gate`,
`Continue`, `Correct` the body of `advanceDelegations`; `Finalize*` the end after
an unanswered round; `Human`, `Expire`, `Resume*` the resume.

`FanIn` says the same without store, crash or stale view: a leg starts when its
dependencies are good, a bad leg may be tried again, and the tree is joined once
by a synthesis, a final word or a block. `Delegation!Join` instantiates it, with
the state of a leg read off its newest row and the outcome off the continuation
and the task; the run `crash` checks `Join!Spec` as a property.

### PipelineRun

| Variable | In the code |
|---|---|
| `spec` | kinds, needs, source, retries and timeouts of the stages |
| `run`, `row` | `pipeline_runs` (state, halt stage, trigger, upstream run); `pipeline_run_stages` (state, attempt, the job's generation, "the timeout has passed") |
| `job` | per stage and attempt, the job of the deterministic id: state, decision, generation, open delegations, killed |
| `pr`, `claim`, `merges` | the pull request of an implement stage; `pipeline_auto_merge_claim` events; calls of the merge API |
| `due`, `up`, `cursor` | `next_due`; the runs of the upstream pipeline; the trigger cursor |
| `proc` | daemon, `pipeline run` and operator: program counter, run, stage, the view listed at the start of a pass, what is about to be written |

A scan is `Check`, perhaps `CreateRun` and `CreateStage` per stage and `NextDue`,
then `Trigger`, and per running run `List` and the three loops of
`AdvancePipelineRun`: `Fold`/`FoldGate`/`Merge`/`PutMerged`, then `Start`/`Enqueue`/
`PutEnqueued`, then `Skip` and `Settle`.

### ReviewLoop

| Variable | In the code |
|---|---|
| `host`, `ci` | the pull request on GitHub (state, head as a number that grows with every push, behind its base, who merged, whether the task has got another one since); statuses and check runs of each head |
| `obs` | `no_ci_observations`: the head first seen without CI and whether the wait is over |
| `task`, `parked`, `mirror` | the task's state; the last reason it was parked; the `pull_requests` row |
| `branch` | its head at the origin, the head of the task's worktree (`Stray`: something the origin has not got; 0: no worktree), the branch lock |
| `job` | review and fix jobs by round and agent: state, head, decision, whether the advancement is due |
| `auto`, `ask`, `moves` | `[merge_gate] auto_merge`; a comment that asks for the merge; what people, host and crashes may still do |
| `proc` | worker, poll and a foreground process: program counter and what they have read |

`Preflight` is the check of the checkout before a run (`Work`) and before a late
advancement (`Retry`): a fix needs the worktree at its head and the branch lock; a review
is moved to whatever the worktree is at, as `resyncReviewHead` does, unless the plan
says that people keep the worktree at the heads under review (`follow`).

An advancement is `Advance`, then by verdict `Changes`/`DispatchFix`, `Block`, for an
implementation `Finalize` (commit and push), `Adopt` (the row of the branch, or
`EnsurePullRequest`) and `Save` (the payload), then
`Opened`/`StartRound`/`Enqueue`/`Reviewing`/`Baseline`, or the gate: `Gate`, `Pull`,
`Vet`, `Checkout`, `Fresh`, `Merge`, `Record`, `Unlock`, `Merged`, `Ready` or
`Park`. A poll is `PollStart` and the parts of `PollOnce` in their order.

## Runs

| Run | Shows |
|---|---|
| `barrier` | a daemon job and a foreground job on one session, barrier dispatch, cancel / supersede / retry, one crash or reboot: `SessionExclusive`, `ActiveRunAccounted`, `CoveredRunOwnsRow`, `TerminalLeftOnPurpose`, types (835 thousand states) |
| `kill` | a delegation kill of a root and a leg at any moment of their runs, while live daemon leases lapse: `KillSparesRunning`, `KilledLegStaysDown` (473 thousand) |
| `live` | under fairness, with deferrals and two crashes: a stranded row is recovered, a dead holder's lock reclaimed, a queued job served |
| `checkout` | three jobs of one repository (a shell job in a task worktree, a read-only and a writing job in the checkout), scheduler flips, maintenance and polls: `CheckoutExclusive`, `RepoLimit`, `PollQuiet`, `MaintQuiet`, `NotStranded`, types |
| `limits` | two repositories, each under barrier or pool, compete for two host slots and one admission slot: `HostLimit`, `AdmissionLimit` |
| `progress` | under fairness, a graceful stop or a crash at any point, a restart, a session that foreground processes use too: `NoReservationLeak`, `DrainCompletes`, `BouncedRetried` |
| `crash` | one daemon crash between any two writes of any advancement, for five plans: the tree is decided and every advancement reconciled (`Settles`), every round closed (`RoundsEnd`), and the whole refines `FanIn` (`JoinsAsPromised`) (52 thousand) |
| `human` | twenty-four plans and settings with human retry, continue, abort and answer, the TTL, kills, refusals and runs without a result: `DepsFirst`, `OneActiveAttempt`, `HonestSynthesis`, `NeverStranded` (674 thousand) |
| `pipeline` | six pipelines, a daemon that may crash between any two writes, resume, and cancel of parked and (in one) running runs: `NeedsFirst`, `InTurn`, `MergeEarned`, `HonestSuccess`, `FiredOnce`, `RunEnds`, types (169 thousand) |
| `loop` | ten settings of reviewers, CI and automatic merge while people push, merge, close, reopen, cancel and ask, the base moves and the daemon crashes; in four of them nobody keeps the worktree at the heads under review: `VettedMerge`, `FollowsHost`, `ApprovedMoves`, `ClosedSettles` (188 thousand) |
| `ask`, `hollow` | the counterexamples described under [findings](#findings) |

Between them the passing runs take every action of the next-state relations.
The whole invariant of `ReviewLoopProofs` was also checked, under the hypothesis of its
theorem, on eight plans that go further: a foreground process with reviewers, pushes, early
crashes, CI that fails (the first eight million states).

## Bounds

`JobRuns`:

* Two jobs on one session: the shortest conflict involves two runs of one
  session (or one job run twice, which a single job already allows), and each
  further session is independent: locks are keyed by session and no step reads
  two of them. The theorems hold for any number of both.
* `MaxCrashes` bounds crashes and reboots: 1 in `barrier`, 2 in `live`, none in
  `kill`. One leaves a reparented runtime beside its successor; two leave two.
* `MaxBlockerRetries` is 3 in the code. 0 in most runs: the attempt at the limit
  is refused there; 1 in `live`, where a deferral is granted, and then refused.
  The theorems hold for any budget.
* `LiveLapse` names the processes whose lease may elapse while they live.
  `kill` lets the daemon's lapse, which is what recovery needs there; the others
  have none (in `live` a lapse would excuse what it looks for). The theorems have any.
* `OpJobs` names the jobs that operators touch. It is empty in `kill`, as a
  cancel in between makes a row not running, and the kill may then delete its
  locks, as the cancel would.

`DispatchTracker`:

* Two passes can meet in one repository (tick and pool, by a scheduler flip) or
  compete across two; a third adds no new kind of meeting. Three jobs fill a limit
  of two and leave one over, which the isolation path and a full host need. `Workers`, `Limit` and
  `MaxSessions` are chosen so that each limit is reached.
* `Serviced` (maintenance and polls), `Flips` (live scheduler changes), `Faulty`
  (workers that fail before their claim, or end with the row still running),
  `Again` (jobs that come back), `FgSessions` (sessions used from outside) and
  `MaxStops` name where a run has that source of interleaving. A run has those
  that can disturb its properties; the theorems have all of them at once.

`Delegation`:

* Two legs: the shortest race is of two legs that settle at once, and a chain of
  two has a dependent; one automatic retry and one of a human per leg give every
  kind of attempt. Plans are enumerated by the feature they exercise.
* `MaxRounds` bounds the rounds in which a human retries, `MaxJobs` is never
  reached but by the plans that start near it, `MaxCrashes` is 1 in `crash`.
* `crash` has no human verbs, no `escalate`, no `block_parent` leg with retries
  and no runs without a result; `human` has no crash. What lies between is
  listed [below](#known-behaviours-outside-the-passing-runs).

`PipelineRun`: three stages are the shortest pipeline with an implementation, a
review and a merge. One retry, one resume, one crash and a second run make every
repetition happen once; with `MaxGen` 2 a coordinator is continued once. In
`pipeline` only the daemon creates runs and crashes. Five pipelines have their parked
runs cancelled (a parked run has no open stage left); `Stop` is cancelled while it
runs, without a crash or a resume. The theorems allow everything.

`ReviewLoop`: three heads (`heads` of a plan; two where CI or two reviewers multiply the
states) allow a fix after a fix, or a fix and a push. Each move of people happens at most once. Two
reviewers can disagree. One fix in flight while the pull request is closed or merged is in
four of the settings.

Deadlock is checked in `pipeline` and `hollow`, where the daemon always has a scan to
make, and not elsewhere: with every job terminal, crashes used up and the daemon
stopped for good, the bounded systems may stop.

## Fairness

`JobRuns!FairSpec` assumes: the supervisor restarts and goes through its passes (its
loop); a worker goes on to its end (each statement returns, a run ends at its
job timeout at the latest); clocks advance, so that an untouched running row
becomes old and a lease nobody renews elapses (strong fairness, since both
happen only between two passes); a hold elapses; selection lists and begins
each queued job again and again (strong fairness: in order of creation, with
finite queues); lock acquisition and claim do not fail for ever. Nothing is
assumed of operators, of crashes or of live leases.

`DispatchTracker!FairSpec` assumes: a pool pass goes on (weak fairness of its
loop); the tick visits every repository again and again (strong fairness of its
lock, which a poll holds for a bounded time) and gets from maintenance to dispatch
(strong fairness of `TickPool \/ TickList`: it has finitely many candidates); it
then selects, begins and unlocks; a poll ends (`daemonPollTimeout`); a job's
goroutine goes on and ends (its timeout at the latest); a foreground process that
has a session gives it back; a cancelled context leads to the drain. Nothing is
assumed of arrivals, stops, crashes, starts or scheduler changes.

`Delegation!Fairness` assumes: every actor goes on with what it has begun, a leg's
run ends (its timeout), the tick repeats pending advancements, the TTL passes
where it is on. Humans owe nothing.

`PipelineRun!LiveSpec` assumes: the daemon goes through its scans and a started
command goes on; jobs are claimed, settle and are advanced; the timeout of a stage
that has one passes. Nobody has to merge, push, resume or cancel.

`ReviewLoop!Fairness` assumes: every actor goes on; the poll starts, and jobs run and
advancements are retried, again and again (strong fairness: worker and poll each
wait until the checkout is free, and the supervisor's loop serves both); CI that has
started ends; the clock runs. People owe nothing.

## Proofs

`JobRunsProofs` proves, for every set of jobs, sessions, foreground jobs and
legs, any number of crashes and retries, both dispatchers and any
`LiveLapse` (assumption `ConstantsAssumption` only):

| Theorem | Statement |
|---|---|
| `TypeCorrect` | `Spec => []TypeOK` |
| `SessionSafety` | `Spec => []SessionExclusive` |
| `RowOwnership` | `Spec => []CoveredRunOwnsRow` |
| `TerminalRespected` | `Spec => TerminalLeftOnPurpose` |
| `BarrierAccounted` | without pool dispatch, `Spec => []ActiveRunAccounted` |
| `KilledTreeStaysDown` | `Spec => KilledLegStaysDown` |
| `KillSpares` | without pool dispatch, and with a tree outside `FgJobs` and `OpJobs`, `Spec => KillSparesRunning` |

None of the invariants is inductive by itself. `Inv` conjoins five parts:

* `TypeOK`;
* `RowInv`: a lock row's key is the session of its owner; a row with a live
  process's token belongs to a worker that has acquired and not yet released, and
  is of this boot;
* `WorkerInv`: no worker for a row not yet inserted, none of the daemon's before
  its startup is over, foreground workers for foreground jobs only, no cover before
  the acquisition, and a run under way was claimed on this boot;
* `CoverInv`: a covered worker owns its row, and past its lease only a daemon run
  whose row is running is covered (`WorkerCovered`); a covered orphan's row has
  nobody's token and has not expired (`OrphanCovered`);
* `SkipInv`: within a recovery pass, an expired row with the daemon's token belongs
  to a job in the pass's snapshot, and a pass works only on jobs it does not skip.

Session exclusion follows from `CoverInv` because the row of a session has one
owner and one token. `SkipInv` is what makes the reap safe: time passes only
between passes (a pass compares with the clock of its start), so a row that is
expired during a tick was so at its start, when the snapshot was taken.
`BarrierInv` adds that a running worker is in the snapshot (`InFlightInv`, which
the pool dispatcher breaks) and that a retry read only a
settled row (`RetryInv`). `KillInv` relates the kill's listing to the rows.
`SpareInv` is for the other half of the kill, whose lock cleanup asks only whether the row is
running: a covered daemon run's row is (`BarrierInv`, as nobody cancels the tree's jobs,
`LeftAlone`), and so is that of a covered reparented runtime, which no worker, listing or recovery
pass has in hand while its lease holds (`OrphanSpared`). The three hypotheses are the code's:
past each of them TLC prints a trace ([below](#known-behaviours-outside-the-passing-runs)).

`DispatchTrackerProofs` proves, for every set of repositories, jobs and worktrees,
every assignment of keys and sessions, all limits, scheduler changes at any time
and any number of stops and crashes (assumption `TrackerAssumption` only):

| Theorem | Statement |
|---|---|
| `TrackerTypeCorrect` | `Spec => []TypeOK` |
| `CheckoutSafety` | `Spec => []CheckoutExclusive` |
| `HostLimitHolds`, `RepoLimitHolds` | `Spec => []HostLimit`, `Spec => []RepoLimit` |
| `PollSafety`, `MaintSafety` | `Spec => []PollQuiet`, `Spec => []MaintQuiet` |
| `AdmissionSafety`, `ReservationSafety` | `Spec => []AdmissionLimit`, `Spec => []NoReservationLeak` |
| `IsolationSafety` | `Spec => []NotStranded`, if `MaxStops = 0` and no read-only job is `Faulty` |

Its `Inv` has these parts, each with the step lemma that keeps it:

* `PassInv` (`PassStep`): a pool pass is registered exactly while it runs, tick and
  poll hold the checkout lock of their repository, and no pool pass has the tick's
  repository while the tick selects, begins or mutates;
* `HandInv` (`HandStep`): what a pass has in hand are jobs of its own repository.
  With `PassInv` it gives `OneSelector`: no two passes have work of one repository
  in hand. This is the fact the checkout argument rests on, since `beginWithin`
  compares no keys;
* `KeyInv` (`KeyStep`): what a pass has picked is compatible with the keys in flight
  and with itself. Nobody else can take a key of that repository in between
  (`OneSelector`, `KeysApart`), so it is still so when the pass begins the job;
* `MaintInv` (`QuietStep`): the checkout that maintenance mutates is one of the
  tick's repository, for which nothing begins meanwhile. A poll has the lock the tick
  would need, and saw no pool pass;
* `WorkInv` (`WorkStep`): dispatch, tracker entry, reservation and the pass that has
  them come and go together, in the orders the code has them;
* `BudgetInv` (`CountStep`): reservations are within the budget; with `WorkInv` they
  cover whatever executes;
* `LimitInv` (`LimitStep`): the load of a repository, which is what it has in flight
  and what its selecting pass is about to begin, is within its limit. For a
  repository with a pool pass all jobs in flight are that pass's own, which is why its
  own count is enough: `tryBeginPool` refuses to start beside jobs of the barrier.

`IsolationSafety` has an invariant of its own beside `Inv`, `IsoInv` (`IsoStep`). The pool's
reap restores a payload and then removes its worktree, and the row may change between the two;
`Placed` says of a run on a worktree that has returned without a bounce that its row is over,
or queued behind a blocker, and that after the restore it is over. Whoever queues such a row
again builds a payload without the worktree. Both hypotheses are limits of the code: the reap
restores what bounced or was deferred and nothing else, so that a run cut off by a shutdown or
ended by a store error leaves a queued row on a removed worktree
([below](#known-behaviours-outside-the-passing-runs)).

`PipelineRunProofs` proves, for every set of specs, any number of stages, runs,
attempts, generations, resumes and crashes, with `pipeline run`, the daemon and the
operator at work on the same run, and cancels of running runs (assumption
`PipelineAssumption` only):

| Theorem | Statement |
|---|---|
| `PipelineTypeCorrect` | `Spec => []TypeOK` |
| `NeedsHold` | `Spec => []NeedsFirst` |
| `MergeOnce` | `Spec => []MergeEarned` |
| `FiresOnce` | `Spec => []FiredOnce` |

The argument: views are stale, but what they say of a success never becomes false.
`Moves` lists what any step may do to a job and to a pull request; from it `Stable`
follows, that the work of a stage is never undone, and `JobInv`, that a job never
minted has no verdict and only coordinators have open delegations. `Honest` says
that a row, a row in a view and a row about to be written that say "succeeded" are
about a stage whose work is done: a fold reads success off jobs and pull requests
(`JobOutcomeHonest`, `GateOutcomeHonest`), and stability carries it over whatever
happens until the write. `NeedsFirst` is then a matter of `Enqueue`. For merges,
`MergeInv` adds that a claim is taken by one process, at most once per gate and
only for done and reviewed work, and that a process about to merge holds a claim
nobody has redeemed, alone. `FiredInv` keeps the cursor at or past every run fired.

`PipelineScanProofs` proves the other two safety properties of the runs, for any specs,
bounds and crashes, where the daemon does it all:

| Theorem | Hypothesis | Statement |
|---|---|---|
| `AttemptsInTurn` | `OneScan`: only the daemon creates runs, and no cancel of a running run | `Spec => [](OneScan => InTurn)` |
| `SuccessIsHonest` | `Steady`: `OneScan`, no produce stage with a retry, and a resume that was begun is finished | `Spec => [](Steady => HonestSuccess)` |

Both hypotheses are about the spec of the behaviour and the processes that take part, and
each part of them is one of the [known behaviours](#known-behaviours-outside-the-passing-runs):
`pipeline run` and the cancel of a running run put a second writer beside the scan; a produce
stage that is put back to pending for its retry is skipped in the same pass; a resume that
dies halfway leaves stages skipped whose cause it has already reset, and a later resume from
elsewhere lets the run succeed without them.

The argument, which nothing in the code states: no write is conditional, so the daemon's view
must be *current*. `ScanInv` says so, and what that rests on. The scan works on running runs,
the operator on parked ones, and a settlement or the end of a command hands a run over
(`ScanFits`, `OperFits`). In a pass the view has state and attempt of every row as the row
has them (`Synced`). Rows fit jobs (`RowsFit`): the attempts before the row's own are over, those
after it have no job, and its own is over when the row has ended without success (`Upto`). A
crash between a job and its row leaves a pending row with a job, and then what the stage
needs has succeeded and the run is not parked. That the next pass finds such a job before it
skips anything is `Behind`: where the enqueue loop has been, a pending stage still needs
something. `InTurn` is `Upto` of a later attempt's job. `SkipInv` adds for `HonestSuccess` that a skipped stage
needs one that has ended without success, or is about to be reset by the resume
that took the cause away (`SkipsFit`); that what a resume has left to reset is closed under
dependents (`Shut`, by `DependentsShut` from the recursion of `AndDependents`) and is reset in
order; and that the rows of a run are created in order. So the first stage that a run about
to succeed had skipped would need one that failed, was blocked, cancelled or skipped; the settlement
rules out the first two, and the order the last.

`DelegationProofs` proves, for any number of legs, attempts, rounds and crashes, every
set of plans and all resume verbs (assumption `DelegationAssumption`; the last theorem
has one more hypothesis):

| Theorem | Statement |
|---|---|
| `DelegationTypeCorrect` | `Spec => []TypeOK` |
| `SynthesisHonest` | `Spec => []HonestSynthesis` |
| `DependenciesFirst` | `Spec => []DepsFirst` |
| `AttemptsAlone` | `OneRetrier`, `Spec => []OneActiveAttempt` |

The argument: an actor decides from a listing of the children that others overtake, but
what a listing says of a *settled* row stays true, but for one thing: a leg that died
without a result may still get a failed one from its own advancement (`Honest`). `RowMoves`
is what any step may do to the rows. `Know` carries `Honest` over it for every
listing: those of the actors, those in a continuation about to be written, and that
of the continuation. It also says that whoever pauses or resumes a leg does so for one that failed
(`LegFailed`). `HonestSynthesis` reads off the continuation's listing what was checked
when it was made. For the other two, `Inserts` says that a row is queued only when it is
`Due`: a first attempt after its dependencies succeeded, a retry after the attempt before
it failed, a resume after a failure that went to a human. `DepsFirst` follows since
success is for good. `AttemptInv` says that all attempts before one that is there have
failed; it needs `OneRetrier`, that no leg is retried both by the engine and by a human.
This is not for the prover's sake: without it the property is false (see
[below](#known-behaviours-outside-the-passing-runs)).

`DelegationRestProofs` proves that no tree is left behind, for any number of legs, attempts, rounds
and crashes:

| Theorem | Statement |
|---|---|
| `RestsDecided` | `Spec => [](Rests(plan) => NeverStranded)` |
| `RefusalsAnswered` | `Spec => [](Rests(plan) => RefusalAnswered)` |

`Rests` says of which plans: all plans of `human` and of `crash` (`crash` plans also with crashes) are
among them. Its clauses:

* an orchestrate stage has no retries where an allocation may be refused;
* where the daemon may die, no run ends without a result, and the plan is not refused as a loop
  or in preflight;
* if a failure goes to a human (`escalate_human`), then nothing else stops the tree: no leg asks, no
  allocation is refused, no leg has `block_parent`, no `vote` or `quorum`, and the legs for
  humans end with a result.

The first and the second are about the code's crash windows and one missing case, the third about a
resume that a block or another question undoes. Past each of them TLC prints a trace
([below](#known-behaviours-outside-the-passing-runs)); only a coordinator's own question
beside an `escalate_human` leg is excluded for the proof's sake.

`NeverStranded` is a liveness argument in the form of an invariant: as long as P is undecided
somebody is on the way to decide it, and none may leave before another has come. `RestInv` says who:

* `Attended`: each job is advanced by one worker at a time, and its marker stays pending until
  the advancement is over, but for the late ones, whose row has failed. What a crash
  interrupts the tick therefore takes up again (`Awaits`);
* `Continues`, `Asked`: an event, a closed round, a human who has finished a resume stand for a
  continuation; a question that has no round yet is still to be asked;
* `Progress`: before the legs are spawned P's own advancement goes on (`ParentWorks`); afterwards
  a leg runs, or an advancement will list the children, or has just done so, or goes to an end
  that decides P (`ChildWorks`). Each dependent that may be queued is seen to by someone
  (`Taken`), and the leg that has failed for a human is come back to by its own advancement
  (`Returns`).

The last two are what makes it inductive. An advancement whose listing shows legs unresolved just
leaves. If nothing has moved since it listed them, some leg runs or is still to be spawned
(`Stuck`: the `Runnable` legs without a child have a first one whose dependencies succeeded). If
something has, the listing may be the only one that shows a dependent ready, or a failure
for a human, and only `Taken` and `Returns` say that whoever made the change comes back. `Keeps` is
that step for each kind of action of a child's advancement; the other actors change nothing it
rests on (`RunProgress`, `TakenUpProgress`).

`FanInProofs` proves that `Delegation` implements `FanIn`, for any number of legs and
crashes:

| Theorem | Hypothesis | Statement |
|---|---|---|
| `LegsAsPromised` | `NoResume`: no human retries | `Spec => [][LegStep]_vars` |
| `JoinRefined` | `PlainTree` | `Spec => JoinsAsPromised` |

`LegStep` is FanIn's account of the legs: a step starts, finishes or retries one of them
as `FanIn` does, or touches none. It holds of every plan. `AttemptInv` puts the attempts of a leg in
order (`InOrder`), so that a row inserted becomes the current attempt (`LatestLast`), `Due`
gives the guard of `Start` or `Again`, and a run that ends is always the current attempt's.

The join is another matter. It is decided from a listing, written some steps later, and
races the blocks that other workers decide from theirs; the code promises what `FanIn`
says only of some plans. `PlainTree` says which:

* the plan is dispatched as it stands: it is not refused, no allocation fails, nothing trips
  and `MaxJobs` has room; no `vote` or `quorum`, whose failure blocks the task, and `verify`
  only where a failed one is planned again;
* at most one leg has a retry, one retry, no dependencies, and every dependent depends on it;
* where a leg may block the task it has no retry, legs have no dependencies, and none
  escalates or asks;
* humans abort rounds, if anything.

The five plans of `crash` are plain, so the theorem says of any number of legs and crashes what the run
says of two and one. Nearly all of the limits are the code's and not the prover's; past them TLC
prints a trace. Two legs with a retry, one leg with two, a retried leg that depends on
another, or a dependent that does not wait for the retried leg: the listing made after a retry
or after a dependent was queued may show a failure that has a retry left, and the tree is
joined or blocked on it; and a `block_parent` leg with a retry may block the task after that
retry (both [below](#known-behaviours-outside-the-passing-runs)). A
`block_parent` leg that depends on another, or beside one that asks or escalates: the
listing after a dependent was queued goes to the join without the failure policies, and a
block and a continuation are both written. With `continue` a human joins legs that still run,
which `FanIn` does not know. Only two are stronger than TLC's traces ask for: a `block_parent` leg
may have dependents, and a dependent may wait for the retried leg through another.

The invariant is `JoinInv`. Its main part, `Justified`, says of each actor, by where it is, why it
may do what it does next, in facts about the rows that stay true: that a leg is gone
(`GoneAt`), that it is good (`GoodAt`), that the retried leg has had its retry or has succeeded
(`RetriedThere`, `RetriedGood`). Whoever is about to write the continuation has a listing that
was `Joinable`, and no leg that could block has failed (`NoBlockers`); whoever is
about to block has its leg gone (`BlockCause`); the two exclude one another (`CausesApart`).
What follows the retry pass lists the children again, and `NothingLeft` is where one
retry in the tree is needed: the new listing cannot show another failure with a retry left.
`JoinDue` then says that a `Joinable` listing, however old, means what FanIn's guard
asks of the legs as they are: what it shows settled for good has stayed so, and what it shows
without a child and not runnable is in FanIn's `Lost` and never got a row. The last is
by a least counterexample along the order of the legs (`UnrunLost`), with `DepsFirst`.

`ReviewLoopProofs` proves, for every set of reviewers and plans, any number of heads and
rounds, with a foreground process, people, CI and crashes at any time (assumption
`PlansAssumption`; the foreground process may have reviewers here, which the run
leaves out):

| Theorem | Statement |
|---|---|
| `ReviewTypeCorrect` | `Spec => []TypeOK` (stated in the proof module) |
| `MergesVetted` | `Spec /\ []Steady => VettedMerge` |

`Steady` says that reviews keep the heads they were asked for (`plan.follow`) and that the
foreground process goes on with the head it pushed. Both are limits of the code. A review
that is moved to what the worktree holds (`resyncReviewHead`) takes its verdict along, and the
reviews of a head are then no longer those of one round; that `VettedMerge` holds there too
is checked on the settings of `loop`. Without the second, it fails
(see [below](#known-behaviours-outside-the-passing-runs)). The types need neither.

`IInv` has these parts. Each step is first shown to be within a footprint (`Kept`,
`Aside`, `Resets`: what it may do to the rows, the host, CI, the task and its actor),
and the deeper parts are proved from the footprints alone:

* `Base`: types; an open pull request is at the head of its branch (`HostInv`); who was asked
  for a review, and that verdicts belong to jobs that are done (`RowInv`); what each actor may be
  at (`ActorInv`): the foreground process never comes to the gate when somebody must review;
* `DaemonInv`: one worker or the poll is at work, and a round is started only while
  the task is not at the gate;
* `RoundInv`: the reviews of a head are those of one round, but for the first head,
  to which a late foreground process may give a second one;
* `GateInv`: while the task is at the gate or waits for it, the capture that `Vet`
  reads means that everybody has approved. `Route` opened the gate when all reviewers
  had approved in the latest round. Afterwards a new head has no results, a result that
  comes late is not the first of its round, and the rows that a foreground process
  may still add are of the first head and without results;
* `VetInv`: past `Vet`, if the branch still has the head that was vetted, that head is
  approved by all and CI has passed it. Only another look at CI could restart the wait, and
  there is nobody else at the gate.

The merge takes only the head that was vetted (`MatchHeadCommit`), so `VetInv` applies to it.
`VettedMerge` then needs `RoundInv` once more: an objection of an approver to the same
head would be of the same round, and so the same row (`NoneObjects`).

Model-checked only, and why:

* liveness (`StrandedRunRecovered`, `DeadLockReclaimed`, `QueuedServed`, `DrainCompletes`,
  `BouncedRetried`, `Settles`, `RoundsEnd`, `RunEnds`, `FollowsHost`, `ApprovedMoves`,
  `ClosedSettles`): out of the prover's reach;
* `InTurn` and `HonestSuccess` for the plan of `run` whose running runs are cancelled (`Stop`):
  outside the hypotheses of their theorems;
* the two counterexamples.

## Abstractions

* One daemon per store: `daemon.lock` is held for its life, so two daemons are
  not modelled. Foreground processes may be several (one per job).
* Owner tokens are fresh per acquisition; what the code can tell apart is
  whether a row's token is the live worker's or nobody's any more.
* Grants, adapters, cockpit panes, worktree preparation and the authentication
  probe are "set-up goes on or fails"; prompts, repairs and result checks are
  the transition they end in.
* `handleRunJobError` reads the row and acts on it in one step; its own
  transitions are compare-and-sets on the state it read.
* Branch locks and checkout locks are not part of this module.
* A supervisor of several repositories starts without the stale-row pass
  (`ReleaseForeignLocks` goes straight to the settle pass); a supervisor of one
  repository has it. Recovery is shown for the union of the repositories.
* `deferCheckoutContention` adds its attempt to the count of the row it was given
  (`job_blocker_checkout.go:128`); the model adds it to the count in the store. They differ only
  after a deferral or a retry between listing and dispatch. The write itself is unconditional, as
  in the code.
* One operator command at a time per job; the commands of different jobs, a
  supersede and a kill interleave freely.

Of `DispatchTracker`:

* Keys are what the code compares: the repository's checkout, a task worktree, or
  the isolation worktree of a job (written as the job itself).
* `selectRunnableQueuedJobsSeeded` goes through the queue in order; the outcomes for
  all orders are the maximal compatible sets, so selection is a choice among them.
  The counts, keys and seeds that a pass reads just before are read in the same step.
* A job held back by a blocker may or may not be listed; its retry budget is cut
  to one deferral.
* The recovery passes are one action that requeues a running row which is not in
  flight; the stale snapshot they really use is the subject of `JobRuns`. A session lock is a holder without a lease.
* A temporary worker runs in a session of its own and counts for admission.
* Limits are constant within a behaviour; the scheduler kind is not. The list of
  asynchronous errors (`recordErr`, `takeErr`) and the memory half of the admission
  budget are left out.

Of `Delegation`:

* Deduplication by fingerprint, injected upstream context, prompts, artifacts,
  worktrees beyond "the allocation is refused", task dismissal and delegations of
  children are left out.
* `AfterAdvance` and `Ask` read the store in the step of their first write. A claim
  is part of `active`. `changes_requested` is a verdict only where a quorum or a
  verification tells it from a success. The budgets of time, tokens and cost are one
  (`tripped`).
* A chat process is not the daemon and survives its crash.

Of `PipelineRun`:

* `last_run` bookkeeping, summaries, environments, spec drift and service pipelines
  are left out. A timeout is the flag `late`.
* Resume and cancel read run and rows in one step; a gate evaluates readiness and
  claims in one step; the trigger's selection, its transaction and the listing that
  follows are one step. The polled state of a pull request is the live one.
* A `skipped` decision is one of implement and produce stages.

Of `ReviewLoop`:

* Reads inside a step are merged with it; what the poll memoizes of jobs is read
  when it is used. At the gate, a dirty worktree, a conflict and an update the host refuses are
  one block. Transient API errors and the merge-queue lock are left out.
* The checkout lock of a dead process is free (its lease). A push past the bound on heads
  is refused. CI appears only before the gate has stopped waiting for it.
* A worktree is known by its head. `Finalize` commits and pushes in one step; a crash may
  come before it, and after it before the row or before the payload is written.
* Of another pull request that a fix opens (`EnsurePullRequest` after the first one was closed or
  merged) only the fact is kept (`host.new`): its life is not followed, and `FollowsHost` excuses
  the task, which goes with it.
* People push from the task's worktree or from elsewhere; with `follow` they then bring the
  worktree to the new head, if it was at the old one.
* An approval counts for the head in its row. With `follow` false that need not be the head
  its agent has read (see below).
* The foreground plan has no reviewers; with reviewers a crash comes only while no
  implementation's trigger is pending (see below).
* Risk tiers, `skip_native_review_fanout`, `require_external_ci`, dismissed tasks,
  the stale-task TTL, revert detection and issues are left out.

## Findings

Two places where the code does something else than a comment says. Each is a run
whose counterexample TLC prints; `PROJECT.json` quotes the lines.

1. `ask`: a leg that asks a human pauses the tree, but a sibling that settles after
   it finds every leg resolved and enqueues the normal continuation while the round
   is open. The answer then meets an existing continuation and is dropped.
2. `hollow`: `CreatePipelineRun` inserts the run and then its stages row by row. A
   scan that lists the run in between finds nothing pending, in flight or failed and
   records a success; stages inserted later never run.

## Known behaviours outside the passing runs

Met while modelling. The passing runs stay on this side of them by their constants;
with the constants given, TLC prints a trace.

* `ActiveRunAccounted` fails with `PoolDispatch = TRUE` in `barrier`: the tick's
  in-flight snapshot does not contain a job the pool begins after it, so the
  expired-lock pass may requeue it under its live worker.
* `KillSparesRunning` fails in `kill` with `OpJobs = {j1}` (a cancel makes the row of a live run
  not running before it drops the lock), and with `MaxCrashes = 1` and `FgJobs = {j1}` or
  `PoolDispatch = TRUE`: the pass over expired locks has listed the owner of a dead process's row,
  the owner is run again meanwhile, by a foreground process or the pool, and the pass requeues
  it (`daemon_scheduler.go:255`). The kill then finds the row queued and frees the lock.
* `NotStranded` fails with `MaxStops = 1` in `checkout`, and with `Faulty = {j2}`: a job that
  the shutdown cut off, or whose worker ended with a store error before its claim or without
  a terminal row, keeps a payload that points at its removed isolation worktree
  (`daemon_scheduler.go:1322` restores only bounced and deferred jobs).
* `BouncedRetried` fails with `Again = {j1}` in `progress`: a job that bounced off a
  busy session is excluded until the pool pass ends, and the pass goes on while
  other jobs of the repository come.
* `ApprovedMoves` and `ClosedSettles` fail with a plan of `ReviewLoop` that has
  reviewers and a foreground process or an early crash: the trigger of an
  implementation is then handled twice, or late.
* `VettedMerge` fails with `P({a, b}, TRUE, TRUE, {"approved"}, {}, {"push", "crash"}, 2, TRUE)`
  (the arguments as in `MCReviewLoop`). The poll has started a round at the first head, somebody
  pushes, and the daemon dies before its baseline row. The foreground process then finds no row,
  adopts the host's new head (`daemon_workflow.go:416`) and enqueues its reviews one by one.
  Meanwhile the first round approves and opens the gate, and the poll merges the new head when one
  of its reviewers has approved and the other has not been asked yet.
* Where nobody keeps the worktree at the heads under review (`follow` false):
  a finished approval whose advancement is retried after the worktree has moved is moved to
  the new head with its verdict (`daemon_worker.go:2255`, `daemon_checkout.go:382`), and that
  head may be merged without anybody having read it; `SAFETY.md:38` asks for a verdict
  that "matches the exact current head SHA". `VettedMerge` reads the row and does not see it.
  `ApprovedMoves` fails with `P({a}, TRUE, FALSE, {"approved", "changes"}, {}, {"push"}, 3, FALSE)`: a
  review has been moved to the pushed head and has approved, while the row has the old one. The poll
  finds the round of the new head, its own requests differ in the sender from those that are there,
  and the enqueue fails for ever.
  `ClosedSettles` fails with `P({a}, TRUE, FALSE, {"approved", "changes"}, {}, {"close", "base"}, 3, FALSE)`:
  the host has updated the branch, a review is moved back to the worktree's head, and a fix that
  changes nothing writes that head into the row, so that the closed pull request never matches.
  So does a push that the host refuses, which leaves the worktree at a head of its own; the plan
  `P({a}, TRUE, FALSE, {"approved", "changes"}, {}, {"close", "latecrash"}, 2, FALSE)`, where the
  bound on heads refuses it, shows this.
  An objection or approval of an older round that was moved to the head counts for nothing there;
  hence `Withdrawn` in `AllApproved`.
* A pull request closed while a fix is in flight: the fix pushes, and writes its head with the
  state open into the row if the row still says open (`daemon_workflow.go:393`). The closed
  request then never matches the row (`daemon.go:1166` goes by the head), and the task leaves
  `reviewing` only through the gate, which reads the host: when the new head is approved and no job is
  under way. If the reviewer objects to the end, is cancelled, or the gate meets a job of the
  branch, nothing settles it. `ClosedSettles` therefore has two parts: what was closed at the
  head in the row while the branch stays there, and what was closed and is approved at the branch's
  head with nothing left to run. If the row says closed or merged, the fix opens another pull
  request and takes the task, a merged one too, back to `pr_open`.
* A push that nobody has polled before the close leaves the row behind the closed request as well.
* A crash between the finalizer's row and `Opened`, and a merge by people before the next poll:
  the task stays `implementing`, which neither `externalMergeCandidateState` nor
  `reconcilePROpenTasks` looks at. `FollowsHost` leaves `implementing` out.
* A crash between the finalizer's row and its payload: the implementation's payload has no head
  any more that the worktree could match, its trigger is never repeated, and with `follow` false
  reviews of a head pushed from elsewhere are moved to the worktree's, whereupon each poll
  finds the head without reviews and starts another round.
* `JoinsAsPromised` fails in `crash` with three kinds of plan.
  `[Base EXCEPT !.retry = [l \in Legs |-> 1]]` (with `MaxRetry = 2` also
  `[Base EXCEPT !.retry[1] = 2]`): the retry pass lists the children again after its retries
  (`engine_delegation.go:960`) and applies the failure policies to that listing. A sibling that
  failed in between has its policy applied, and counts as settled, before its own retry, which
  its worker then queues.
  `[Base EXCEPT !.policy[1] = "block_parent", !.retry[1] = 1]`: the advancement of a failed
  attempt looks last whether the leg has an attempt under way
  (`engine_run_budgets.go:289`). A retry that has ended by then, even with success, does not
  keep it from blocking the task.
  `[Chain EXCEPT !.policy[2] = "block_parent"]`: the worker that has queued the dependent
  lists the children again (`engine_delegation.go:1070`) and joins them without their policies.
* `InTurn` and `HonestSuccess` fail with `Creators = {"cli", "daemon"}`.
* `HonestSuccess` fails in a variant of `run`, with the daemon as the only creator, one crash
  and the plan `[Base EXCEPT !.kind = <<"shell", "shell", "produce">>, !.needs =
  <<{}, {1}, {2}>>, !.retry = <<0, 0, 1>>, !.resumes = 0]`. The daemon dies between the enqueue of
  a produce stage's job and the write of its row, and the job fails. The next pass adopts the
  job in its enqueue loop, puts the stage back to pending for its retry and goes on to the
  next stage (`run.go:943`). Nothing is in flight then, so the stage, whose dependencies have
  all succeeded, is marked skipped and the run recorded as succeeded. The comment at
  `run.go:980` takes every stage left pending to be downstream of a failed or blocked one.
* `HonestSuccess` fails with `Mortal = {"operator"}`, the daemon as the only creator and the plan
  `[Base EXCEPT !.needs = <<{}, {1}, {1}>>, !.resumes = 2]`: a resume that dies after resetting
  some of its stages (`resume.go:96`) leaves their dependents skipped; a later resume from another
  stage puts the run back to running, and it succeeds without them.
* A cancel of a running run (`resume.go:129`) and the scan that advances it overwrite
  one another. `HonestSuccess` therefore excuses a run with a cancelled stage: the scan
  finds that stage neither open nor failed, skips what depends on it and records a
  success, before or after the cancel's own write. With `cancels = {"running"}` and
  `resumes = 1` in one pipeline `InTurn` fails too: a scan's late write parks the
  cancelled run, and a resume then starts a second attempt.

* `NeverStranded` fails in `human` with the plan `[Chain EXCEPT !.policy[2] =
  "escalate_human", !.retry[1] = 1, !.mortal = {2}]`: the leg a human has resumed dies
  between its resume row and the resolved event, its pause finds the round still open and
  waits without a marker, and the event then closes the round.
* `NeverStranded` fails in `human` with the plan `[Chain EXCEPT !.orchestrate = TRUE, !.alloc =
  TRUE, !.retry[1] = 1]`. An orchestrate stage has no task to block, and
  `finalizeOrBlockDispatch` finalizes its tree where an allocation is refused: its comment names
  "every worktree/branch-lock allocation BlockedError" and says that the chain "always ends in a
  settled, delegation-less tail" that the stage folds
  (`engine_continuation_synthesis.go:767`, `772`). The retry pass (`engine_delegation.go:951`)
  returns the error of its allocation as it is: the advancement ends as blocked, which nothing
  repeats, and the stage has nothing to fold.
* `NeverStranded` and `RefusalAnswered` fail with `MaxCrashes = 1` and the plans `[Base EXCEPT
  !.refused = r]`, `r` a loop or a preflight failure. The event of the refusal is written before
  the corrective continuation (`engine_delegation.go:285`), and the once-guard of the next
  advancement takes it for the continuation ("it has already enqueued its corrective continuation",
  `engine_delegation.go:258`, `355`). The daemon dies between the two: the coordinator is never
  continued.
* `NeverStranded` fails further, past the clauses of `Rests` (all in `human`, with `Repeats = TRUE` and
  `MaxRounds = 2`; the first with one crash):
  `[Base EXCEPT !.mortal = {1}]`: the daemon dies after a run has failed without a result and before
  the failed result is attached, when the row has no marker yet.
  `[Base EXCEPT !.mortal = {1}, !.policy[1] = "escalate_human"]`: a late advancement pauses without
  a marker while the round of another is open.
  `[Base EXCEPT !.asks = {1}, !.policy[2] = "escalate_human"]`: the resume of a failure closes
  the round that a question counted on.
  `[Base EXCEPT !.alloc = TRUE, !.policy[1] = "escalate_human"]`,
  `[Base EXCEPT !.policy = <<"block_parent", "escalate_human">>]` and
  `[Base EXCEPT !.rule[1] = "vote", !.policy[2] = "escalate_human"]`: the task is blocked while
  a round is open, and the human's resume of another leg sets it back to planned.
* `OneActiveAttempt` fails with two independent legs that both have `retry` 1 and the policy
  `escalate_human`: the engine lists the children again after its retry pass
  (`engine_delegation.go:960`), so that the policy pass pauses for a leg that has failed
  meanwhile and has retries left; its own worker retries it while the human's resume runs.

Without a property here:

* a kill deletes the lock of a tree job that has acquired it and not yet claimed its
  row; the daemon's start settles a cancelled job that a foreground process still
  runs, which opens its retry gate; a leg requeued by recovery after its tree was
  killed is skipped for ever (`daemon_scheduler.go:1194`);
* no attempt carries a fencing token: a late terminal write (`mailbox.go:1446`) or
  error path (`daemon_result.go:142`, `182`) of an earlier attempt meets the row of a
  later one;
* in the delegation engine, a crash between the requested event and the task's block
  leaves an `escalate_human` round half open; a human's retry of the same leg with
  the same text finds the earlier id; two rounds may be open when two legs pause at
  once; the budget line of a near-exhausted tree counts jobs in a prompt;
* in pipelines, a produce stage with retries folds the earlier attempt's job; a slot
  fires again after a crash between the run's rows and `next_due`; an upstream run
  that succeeds after a later one has fired the trigger is passed over by the cursor;
  a merge claim whose holder died is never redeemed, and its gate waits for a human
  or its timeout;
* a pull request closed before its first baseline has no mirror to reconcile.

## Not modelled

* Runtime adapters, git and GitHub clients: external programs; what they may answer
  is an input of the actions that call them.
* Skill optimisation, agent memory, templates, transcripts, reports: statistics, text
  and files, without shared state that the life of a job depends on. They are most of
  the repository's lines.
* Cockpit, dashboard and terminal UI: presentation of rows.
* Configuration: parsing. The values that matter are CONSTANTS.
* Daemon lifecycle: one daemon per store is assumed (`daemon.lock`).
* Branch and checkout locks over worktree allocation, heartbeats, the events sink and
  the credential gateway have state of their own and are in the [plan](#plan).

## How to run

    cd tla
    tlc -workers 2 -config JobRuns_barrier.cfg MCJobRuns                # any JobRuns_*.cfg
    tlc -workers 2 -config DispatchTracker_checkout.cfg MCDispatchTracker  # any DispatchTracker_*.cfg
    tlc -workers 2 -config Delegation_crash.cfg MCDelegation            # any Delegation_*.cfg
    tlc -workers 2 -config PipelineRun_run.cfg MCPipelineRun            # any PipelineRun_*.cfg
    tlc -workers 2 -config ReviewLoop_loop.cfg MCReviewLoop
    tlapm JobRunsProofs.tla
    tlapm DispatchTrackerProofs.tla
    tlapm DelegationProofs.tla
    tlapm DelegationRestProofs.tla
    tlapm FanInProofs.tla
    tlapm PipelineRunProofs.tla
    tlapm PipelineScanProofs.tla
    tlapm ReviewLoopProofs.tla
