--------------------------- MODULE DispatchTracker ---------------------------
(***************************************************************************)
(* How the daemon starts jobs: the in-flight tracker shared by the worker  *)
(* tick, by one background pool pass per repository, by the goroutine of   *)
(* every job and by the poller (internal/cli/daemon_dispatch_tracked.go,   *)
(* the pool and the selectors of internal/cli/daemon_scheduler.go, the     *)
(* poll gates of internal/cli/daemon_supervision.go), with the admission   *)
(* budget, the isolation worktrees of the pool, live changes of the        *)
(* scheduler, graceful shutdown and restart.                               *)
(*                                                                         *)
(* A pass reads first (queue, counts, held keys) and acts on what it read  *)
(* job by job; each read or critical section is a step.  What a worker     *)
(* does to its row and its session lock is the subject of JobRuns, here it *)
(* is cut down to what a pass can see of it.                               *)
(***************************************************************************)
EXTENDS Naturals, FiniteSets

CONSTANTS
    Repos,       \* the enabled repositories
    Trees,       \* task worktrees
    Jobs,        \* the jobs
    NoJob, NoKey, NoRepo, NoSession,
    RepoOf,      \* job -> its repository
    KeyOf,       \* job -> the checkout of its payload: its repository or a worktree
    SessionOf,   \* job -> its runtime session
    ReadOnly,    \* jobs that poolIsolationEligible accepts while in the repo checkout
    TempWorkers, \* jobs that may run in a temporary session instead of their own
    Workers,     \* --workers
    Limit,       \* repo -> the limit of resolveRepoScheduler
    MaxSessions, \* [admission].max_concurrent_sessions, 0 is off
    Serviced,    \* repos with maintenance to do and a poll that is due
    Flips,       \* repos whose scheduler is changed while the daemon runs
    Again,       \* jobs that are retried (or succeeded by an alike) once done
    FgSessions,  \* sessions that foreground processes use as well
    Faulty,      \* jobs whose worker may fail before its claim or time out after it
    MaxStops     \* bound on the shutdowns and crashes of a behaviour

Sessions == {SessionOf[j] : j \in Jobs} \ {NoSession}
Keys == Repos \cup Trees \cup Jobs     \* j stands for the isolation worktree of j
Passes == Repos \cup {"tick"}          \* r stands for the pool pass of r

ASSUME TrackerAssumption ==
    /\ IsFiniteSet(Jobs) /\ NoJob \notin Jobs /\ NoKey \notin Keys
    /\ NoRepo \notin Repos /\ "tick" \notin Repos /\ "none" \notin Repos
    /\ Jobs \cap (Repos \cup Trees) = {} /\ Repos \cap Trees = {}
    /\ RepoOf \in [Jobs -> Repos]
    /\ KeyOf \in [Jobs -> Repos \cup Trees]
    /\ \A j \in Jobs : KeyOf[j] \in Repos => KeyOf[j] = RepoOf[j]
    /\ \A j, k \in Jobs : KeyOf[j] = KeyOf[k] => RepoOf[j] = RepoOf[k]
    /\ ReadOnly \subseteq Jobs /\ TempWorkers \subseteq Jobs /\ Again \subseteq Jobs
    /\ Workers \in Nat \ {0} /\ Limit \in [Repos -> Nat \ {0}] /\ MaxSessions \in Nat
    /\ Flips \subseteq Repos /\ Serviced \subseteq Repos /\ FgSessions \subseteq Sessions
    /\ Faulty \subseteq Jobs /\ MaxStops \in Nat

VARIABLES
    state,     \* jobs.state: absent, queued, running or done (any terminal state)
    iso,       \* jobs whose payload points at their isolation worktree
    tree,      \* jobs whose isolation worktree is on disk
    deferred,  \* jobs with a BlockerRetryAt in their payload
    sess,      \* session -> who holds its runtime lock: a job, "other" or nobody
    daemon,    \* "up", "stopping" (context cancelled), "draining" or "down"
    usePool,   \* repo -> its scheduler is the pool
    mutex,     \* repo -> who holds its checkout lock
    trk,       \* tracker.jobs: job -> checkout key of its dispatch
    pools,     \* tracker.poolRuns
    reserved,  \* admission reservations
    wkr,       \* job -> where the goroutine of its dispatch is
    by,        \* job -> the pass that dispatched it and has not reaped it yet
    isoRun,    \* jobs of a pool pass dispatched into an isolation worktree
    at,        \* pass -> its program counter
    pend,      \* pass -> jobs listed
    seen,      \* pass -> those whose payload was on an isolation worktree by then
    sel,       \* pass -> jobs selected and not yet begun
    rest,      \* pass -> jobs listed and not selected
    seed,      \* pass -> checkout and runtime keys held when it selected
    cur,       \* pass -> the job it is working on
    moved,     \* passes that dispatched something since they listed
    bounced,   \* repo -> bouncedBusy of its pool pass
    failed,    \* repos whose pool pass has a firstErr
    trepo,     \* the repository of the tick
    mkey,      \* the checkout that the tick's maintenance is mutating
    poll,      \* the repository being polled
    pollAt,    \* "idle", "locked" or "full" (PollOnce under way)
    stops

rowVars == <<state, iso, tree, deferred, sess>>
trackVars == <<trk, pools, reserved>>
jobVars == <<wkr, by, isoRun>>
passVars == <<at, pend, seen, sel, rest, seed, cur, moved, bounced, failed>>
tickVars == <<trepo, mkey>>
pollVars == <<poll, pollAt>>
envVars == <<daemon, usePool, stops>>
vars == <<rowVars, trackVars, jobVars, passVars, tickVars, pollVars, envVars, mutex>>

NoSeed == [checkouts |-> {}, runtimes |-> {}]
InFlight == {j \in Jobs : trk[j] # NoKey}
InFlightIn(r) == {j \in InFlight : RepoOf[j] = r}
HeldKeys == {trk[j] : j \in InFlight}
Own(p) == {j \in Jobs : by[j] = p}
Key(j, S) == IF j \in S THEN j ELSE KeyOf[j]   \* S: the jobs on isolation worktrees
Larger(a, b) == IF a > b THEN a ELSE b
HostCap(r) == Larger(Workers, Limit[r])
Cancelled == daemon \in {"stopping", "draining"}   \* the jobs' context is dead
RepoAt(p) == IF p = "tick" THEN trepo ELSE p

\* Mutant: the empty runtime key counts as a session
Bug_Runtimes(S) == {SessionOf[j] : j \in S}

Runtimes(S) == {SessionOf[j] : j \in S} \ {NoSession}

Init ==
    /\ state = [j \in Jobs |-> "absent"]
    /\ iso = {} /\ tree = {} /\ deferred = {}
    /\ sess = [s \in Sessions |-> NoJob]
    /\ daemon = "up" /\ usePool \in [Repos -> BOOLEAN]
    /\ mutex = [r \in Repos |-> "free"]
    /\ trk = [j \in Jobs |-> NoKey] /\ pools = {} /\ reserved = {}
    /\ wkr = [j \in Jobs |-> "none"] /\ by = [j \in Jobs |-> "none"]
    /\ isoRun = {}
    /\ at = [p \in Passes |-> "idle"]
    /\ pend = [p \in Passes |-> {}] /\ seen = [p \in Passes |-> {}]
    /\ sel = [p \in Passes |-> {}]
    /\ rest = [p \in Passes |-> {}] /\ seed = [p \in Passes |-> NoSeed]
    /\ cur = [p \in Passes |-> NoJob] /\ moved = {}
    /\ bounced = [r \in Repos |-> {}] /\ failed = {}
    /\ trepo = NoRepo /\ mkey = NoKey
    /\ poll = NoRepo /\ pollAt = "idle"
    /\ stops = 0

-----------------------------------------------------------------------------
(* The tracker and the admission budget *)

\* Mutant: the host limit is left to the slots each pass computed
Bug_CanBegin(r, j) ==
    /\ daemon # "draining" /\ j \notin InFlight

\* inflightJobTracker.beginWithin: one critical section, host limit included
CanBegin(r, j) ==
    /\ daemon # "draining" /\ j \notin InFlight
    /\ Cardinality(InFlight) < HostCap(r)

\* Mutant: a pool pass may start beside jobs of the barrier
Bug_CanBeginPool(r) == daemon # "draining" /\ r \notin pools

\* Mutant: a pool pass may start during the drain
Bug_DrainedPool(r) == r \notin pools /\ InFlightIn(r) = {}

\* tryBeginPool: single-flight, and not beside jobs of the barrier
CanBeginPool(r) == daemon # "draining" /\ r \notin pools /\ InFlightIn(r) = {}

PoolRunning(r) == r \in pools

\* Mutant: a pool pass without jobs in flight is ignored
Bug_SingleSelector(r) == PoolRunning(r) => InFlightIn(r) = {}

\* The barrier leaves a repository to its live pool pass
SingleSelector(r) == ~PoolRunning(r)

\* Mutant: task worktrees are not protected
Bug_CheckoutHeld(k) == k \in HeldKeys \cap Repos

CheckoutHeld(k) == k \in HeldKeys

\* Mutant: a pool pass without jobs in flight does not count
Bug_Busy(r) == InFlightIn(r) # {}

Busy(r) == InFlightIn(r) # {} \/ r \in pools

\* Mutant: the budget counts the jobs in flight, not the reservations
Bug_Admits(j) ==
    \/ MaxSessions = 0 \/ j \in reserved \/ SessionOf[j] = NoSession
    \/ Cardinality({k \in InFlight : SessionOf[k] # NoSession}) < MaxSessions

\* admissionBudget.Reserve: a job that already has a reservation keeps it
Admits(j) ==
    \/ MaxSessions = 0 \/ j \in reserved \/ SessionOf[j] = NoSession
    \/ Cardinality({k \in reserved : SessionOf[k] # NoSession}) < MaxSessions

\* Mutant: only a job that is in flight has something to release
Bug_Released(j) == IF j \in InFlight THEN reserved \ {j} ELSE reserved

\* admissionBudget.Release, keyed by the job and idempotent
Released(j) == reserved \ {j}

-----------------------------------------------------------------------------
(* Rows, from outside *)

Enqueue(j) ==
    /\ \/ state[j] = "absent"
       \/ state[j] = "done" /\ j \in Again
    /\ state' = [state EXCEPT ![j] = "queued"]
    /\ iso' = IF j \in ReadOnly THEN iso \ {j} ELSE iso
    /\ deferred' = deferred \ {j}
    /\ UNCHANGED <<tree, sess, trackVars, jobVars, passVars, tickVars, pollVars, envVars, mutex>>

\* A row left running by no worker is requeued, and the lock left with it
\* reclaimed, by the recovery passes of the tick (module JobRuns)
Recover(j) ==
    /\ daemon = "up" /\ state[j] = "running" /\ j \notin InFlight
    /\ state' = [state EXCEPT ![j] = "queued"]
    /\ sess' = [s \in Sessions |-> IF sess[s] = j THEN NoJob ELSE sess[s]]
    /\ UNCHANGED <<iso, tree, deferred, trackVars, jobVars, passVars, tickVars,
                   pollVars, envVars, mutex>>

\* A foreground process takes a session, or gives it back
FgSession(s) ==
    /\ s \in FgSessions
    /\ \/ sess[s] = NoJob /\ sess' = [sess EXCEPT ![s] = "other"]
       \/ sess[s] = "other" /\ sess' = [sess EXCEPT ![s] = NoJob]
    /\ UNCHANGED <<state, iso, tree, deferred, trackVars, jobVars, passVars, tickVars,
                   pollVars, envVars, mutex>>

\* A warm reload changes the scheduler of a repository
Flip(r) ==
    /\ r \in Flips /\ daemon = "up"
    /\ usePool' = [usePool EXCEPT ![r] = ~@]
    /\ UNCHANGED <<rowVars, trackVars, jobVars, passVars, tickVars, pollVars,
                   daemon, stops, mutex>>

-----------------------------------------------------------------------------
(* The goroutine of a dispatched job: jobWorker.run *)

\* The payload it was given points at an isolation worktree that is gone
Reaped(j) == trk[j] = j /\ j \notin tree

SetWkr(j, ph) == wkr' = [wkr EXCEPT ![j] = ph]

\* The row is no longer queued, the payload's worktree is gone (the preflight
\* fails the job), or a store error or the cancelled context ends the run early
StartFail(j) ==
    /\ wkr[j] = "start"
    /\ \/ state[j] # "queued" /\ SetWkr(j, "ok") /\ UNCHANGED state
       \/ /\ state[j] = "queued" /\ Reaped(j)
          /\ state' = [state EXCEPT ![j] = "done"] /\ SetWkr(j, "ok")
       \/ /\ j \in Faulty \/ Cancelled
          /\ SetWkr(j, "err") /\ UNCHANGED state
    /\ UNCHANGED <<iso, tree, deferred, sess, trackVars, by, isoRun, passVars, tickVars, pollVars,
                   envVars, mutex>>

\* errRuntimeSessionBusy: another job, or another process, has the session
StartBusy(j) ==
    /\ wkr[j] = "start" /\ state[j] = "queued" /\ ~Reaped(j)
    /\ SessionOf[j] # NoSession /\ j \notin TempWorkers
    /\ sess[SessionOf[j]] # NoJob
    /\ SetWkr(j, "busy")
    /\ UNCHANGED <<rowVars, trackVars, by, isoRun, passVars, tickVars, pollVars, envVars, mutex>>

\* The session lock and the claim; a temporary worker has a session of its own
Start(j) ==
    /\ wkr[j] = "start" /\ state[j] = "queued" /\ ~Reaped(j)
    /\ ~Cancelled
    /\ \/ /\ SessionOf[j] = NoSession \/ (j \in TempWorkers /\ sess[SessionOf[j]] # NoJob)
          /\ UNCHANGED sess
       \/ /\ SessionOf[j] # NoSession /\ sess[SessionOf[j]] = NoJob
          /\ sess' = [sess EXCEPT ![SessionOf[j]] = j]
    /\ state' = [state EXCEPT ![j] = "running"]
    /\ SetWkr(j, "run")
    /\ UNCHANGED <<iso, tree, deferred, trackVars, by, isoRun, passVars, tickVars, pollVars,
                   envVars, mutex>>

\* The run ends: its row is terminal, or queued behind a blocker (the retry
\* budget is cut to one deferral), or still running when the context ended first
Finish(j, res) ==
    /\ wkr[j] = "run"
    /\ \/ res = "ok" /\ state' = [state EXCEPT ![j] = "done"] /\ UNCHANGED deferred
       \/ /\ res = "ok" /\ j \notin deferred /\ state' = [state EXCEPT ![j] = "queued"]
          /\ deferred' = deferred \cup {j}
       \/ /\ \/ res = "err" /\ Cancelled
             \/ res = "ok" /\ j \in Faulty
          /\ UNCHANGED <<state, deferred>>
    /\ sess' = [s \in Sessions |-> IF sess[s] = j THEN NoJob ELSE sess[s]]
    /\ SetWkr(j, res)
    /\ UNCHANGED <<iso, tree, trackVars, by, isoRun, passVars, tickVars, pollVars, envVars, mutex>>

Returned(j) == wkr[j] \in {"ok", "busy", "err"}

\* The deferred calls of a barrier job's goroutine, in their order: the
\* reservation first ...
BarrierRelease(j) ==
    /\ by[j] = "tick" /\ Returned(j)
    /\ reserved' = Released(j)
    /\ SetWkr(j, "ending")
    /\ UNCHANGED <<rowVars, trk, pools, by, isoRun, passVars, tickVars, pollVars, envVars, mutex>>

\* ... then inflightJobTracker.end
BarrierEnd(j) ==
    /\ by[j] = "tick" /\ wkr[j] = "ending"
    /\ trk' = [trk EXCEPT ![j] = NoKey]
    /\ wkr' = [wkr EXCEPT ![j] = "none"] /\ by' = [by EXCEPT ![j] = "none"]
    /\ UNCHANGED <<rowVars, pools, reserved, isoRun, passVars, tickVars, pollVars, envVars, mutex>>

-----------------------------------------------------------------------------
(* The worker tick: lock, maintenance, dispatch, one repository at a time *)

Step(p, a, b) == at[p] = a /\ at' = [at EXCEPT ![p] = b]

TickLock(r) ==
    /\ daemon # "down" /\ mutex[r] = "free"
    /\ Step("tick", "idle", "maint")
    /\ mutex' = [mutex EXCEPT ![r] = "tick"] /\ trepo' = r
    /\ UNCHANGED <<rowVars, trackVars, jobVars, pend, seen, sel, rest, seed, cur, moved, bounced,
                   failed, mkey, pollVars, envVars>>
\* retryPendingJobAdvancements and the reclaims: per candidate, the check of
\* its checkout key and then the mutation; not beside a pool pass
MaintCheck(k) ==
    /\ at["tick"] = "maint" /\ trepo \in Serviced /\ ~PoolRunning(trepo) /\ ~CheckoutHeld(k)
    /\ k = trepo \/ \E j \in Jobs : RepoOf[j] = trepo /\ k = Key(j, iso)
    /\ Step("tick", "maint", "mutating")
    /\ mkey' = k
    /\ UNCHANGED <<rowVars, trackVars, jobVars, pend, seen, sel, rest, seed, cur, moved, bounced,
                   failed, trepo, pollVars, envVars, mutex>>

MaintDone ==
    /\ Step("tick", "mutating", "maint")
    /\ mkey' = NoKey
    /\ UNCHANGED <<rowVars, trackVars, jobVars, pend, seen, sel, rest, seed, cur, moved, bounced,
                   failed, trepo, pollVars, envVars, mutex>>
\* tryBeginPool: the pool pass of a repository is single-flight, and does not
\* start beside jobs of the barrier; afterwards the tick is done
TickPool ==
    /\ at["tick"] = "maint" /\ usePool[trepo]
    /\ IF CanBeginPool(trepo)
         THEN /\ pools' = pools \cup {trepo}
              /\ at' = [at EXCEPT !["tick"] = "unlock", ![trepo] = "loop"]
              /\ bounced' = [bounced EXCEPT ![trepo] = {}] /\ failed' = failed \ {trepo}
         ELSE /\ at' = [at EXCEPT !["tick"] = "unlock"]
              /\ UNCHANGED <<pools, bounced, failed>>
    /\ UNCHANGED <<rowVars, trk, reserved, jobVars, pend, seen, sel, rest, seed, cur, moved,
                   tickVars, pollVars, envVars, mutex>>

\* listPendingQueuedJobs; a blocker may hold a deferred job back
Listing(r) == {L \in SUBSET {j \in Jobs : state[j] = "queued" /\ RepoOf[j] = r} :
                 \A j \in Jobs : state[j] = "queued" /\ RepoOf[j] = r /\ j \notin deferred => j \in L}
Lists(p) == \E L \in Listing(RepoAt(p)) :
    /\ pend' = [pend EXCEPT ![p] = L]
    /\ seen' = [seen EXCEPT ![p] = L \cap iso]

\* The barrier's dispatch; a live pool pass keeps owning the repository
TickList ==
    /\ at["tick"] = "maint" /\ ~usePool[trepo]
    /\ \/ /\ ~SingleSelector(trepo) \/ Cancelled
          /\ Step("tick", "maint", "unlock") /\ UNCHANGED <<pend, seen>>
       \/ /\ SingleSelector(trepo) /\ ~Cancelled
          /\ Step("tick", "maint", "select")
          /\ Lists("tick")
    /\ UNCHANGED <<rowVars, trackVars, jobVars, sel, rest, seed, cur, moved, bounced,
                   failed, tickVars, pollVars, envVars, mutex>>

(***************************************************************************)
(* selectRunnableQueuedJobsSeeded goes through the queue in its order and  *)
(* takes what fits: the outcomes are the maximal sets of at most n jobs    *)
(* that are compatible with the seeds and with one another.                *)
(***************************************************************************)
Fits(p, j, S, sd) ==
    /\ Key(j, seen[p]) \notin sd.checkouts \cup {Key(k, seen[p]) : k \in S}
    /\ \/ SessionOf[j] \notin sd.runtimes \cup Runtimes(S)
       \/ j \in TempWorkers

Selections(p, P, n, sd) ==
    {S \in SUBSET P :
        /\ Cardinality(S) <= n
        /\ \A j \in S : Fits(p, j, {}, sd)
        /\ \A j, k \in S : j # k => Fits(p, j, {k}, NoSeed) \/ Fits(p, k, {j}, NoSeed)
        /\ Cardinality(S) = n \/ \A j \in P \ S : ~Fits(p, j, S, sd)}

Slots(r, running) == {n \in 0 .. Cardinality(Jobs) :
    /\ running + n <= Limit[r] /\ Cardinality(InFlight) + n <= HostCap(r)}
Most(N) == IF N = {} THEN 0 ELSE CHOOSE n \in N : \A m \in N : m <= n

\* Counts and keys of the tracker are read, jobs in flight dropped, jobs chosen
TickSelect ==
    /\ Step("tick", "select", "begin")
    /\ LET sd == [checkouts |-> HeldKeys, runtimes |-> Runtimes(InFlight)]
           n  == Most(Slots(trepo, Cardinality(InFlightIn(trepo))))
       IN \E S \in Selections("tick", pend["tick"] \ InFlight, n, sd) : sel' = [sel EXCEPT !["tick"] = S]
    /\ pend' = [pend EXCEPT !["tick"] = {}]
    /\ UNCHANGED <<rowVars, trackVars, jobVars, seen, rest, seed, cur, moved, bounced, failed,
                   tickVars, pollVars, envVars, mutex>>

TickUnlock ==
    /\ at["tick"] = "unlock" \/ (at["tick"] = "begin" /\ sel["tick"] = {})
    /\ at' = [at EXCEPT !["tick"] = "idle"]
    /\ mutex' = [mutex EXCEPT ![trepo] = "free"] /\ trepo' = NoRepo
    /\ seen' = [seen EXCEPT !["tick"] = {}]
    /\ UNCHANGED <<rowVars, trackVars, jobVars, pend, sel, rest, seed, cur, moved, bounced,
                   failed, mkey, pollVars, envVars>>

-----------------------------------------------------------------------------
(* Beginning the selected jobs: the tick and the pool passes alike *)

\* The reservation; a job that does not fit stays queued for another pass
Reserve(p, j) ==
    /\ at[p] = "begin" /\ j \in sel[p]
    /\ sel' = [sel EXCEPT ![p] = @ \ {j}]
    /\ IF Admits(j)
         THEN /\ reserved' = reserved \cup {j}
              /\ cur' = [cur EXCEPT ![p] = j]
              /\ at' = [at EXCEPT ![p] = "reserved"]
         ELSE UNCHANGED <<reserved, cur, at>>
    /\ UNCHANGED <<rowVars, trk, pools, jobVars, pend, seen, rest, seed, moved, bounced, failed,
                   tickVars, pollVars, envVars, mutex>>

\* beginWithin and the goroutine, or the reservation given back
Begin(p) ==
    /\ Step(p, "reserved", "begin")
    /\ cur' = [cur EXCEPT ![p] = NoJob]
    /\ LET j == cur[p] IN
         IF CanBegin(RepoAt(p), j)
         THEN /\ trk' = [trk EXCEPT ![j] = Key(j, seen[p])]
              /\ by' = [by EXCEPT ![j] = p] /\ SetWkr(j, "start")
              /\ moved' = moved \cup {p}
              /\ UNCHANGED reserved
         ELSE /\ reserved' = Released(j)
              /\ UNCHANGED <<trk, by, wkr, moved>>
    /\ UNCHANGED <<rowVars, pools, isoRun, pend, seen, sel, rest, seed, bounced, failed, tickVars,
                   pollVars, envVars, mutex>>

-----------------------------------------------------------------------------
(* The pool pass of a repository: reap, list, select, begin, isolate, wait *)

\* Mutant: only a bounced job is taken off its isolation worktree
Bug_Restores(j) == j \in isoRun /\ wkr[j] = "busy"

\* reap(f), first: the payload of a job that is queued again is taken off the
\* isolation worktree, while the tracker still has the job in flight
Restores(j) == /\ j \in isoRun
               /\ wkr[j] = "busy" \/ (state[j] = "queued" /\ j \in deferred)

PoolReap(r, j) ==
    /\ at[r] \in {"loop", "blocked"} /\ by[j] = r /\ Returned(j)
    /\ at' = [at EXCEPT ![r] = "ending"] /\ cur' = [cur EXCEPT ![r] = j]
    /\ iso' = IF Restores(j) THEN iso \ {j} ELSE iso
    /\ UNCHANGED <<state, tree, deferred, sess, trackVars, jobVars, pend, seen, sel, rest, seed,
                   moved, bounced, failed, tickVars, pollVars, envVars, mutex>>

\* ... then tracker.end ...
PoolEnd(r) ==
    /\ Step(r, "ending", "releasing")
    /\ trk' = [trk EXCEPT ![cur[r]] = NoKey]
    /\ UNCHANGED <<rowVars, pools, reserved, jobVars, pend, seen, sel, rest, seed, cur, moved,
                   bounced, failed, tickVars, pollVars, envVars, mutex>>
\* ... then the reservation, the worktree and the pass's own accounts
PoolRelease(r) ==
    /\ Step(r, "releasing", "loop")
    /\ LET j == cur[r] IN
         /\ reserved' = Released(j)
         /\ tree' = IF j \in isoRun THEN tree \ {j} ELSE tree
         /\ isoRun' = isoRun \ {j}
         /\ wkr' = [wkr EXCEPT ![j] = "none"] /\ by' = [by EXCEPT ![j] = "none"]
         /\ bounced' = IF wkr[j] = "busy" THEN [bounced EXCEPT ![r] = @ \cup {j}] ELSE bounced
         /\ failed' = IF wkr[j] = "err" THEN failed \cup {r} ELSE failed
    /\ cur' = [cur EXCEPT ![r] = NoJob]
    /\ UNCHANGED <<state, iso, deferred, sess, trk, pools, pend, seen, sel, rest, seed, moved,
                   tickVars, pollVars, envVars, mutex>>
\* Nothing left to reap: list, unless the context or an earlier error forbids it
PoolList(r) ==
    /\ at[r] = "loop" /\ \A j \in Own(r) : ~Returned(j)
    /\ moved' = moved \ {r}
    /\ IF r \in failed \/ Cancelled
         THEN /\ failed' = failed \cup {r}
              /\ at' = [at EXCEPT ![r] = "wait"]
              /\ UNCHANGED <<pend, seen>>
         ELSE /\ at' = [at EXCEPT ![r] = "select"]
              /\ Lists(r)
              /\ UNCHANGED failed
    /\ UNCHANGED <<rowVars, trackVars, jobVars, sel, rest, seed, cur, bounced, tickVars,
                   pollVars, envVars, mutex>>

\* excludeBouncedBusy: the jobs that bounced, and those of their sessions
Bouncing(r) == {j \in Jobs : j \in bounced[r] \/ SessionOf[j] \in Runtimes(bounced[r])}

PoolSelect(r) ==
    /\ LET n  == Most(Slots(r, Cardinality(Own(r))))
           P  == pend[r] \ (Bouncing(r) \cup InFlight)
           sd == [checkouts |-> HeldKeys, runtimes |-> Runtimes(InFlight)]
       IN IF n = 0
          THEN /\ Step(r, "select", "wait") /\ seen' = [seen EXCEPT ![r] = {}]
               /\ UNCHANGED <<sel, rest, seed>>
          ELSE /\ Step(r, "select", "begin")
               /\ \E S \in Selections(r, P, n, sd) :
                    sel' = [sel EXCEPT ![r] = S] /\ rest' = [rest EXCEPT ![r] = P \ S]
               /\ seed' = [seed EXCEPT ![r] = sd] /\ UNCHANGED seen
    /\ pend' = [pend EXCEPT ![r] = {}]
    /\ UNCHANGED <<rowVars, trackVars, jobVars, cur, moved, bounced, failed, tickVars,
                   pollVars, envVars, mutex>>

\* A read-only job held back only by the repository's checkout
Isolable(r, j) ==
    /\ j \in ReadOnly \ seen[r] /\ KeyOf[j] = r
    /\ r \in seed[r].checkouts \cup {trk[k] : k \in Own(r)}
    /\ SessionOf[j] = NoSession
       \/ /\ SessionOf[j] \notin seed[r].runtimes \cup Runtimes(Own(r))
          /\ sess[SessionOf[j]] = NoJob

\* The reservation and allocatePoolIsolationWorktree, or the job is left queued
PoolIsolate(r, j) ==
    /\ at[r] = "begin" /\ sel[r] = {} /\ j \in rest[r]
    /\ Cardinality(Own(r)) < Limit[r] /\ Cardinality(InFlight) < HostCap(r)
    /\ rest' = [rest EXCEPT ![r] = @ \ {j}]
    /\ \/ /\ Isolable(r, j) /\ Admits(j)
          /\ reserved' = reserved \cup {j}
          /\ iso' = iso \cup {j} /\ tree' = tree \cup {j}
          /\ cur' = [cur EXCEPT ![r] = j]
          /\ at' = [at EXCEPT ![r] = "isolated"]
       \/ UNCHANGED <<reserved, iso, tree, cur, at>>
    /\ UNCHANGED <<state, deferred, sess, trk, pools, jobVars, pend, seen, sel, seed, moved,
                   bounced, failed, tickVars, pollVars, envVars, mutex>>
\* beginWithin on the worktree's key, or everything undone
PoolIsolatedBegin(r) ==
    /\ Step(r, "isolated", "begin")
    /\ cur' = [cur EXCEPT ![r] = NoJob]
    /\ LET j == cur[r] IN
         IF CanBegin(r, j)
         THEN /\ trk' = [trk EXCEPT ![j] = j]
              /\ by' = [by EXCEPT ![j] = r] /\ SetWkr(j, "start")
              /\ moved' = moved \cup {r} /\ isoRun' = isoRun \cup {j}
              /\ UNCHANGED <<reserved, iso, tree>>
         ELSE /\ reserved' = Released(j) /\ iso' = iso \ {j} /\ tree' = tree \ {j}
              /\ UNCHANGED <<trk, by, wkr, moved, isoRun>>
    /\ UNCHANGED <<state, deferred, sess, pools, pend, seen, sel, rest, seed, bounced, failed,
                   tickVars, pollVars, envVars, mutex>>

\* Through with the selected and the rest, which may be cut short
PoolDispatched(r) ==
    /\ sel[r] = {}
    /\ \/ rest[r] = {} \/ Cardinality(Own(r)) >= Limit[r]
       \/ Cardinality(InFlight) >= HostCap(r)
    /\ Step(r, "begin", "wait")
    /\ rest' = [rest EXCEPT ![r] = {}] /\ seed' = [seed EXCEPT ![r] = NoSeed]
    /\ seen' = [seen EXCEPT ![r] = {}]
    /\ UNCHANGED <<rowVars, trackVars, jobVars, pend, sel, cur, moved, bounced, failed,
                   tickVars, pollVars, envVars, mutex>>

\* Mutant: a pass waits for the jobs that bounced
Bug_PoolWait(r) ==
    /\ \/ r \in moved /\ Step(r, "wait", "loop") /\ UNCHANGED pools
       \/ r \notin moved /\ Own(r) # {} /\ Step(r, "wait", "blocked") /\ UNCHANGED pools
       \/ /\ r \notin moved /\ Own(r) = {} /\ bounced[r] = {}
          /\ Step(r, "wait", "idle") /\ pools' = pools \ {r}
    /\ UNCHANGED <<rowVars, trk, reserved, jobVars, pend, seen, sel, rest, seed, cur, moved,
                   bounced, failed, tickVars, pollVars, envVars, mutex>>

\* Again at once after a dispatch; blocked on a result while jobs run; else
\* the pass is over (endPool)
PoolWait(r) ==
    /\ \/ r \in moved /\ Step(r, "wait", "loop") /\ UNCHANGED pools
       \/ r \notin moved /\ Own(r) # {} /\ Step(r, "wait", "blocked") /\ UNCHANGED pools
       \/ r \notin moved /\ Own(r) = {} /\ Step(r, "wait", "idle") /\ pools' = pools \ {r}
    /\ UNCHANGED <<rowVars, trk, reserved, jobVars, pend, seen, sel, rest, seed, cur, moved,
                   bounced, failed, tickVars, pollVars, envVars, mutex>>

-----------------------------------------------------------------------------
(* The poller *)

PollLock(r) ==
    /\ daemon # "down" /\ r \in Serviced /\ pollAt = "idle" /\ mutex[r] = "free"   \* TryLock
    /\ mutex' = [mutex EXCEPT ![r] = "poll"]
    /\ poll' = r /\ pollAt' = "locked"
    /\ UNCHANGED <<rowVars, trackVars, jobVars, passVars, tickVars, envVars>>
\* tracker.busy decides between PollOnce and the recovery-only poll
PollCheck ==
    /\ pollAt = "locked"
    /\ pollAt' = IF Busy(poll) THEN "light" ELSE "full"
    /\ UNCHANGED <<rowVars, trackVars, jobVars, passVars, tickVars, poll, envVars, mutex>>

PollDone ==
    /\ pollAt \in {"light", "full"}
    /\ mutex' = [mutex EXCEPT ![poll] = "free"]
    /\ poll' = NoRepo /\ pollAt' = "idle"
    /\ UNCHANGED <<rowVars, trackVars, jobVars, passVars, tickVars, envVars>>

-----------------------------------------------------------------------------
(* Shutdown, crash, restart *)

\* The supervisor's context is cancelled, which cancels the tracker's too
Stop ==
    /\ daemon = "up" /\ stops < MaxStops
    /\ daemon' = "stopping" /\ stops' = stops + 1
    /\ UNCHANGED <<rowVars, trackVars, jobVars, passVars, tickVars, pollVars, usePool, mutex>>

\* drain(): nothing begins from here on
Drain ==
    /\ daemon = "stopping"
    /\ daemon' = "draining"
    /\ UNCHANGED <<rowVars, trackVars, jobVars, passVars, tickVars, pollVars, usePool,
                   stops, mutex>>

Drained == InFlight = {} /\ pools = {}

\* The process is gone, after the drain, after the drain's timeout, or by a
\* crash: rows, payloads, worktrees and lock rows stay
Down ==
    /\ \/ daemon = "draining" /\ UNCHANGED stops
       \/ daemon = "up" /\ stops < MaxStops /\ stops' = stops + 1
    /\ daemon' = "down"
    /\ trk' = [j \in Jobs |-> NoKey] /\ pools' = {} /\ reserved' = {}
    /\ wkr' = [j \in Jobs |-> "none"] /\ by' = [j \in Jobs |-> "none"] /\ isoRun' = {}
    /\ at' = [p \in Passes |-> "idle"]
    /\ pend' = [p \in Passes |-> {}] /\ seen' = [p \in Passes |-> {}]
    /\ sel' = [p \in Passes |-> {}]
    /\ rest' = [p \in Passes |-> {}] /\ seed' = [p \in Passes |-> NoSeed]
    /\ cur' = [p \in Passes |-> NoJob] /\ moved' = {}
    /\ bounced' = [r \in Repos |-> {}] /\ failed' = {}
    /\ trepo' = NoRepo /\ mkey' = NoKey
    /\ poll' = NoRepo /\ pollAt' = "idle"
    /\ mutex' = [r \in Repos |-> "free"]
    /\ UNCHANGED <<rowVars, usePool>>

Up ==
    /\ daemon = "down"
    /\ daemon' = "up"
    /\ UNCHANGED <<rowVars, trackVars, jobVars, passVars, tickVars, pollVars, usePool,
                   stops, mutex>>

-----------------------------------------------------------------------------
JobStep(j) ==
    \/ StartFail(j) \/ StartBusy(j) \/ Start(j)
    \/ \E res \in {"ok", "err"} : Finish(j, res)
    \/ BarrierRelease(j) \/ BarrierEnd(j)

TickStep ==
    \/ \E r \in Repos : TickLock(r)
    \/ \E k \in Keys : MaintCheck(k)
    \/ MaintDone \/ TickPool \/ TickList \/ TickSelect \/ TickUnlock
    \/ \E j \in Jobs : Reserve("tick", j)
    \/ Begin("tick")

PoolStep(r) ==
    \/ \E j \in Jobs : PoolReap(r, j) \/ Reserve(r, j) \/ PoolIsolate(r, j)
    \/ PoolEnd(r) \/ PoolRelease(r) \/ PoolList(r) \/ PoolSelect(r) \/ Begin(r)
    \/ PoolIsolatedBegin(r) \/ PoolDispatched(r) \/ PoolWait(r)

PollStep == (\E r \in Repos : PollLock(r)) \/ PollCheck \/ PollDone

Next ==
    \/ \E j \in Jobs : Enqueue(j) \/ Recover(j) \/ JobStep(j)
    \/ \E s \in Sessions : FgSession(s)
    \/ \E r \in Repos : Flip(r) \/ PoolStep(r)
    \/ TickStep \/ PollStep
    \/ Stop \/ Drain \/ Down \/ Up

Spec == Init /\ [][Next]_vars
-----------------------------------------------------------------------------
(* Properties *)

Spots == {"idle", "maint", "mutating", "unlock", "loop", "select", "begin", "reserved",
          "isolated", "ending", "releasing", "wait", "blocked"}

\* Every variable has a value of its type, and a pass works on a job exactly
\* while it reserves, begins or reaps one.
TypeOK ==
    /\ state \in [Jobs -> {"absent", "queued", "running", "done"}]
    /\ iso \subseteq Jobs /\ tree \subseteq Jobs /\ deferred \subseteq Jobs
    /\ sess \in [Sessions -> Jobs \cup {NoJob, "other"}]
    /\ daemon \in {"up", "stopping", "draining", "down"}
    /\ usePool \in [Repos -> BOOLEAN]
    /\ mutex \in [Repos -> {"free", "tick", "poll"}]
    /\ trk \in [Jobs -> Keys \cup {NoKey}] /\ pools \subseteq Repos /\ reserved \subseteq Jobs
    /\ wkr \in [Jobs -> {"none", "start", "run", "ok", "busy", "err", "ending"}]
    /\ by \in [Jobs -> Passes \cup {"none"}] /\ isoRun \subseteq Jobs
    /\ at \in [Passes -> Spots]
    /\ pend \in [Passes -> SUBSET Jobs] /\ seen \in [Passes -> SUBSET Jobs]
    /\ sel \in [Passes -> SUBSET Jobs] /\ rest \in [Passes -> SUBSET Jobs]
    /\ seed \in [Passes -> [checkouts : SUBSET Keys, runtimes : SUBSET Sessions]]
    /\ cur \in [Passes -> Jobs \cup {NoJob}]
    /\ moved \subseteq Passes /\ bounced \in [Repos -> SUBSET Jobs] /\ failed \subseteq Repos
    /\ trepo \in Repos \cup {NoRepo} /\ mkey \in Keys \cup {NoKey}
    /\ poll \in Repos \cup {NoRepo} /\ pollAt \in {"idle", "locked", "light", "full"}
    /\ stops \in 0 .. MaxStops
    /\ \A p \in Passes :
          cur[p] # NoJob <=> at[p] \in {"reserved", "isolated", "ending", "releasing"}

\* The daemon never has more jobs in flight than --workers, or than the largest
\* explicit limit of a repository, although every pass computes its slots from
\* counts that other passes are changing.
HostLimit ==
    InFlight # {} => \E r \in Repos : Cardinality(InFlight) <= HostCap(r)

\* No repository has more jobs in flight than its own limit, also while its
\* scheduler changes between barrier and pool.
RepoLimit == \A r \in Repos : Cardinality(InFlightIn(r)) <= Limit[r]

\* Two jobs in flight never have the same checkout: beginWithin itself does not
\* compare keys, so this rests on one selector per repository and on the keys
\* that a pass reads before it selects.
CheckoutExclusive ==
    \A j, k \in InFlight : j # k => trk[j] # trk[k]

\* PollOnce, which may change a repository's checkout, never runs beside a job
\* in flight or a pool pass of that repository.
PollQuiet ==
    pollAt = "full" => InFlightIn(poll) = {} /\ poll \notin pools

\* The tick's maintenance never mutates a checkout that a job in flight holds.
MaintQuiet == mkey # NoKey => mkey \notin HeldKeys

\* The admission budget holds for the runtimes that really execute: between
\* reservation, registration, result and release no order lets one more start.
AdmissionLimit ==
    MaxSessions > 0 =>
        Cardinality({j \in Jobs : wkr[j] \in {"start", "run"} /\ SessionOf[j] # NoSession})
            <= MaxSessions

\* No reservation outlives what it was made for: each belongs to a job in flight
\* or in the hands of a pass.
NoReservationLeak ==
    \A j \in reserved : j \in InFlight \/ \E p \in Passes : cur[p] = j

\* A queued job that no pass is handling never points at an isolation worktree
\* that has been removed: its next dispatch would fail it for good.
NotStranded ==
    \A j \in iso \ tree : state[j] = "queued" => j \in InFlight

-----------------------------------------------------------------------------
(***************************************************************************)
(* Fairness: the loops of the tick (every repository again and again, each *)
(* with finitely many maintenance candidates) and of a pool pass, the      *)
(* goroutine of a job (a run ends, at its timeout at the latest), the poll *)
(* (bounded by daemonPollTimeout), foreground runs, the drain after a      *)
(* cancelled context.  Nothing makes jobs arrive, processes stop or start. *)
(***************************************************************************)
Fairness ==
    /\ \A r \in Repos : WF_vars(PoolStep(r)) /\ SF_vars(TickLock(r))
    /\ SF_vars(TickPool \/ TickList)
    /\ WF_vars(MaintDone \/ TickSelect \/ TickUnlock \/ Begin("tick")
               \/ \E j \in Jobs : Reserve("tick", j))
    /\ WF_vars(PollCheck \/ PollDone)
    /\ \A j \in Jobs : WF_vars(JobStep(j))
    /\ \A s \in Sessions : WF_vars(FgSession(s) /\ sess[s] = "other")
    /\ WF_vars(Drain)

FairSpec == Spec /\ Fairness

\* A drain comes to its end by itself: every pool pass notices the cancelled
\* context and reaps its jobs, and no pass starts another one.
DrainCompletes == daemon = "draining" ~> [](Drained \/ daemon # "draining")

\* A job that bounced off a busy session and is still queued is "retried on a
\* later worker tick", for as long as the daemon stays up; a job with a blocker
\* is left out, its hold may be extended for ever.
BouncedRetried ==
    \A j \in Jobs : \A r \in Repos :
        (j \in bounced[r] /\ state[j] = "queued" /\ j \notin deferred)
            ~> (j \in InFlight \/ state[j] # "queued" \/ daemon # "up")
=============================================================================
