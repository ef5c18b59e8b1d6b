------------------------------- MODULE JobRuns -------------------------------
(***************************************************************************)
(* The life of a gitmoot job row and of the runtime-session lock that its  *)
(* run holds, under everything that may touch either one:                  *)
(*                                                                         *)
(*   - the daemon's job workers (internal/cli/daemon_worker.go),           *)
(*   - foreground `agent ask/review/implement` processes                   *)
(*     (internal/cli/agent_dispatch.go),                                   *)
(*   - the recovery passes of the daemon's startup and of its worker tick  *)
(*     (internal/cli/daemon_scheduler.go),                                 *)
(*   - operator commands: job cancel, job retry, delegation kill           *)
(*     (internal/workflow/job_recovery.go, job_kill.go),                   *)
(*   - crashes of each process and reboots of the host.                    *)
(*                                                                         *)
(* Every step is one SQLite statement or transaction, or one event of a    *)
(* process.  A recovery pass compares the clock of its START with the      *)
(* stored timestamps, so time (Age, LeaseLapse) only passes between        *)
(* passes: within a pass the comparisons cannot change.                    *)
(*                                                                         *)
(* A definition named Bug_... is a variant of the one that follows it, with *)
(* a slip this code could have had; none of them is part of Next.  Each     *)
(* breaks one of the properties, which shows that the property has teeth.   *)
(***************************************************************************)
EXTENDS Naturals, FiniteSets

CONSTANTS
    Jobs,        \* the job rows
    Sessions,    \* the runtime sessions a lock key names
    NoJob,       \* no job
    NoLock,      \* no row under the session's key
    NoSession,   \* the "session" of a job whose runtime has no session key
    SessionOf,   \* job -> the session its effective agent resumes
    FgJobs,      \* jobs dispatched by a foreground process
    Tree,        \* the jobs of one delegation tree, its root included
    Legs,        \* the tree's child legs (parent and DelegationID set)
    OpJobs,      \* jobs that operators cancel, supersede and retry
    BootAware,   \* db.BootID() is known (Linux)
    PoolDispatch, \* worker.UsePool: a pool goroutine dispatches during ticks
    LiveLapse,   \* processes whose live lease may lapse (missed heartbeats)
    MaxBlockerRetries,  \* maxOperationalBlockerRetries
    MaxCrashes   \* bound on the crashes and reboots of a behaviour

Procs == {"daemon", "fg"}
States == {"absent", "queued", "running",
           "blocked", "failed", "succeeded", "cancelled"}
Terminal == {"blocked", "failed", "succeeded", "cancelled"}
Phases == {"idle", "preflight", "locked", "running", "deferring",
           "failing", "erred", "advancing", "releasing"}
Covers == {"none", "held", "lapsed", "cancelled", "killed"}
Passes == {"down", "s_expired", "s_boot", "s_bootlocks", "s_stale",
           "s_settle", "idle", "t_boot", "t_bootlocks", "t_stale",
           "t_expired"}

(***************************************************************************)
(* A lock row.  Owner tokens are fresh per acquisition; what the code can  *)
(* tell apart is whether the token belongs to the live worker of the       *)
(* daemon or of a foreground process, or to nobody any more.               *)
(***************************************************************************)
LockRow == [owner : Jobs, tok : Procs \cup {"stale"},
            expired : BOOLEAN, foreign : BOOLEAN]

ASSUME ConstantsAssumption ==
    /\ SessionOf \in [Jobs -> Sessions \cup {NoSession}]
    /\ NoSession \notin Sessions
    /\ NoJob \notin Jobs
    /\ NoLock \notin LockRow
    /\ FgJobs \subseteq Jobs /\ Tree \subseteq Jobs /\ Legs \subseteq Tree
    /\ OpJobs \subseteq Jobs
    /\ FgJobs \cap Legs = {}
    /\ BootAware \in BOOLEAN /\ PoolDispatch \in BOOLEAN
    /\ LiveLapse \subseteq Procs
    /\ MaxBlockerRetries \in Nat /\ MaxCrashes \in Nat

VARIABLES
    state,      \* jobs.state
    unsettled,  \* latestCancellationWasFromRunning of the job's event log
    old,        \* the row is running and updated_at is past the stale window
    foreign,    \* running rows whose runner_boot_id is of a previous boot
    attempts,   \* payload.BlockerAttempts
    hold,       \* payload.BlockerRetryAt lies in the future
    lock,       \* resource_locks: session -> row or NoLock
    wk,         \* process -> job -> phase of its worker for that job
    cover,      \* ghost: what became of the lock row of a run (see below)
    orphan,     \* jobs whose reparented runtime outlives its gitmoot process
    listed,     \* jobs a dispatch pass has listed and not yet begun or dropped
    pass,       \* where the daemon's startup or tick stands
    skip,       \* in-flight ids snapshotted at the start of the tick
    todo,       \* rows listed by the current recovery pass, still to handle
    cur,        \* the listed job whose lease was found not held
    op,         \* operator command under way on a job
    killed,     \* root_killed of the tree's root
    ktodo,      \* what the delegation kill has left to do to a tree job
    crashes     \* crashes and reboots so far

rows == <<state, unsettled, old, foreign, attempts, hold>>
daemonVars == <<pass, skip, todo, cur>>
operatorVars == <<op, killed, ktodo>>
vars == <<rows, lock, wk, cover, orphan, listed, daemonVars, operatorVars, crashes>>

HasRow(s) == lock[s] # NoLock
OwnRow(p, j) == /\ SessionOf[j] \in Sessions
                /\ HasRow(SessionOf[j])
                /\ lock[SessionOf[j]].owner = j
                /\ lock[SessionOf[j]].tok = p

\* runtimeOwnerLeaseHeld: some unexpired runtime lock names j as its owner
LeaseHeld(j) == \E s \in Sessions : /\ HasRow(s)
                                    /\ lock[s].owner = j
                                    /\ ~lock[s].expired

\* The process, or the runtime left behind by one, that a row stands for
Holder(row) == IF row.tok = "stale" THEN "orphan" ELSE row.tok

(***************************************************************************)
(* cover[h][j] records, for the run of job j by holder h ("daemon", "fg"   *)
(* or "orphan"), the fate of its lock row: "held" from the acquisition on, *)
(* until the lease elapses where the code relies on the lease alone        *)
(* ("lapsed"), a cancel gives the row up ("cancelled") or a delegation     *)
(* kill deletes it ("killed").  No guard reads it.                         *)
(***************************************************************************)
Holders == Procs \cup {"orphan"}

Uncover(S, j, why) ==
    [h \in Holders |-> [k \in Jobs |->
        IF k = j /\ h \in S /\ cover[h][k] = "held" THEN why ELSE cover[h][k]]]

Settled(j) == ~unsettled[j]
InFlight == {j \in Jobs : wk["daemon"][j] # "idle"}
Quiet == pass \in {"down", "idle"}

\* When the daemon dispatches: the barrier at the end of a tick, in the tick's
\* own goroutine; the pool, from its goroutine, at any time between two starts
Dispatching ==
    \/ pass = "idle"
    \/ PoolDispatch /\ pass \in {"t_boot", "t_bootlocks", "t_stale", "t_expired"}

Init ==
    /\ state = [j \in Jobs |-> "absent"]
    /\ unsettled = [j \in Jobs |-> FALSE]
    /\ old = [j \in Jobs |-> FALSE]
    /\ foreign = {}
    /\ attempts = [j \in Jobs |-> 0]
    /\ hold = [j \in Jobs |-> FALSE]
    /\ lock = [s \in Sessions |-> NoLock]
    /\ wk = [p \in Procs |-> [j \in Jobs |-> "idle"]]
    /\ cover = [h \in Holders |-> [j \in Jobs |-> "none"]]
    /\ orphan = {} /\ listed = {}
    /\ pass = "down"
    /\ skip = {} /\ todo = {} /\ cur = NoJob
    /\ op = [j \in Jobs |-> "idle"]
    /\ killed = FALSE
    /\ ktodo = [j \in Jobs |-> "none"]
    /\ crashes = 0

-----------------------------------------------------------------------------
(* Helpers of the row transitions: each UPDATE of a row stamps updated_at. *)

SetPhase(p, j, ph) == wk' = [wk EXCEPT ![p][j] = ph]

SetState(j, st) == /\ state' = [state EXCEPT ![j] = st]
                   /\ old' = [old EXCEPT ![j] = FALSE]

\* A compare-and-set of jobs.state: no row matches, nothing changes
Cas(j, from, st) == IF state[j] = from THEN SetState(j, st)
                                       ELSE UNCHANGED <<state, old>>

DropRow(s) == lock' = [lock EXCEPT ![s] = NoLock]

DropOwned(j) ==
    lock' = [s \in Sessions |->
               IF HasRow(s) /\ lock[s].owner = j THEN NoLock ELSE lock[s]]

-----------------------------------------------------------------------------
(* Enqueueing and dispatch *)

\* CreateJobWithEvent: a job row is inserted as queued
Enqueue(j) ==
    /\ state[j] = "absent" /\ j \notin FgJobs
    /\ SetState(j, "queued")
    /\ UNCHANGED <<unsettled, foreign, attempts, hold, lock, wk, cover, orphan, listed,
                   daemonVars, operatorVars, crashes>>

\* A foreground dispatch inserts its row and goes on with it itself; the row
\* is queued, so the daemon may pick it up as well
FgDispatch(j) ==
    /\ state[j] = "absent" /\ j \in FgJobs
    /\ SetState(j, "queued")
    /\ SetPhase("fg", j, "preflight")
    /\ UNCHANGED <<unsettled, foreign, attempts, hold, lock, cover, orphan, listed,
                   daemonVars, operatorVars, crashes>>

\* listPendingQueuedJobs: a queued job, not held by a blocker, not a child leg of
\* a killed root
List(j) ==
    /\ Dispatching
    /\ state[j] = "queued" /\ ~hold[j]
    /\ ~(killed /\ j \in Legs)
    /\ listed' = listed \cup {j}
    /\ UNCHANGED <<rows, lock, wk, cover, orphan, daemonVars, operatorVars, crashes>>

\* A listed job gets no slot, key or admission, and waits for the next listing
DropListed(j) ==
    /\ j \in listed
    /\ listed' = listed \ {j}
    /\ UNCHANGED <<rows, lock, wk, cover, orphan, daemonVars, operatorVars, crashes>>

\* beginWithin: the worker of a listed job starts, unless the job is in flight;
\* the row may have changed since the listing
Dispatch(j) ==
    /\ j \in listed /\ j \notin InFlight
    /\ listed' = listed \ {j}
    /\ SetPhase("daemon", j, "preflight")
    /\ UNCHANGED <<rows, lock, cover, orphan, daemonVars, operatorVars, crashes>>

\* run() fails before it takes the lock: finishQueuedJob, or a store error
\* that leaves the row queued
PreflightFail(j, st) ==
    /\ wk["daemon"][j] = "preflight" /\ st \in {"failed", "blocked", "queued"}
    /\ Cas(j, "queued", st)
    /\ SetPhase("daemon", j, "idle")
    /\ UNCHANGED <<unsettled, foreign, attempts, hold, lock, cover, orphan, listed,
                   daemonVars, operatorVars, crashes>>

Bug_PreflightDefer(j) ==   \* no retry budget
    /\ wk["daemon"][j] = "preflight"
    /\ j \notin Legs
    /\ attempts' = [attempts EXCEPT ![j] = @ + 1]
    /\ hold' = [hold EXCEPT ![j] = TRUE]
    /\ old' = [old EXCEPT ![j] = FALSE]
    /\ SetPhase("daemon", j, "idle")
    /\ UNCHANGED <<state, unsettled, foreign, lock, cover, orphan, listed,
                   daemonVars, operatorVars, crashes>>

\* deferCheckoutContention: the row, queued when it was listed, gets a hold and
\* an attempt whatever its state is by now, while the shared retry budget lasts;
\* children keep the delegation's own policy
PreflightDefer(j) ==
    /\ wk["daemon"][j] = "preflight"
    /\ j \notin Legs /\ attempts[j] < MaxBlockerRetries
    /\ attempts' = [attempts EXCEPT ![j] = @ + 1]
    /\ hold' = [hold EXCEPT ![j] = TRUE]
    /\ old' = [old EXCEPT ![j] = FALSE]
    /\ SetPhase("daemon", j, "idle")
    /\ UNCHANGED <<state, unsettled, foreign, lock, cover, orphan, listed,
                   daemonVars, operatorVars, crashes>>

\* queuedJobBlockerHeld: the hold ends with its timestamp
HoldElapse(j) ==
    /\ hold[j]
    /\ hold' = [hold EXCEPT ![j] = FALSE]
    /\ UNCHANGED <<state, unsettled, old, foreign, attempts, lock, wk, cover,
                   orphan, listed, daemonVars, operatorVars, crashes>>

-----------------------------------------------------------------------------
(* The runtime-session lock *)

\* AcquireResourceLock first deletes an expired row whose owner does not run
Free(s) == \/ ~HasRow(s)
           \/ HasRow(s) /\ lock[s].expired /\ state[lock[s].owner] # "running"

\* A job with no session key needs no lock
Acquire(p, j) ==
    /\ wk[p][j] = "preflight"
    /\ \/ /\ SessionOf[j] \notin Sessions
          /\ UNCHANGED <<lock, cover>>
       \/ /\ SessionOf[j] \in Sessions
          /\ Free(SessionOf[j])
          /\ lock' = [lock EXCEPT ![SessionOf[j]] =
                       [owner |-> j, tok |-> p, expired |-> FALSE, foreign |-> FALSE]]
          /\ cover' = [cover EXCEPT ![p][j] = "held"]
    /\ SetPhase(p, j, "locked")
    /\ UNCHANGED <<rows, orphan, listed, daemonVars, operatorVars, crashes>>

Busy(j) == /\ SessionOf[j] \in Sessions
           /\ ~Free(SessionOf[j])

\* errRuntimeSessionBusy: the daemon's job stays queued
DaemonBusy(j) ==
    /\ wk["daemon"][j] = "preflight" /\ Busy(j)
    /\ SetPhase("daemon", j, "idle")
    /\ UNCHANGED <<rows, lock, cover, orphan, listed, daemonVars, operatorVars, crashes>>

\* A foreground review is left queued; any other action is cancelled
FgBusy(j) ==
    /\ wk["fg"][j] = "preflight" /\ Busy(j)
    /\ \/ UNCHANGED <<state, unsettled, old>>
       \/ /\ Cas(j, "queued", "cancelled")
          /\ unsettled' = [unsettled EXCEPT ![j] = @ /\ state[j] # "queued"]
    /\ SetPhase("fg", j, "idle")
    /\ UNCHANGED <<foreign, attempts, hold, lock, cover, orphan, listed,
                   daemonVars, operatorVars, crashes>>

\* The heartbeat of a live holder extends the lease of its own row
Heartbeat(s) ==
    /\ HasRow(s) /\ lock[s].expired /\ lock[s].tok \in Procs
    /\ lock' = [lock EXCEPT ![s].expired = FALSE]
    /\ cover' = [cover EXCEPT ![lock[s].tok][lock[s].owner] =
                   IF @ = "lapsed" THEN "held" ELSE @]
    /\ UNCHANGED <<rows, wk, orphan, listed, daemonVars, operatorVars, crashes>>

\* An in-flight daemon run keeps its row even past the lease (#562)
KeptPastLease(row) == /\ row.tok = "daemon" /\ row.owner \notin FgJobs
                      /\ wk["daemon"][row.owner] = "running"
                      /\ state[row.owner] = "running"

\* A lease elapses: nobody renews a dead holder's, and LiveLapse names the
\* processes whose heartbeats may fail for that long
LeaseLapse(s) ==
    /\ Quiet
    /\ HasRow(s) /\ ~lock[s].expired
    /\ lock[s].tok = "stale" \/ lock[s].tok \in LiveLapse
    /\ lock' = [lock EXCEPT ![s].expired = TRUE]
    /\ cover' = IF KeptPastLease(lock[s]) THEN cover
                ELSE Uncover({Holder(lock[s])}, lock[s].owner, "lapsed")
    /\ UNCHANGED <<rows, wk, orphan, listed, daemonVars, operatorVars, crashes>>

Bug_Release(p, j) ==       \* deletes by key and owner-blind
    /\ wk[p][j] = "releasing"
    /\ IF SessionOf[j] \in Sessions THEN DropRow(SessionOf[j]) ELSE UNCHANGED lock
    /\ cover' = [cover EXCEPT ![p][j] = "none"]
    /\ SetPhase(p, j, "idle")
    /\ UNCHANGED <<rows, orphan, listed, daemonVars, operatorVars, crashes>>

Bug_ReleaseKept(p, j) ==   \* an early return skips the deferred release
    /\ wk[p][j] = "releasing"
    /\ cover' = [cover EXCEPT ![p][j] = "none"]
    /\ SetPhase(p, j, "idle")
    /\ UNCHANGED <<rows, lock, orphan, listed, daemonVars, operatorVars, crashes>>

\* The deferred ReleaseResourceLock deletes the row only under its token
Release(p, j) ==
    /\ wk[p][j] = "releasing"
    /\ IF OwnRow(p, j) THEN DropRow(SessionOf[j]) ELSE UNCHANGED lock
    /\ cover' = [cover EXCEPT ![p][j] = "none"]
    /\ SetPhase(p, j, "idle")
    /\ UNCHANGED <<rows, orphan, listed, daemonVars, operatorVars, crashes>>

-----------------------------------------------------------------------------
(* A run: Mailbox.Run, Engine.RunJob and what the daemon makes of errors *)

\* Where a failed run goes on: the daemon handles the error, a foreground
\* process returns it and its deferred release runs
AfterError(p, ph) == IF p = "daemon" THEN ph ELSE "releasing"

\* A setup step (grants, adapter, cockpit) fails between acquisition and claim
SetupFail(j, st) ==
    /\ wk["daemon"][j] = "locked" /\ st \in {"failed", "blocked", "queued"}
    /\ Cas(j, "queued", st)
    /\ SetPhase("daemon", j, "releasing")
    /\ UNCHANGED <<unsettled, foreign, attempts, hold, lock, cover, orphan, listed,
                   daemonVars, operatorVars, crashes>>

\* A foreground process returns an error before the claim; the row stays
\* queued for the daemon
FgGiveUp(j) ==
    /\ \/ wk["fg"][j] = "preflight" /\ SetPhase("fg", j, "idle")
       \/ wk["fg"][j] = "locked" /\ SetPhase("fg", j, "releasing")
    /\ UNCHANGED <<rows, lock, cover, orphan, listed, daemonVars, operatorVars, crashes>>

\* Mailbox.claim -> ClaimRunningJob, stamping the boot id
Claim(p, j) ==
    /\ wk[p][j] = "locked"
    /\ IF state[j] = "queued"
         THEN /\ SetState(j, "running")
              /\ foreign' = foreign \ {j}
              /\ SetPhase(p, j, "running")
         ELSE /\ SetPhase(p, j, AfterError(p, "erred"))
              /\ UNCHANGED <<state, old, foreign>>
    /\ UNCHANGED <<unsettled, attempts, hold, lock, cover, orphan, listed,
                   daemonVars, operatorVars, crashes>>

\* finishWithPayload: running -> the decision's state, if still running
RunFinish(p, j, st) ==
    /\ wk[p][j] = "running" /\ st \in {"succeeded", "failed", "blocked"}
    /\ Cas(j, "running", st)
    /\ SetPhase(p, j, IF state[j] = "running" THEN "advancing"
                                              ELSE AfterError(p, "failing"))
    /\ UNCHANGED <<unsettled, foreign, attempts, hold, lock, cover, orphan, listed,
                   daemonVars, operatorVars, crashes>>

\* A delivery or parse failure: Mailbox.fail, running -> failed
RunFail(p, j) ==
    /\ wk[p][j] = "running"
    /\ Cas(j, "running", "failed")
    /\ SetPhase(p, j, AfterError(p, "failing"))
    /\ UNCHANGED <<unsettled, foreign, attempts, hold, lock, cover, orphan, listed,
                   daemonVars, operatorVars, crashes>>

\* The run's context ends (job timeout, or the daemon's poll saw the row
\* cancelled): the dead context also refuses Mailbox.Run's own writes
RunAbort(p, j) ==
    /\ wk[p][j] = "running"
    /\ SetPhase(p, j, AfterError(p, "failing"))
    /\ UNCHANGED <<rows, lock, cover, orphan, listed, daemonVars, operatorVars, crashes>>

\* deferOperationalBlockerPreTerminal, first write: payload with hold and
\* attempt, no condition on the state in the UPDATE itself
DeferHold(j) ==
    /\ wk["daemon"][j] = "running" /\ state[j] = "running"
    /\ j \notin Legs /\ attempts[j] < MaxBlockerRetries
    /\ attempts' = [attempts EXCEPT ![j] = @ + 1]
    /\ hold' = [hold EXCEPT ![j] = TRUE]
    /\ old' = [old EXCEPT ![j] = FALSE]
    /\ SetPhase("daemon", j, "deferring")
    /\ UNCHANGED <<state, unsettled, foreign, lock, cover, orphan, listed,
                   daemonVars, operatorVars, crashes>>

\* ... second write: running -> queued; a lost CAS falls through to
\* Mailbox.fail, which loses its own CAS too, and to the error handler
DeferRequeue(j) ==
    /\ wk["daemon"][j] = "deferring"
    /\ Cas(j, "running", "queued")
    /\ SetPhase("daemon", j, IF state[j] = "running" THEN "releasing" ELSE "failing")
    /\ UNCHANGED <<unsettled, foreign, attempts, hold, lock, cover, orphan, listed,
                   daemonVars, operatorVars, crashes>>

\* AdvanceJob and advance_completed, or its error.  An `ask` has nothing to
\* advance; for the row and the lock both are the end of the run
AdvanceDone(p, j) ==
    /\ wk[p][j] = "advancing"
    /\ \/ SetPhase(p, j, "releasing")
       \/ SetPhase(p, j, AfterError(p, "erred"))
    /\ UNCHANGED <<rows, lock, cover, orphan, listed, daemonVars, operatorVars, crashes>>

(***************************************************************************)
(* handleRunJobError reads the row and acts on what it finds: a permission *)
(* failure of the delivery blocks it, a queued row is finished, a          *)
(* cancelled one is settled, a child still running is failed with a        *)
(* synthetic result (FinalizeTimedOutDelegationChild); anything else is    *)
(* left as it is.                                                          *)
(***************************************************************************)
HandleRunError(j) ==
    /\ wk["daemon"][j] \in {"failing", "erred"}
    /\ \/ /\ wk["daemon"][j] = "failing"
          /\ state[j] \in {"queued", "running", "failed"}
          /\ SetState(j, "blocked") /\ UNCHANGED unsettled
       \/ /\ state[j] = "queued"
          /\ \E st \in {"failed", "blocked"} : SetState(j, st)
          /\ UNCHANGED unsettled
       \/ /\ state[j] = "cancelled"
          /\ unsettled' = [unsettled EXCEPT ![j] = FALSE]
          /\ UNCHANGED <<state, old>>
       \/ /\ state[j] = "running" /\ j \in Legs
          /\ SetState(j, "failed") /\ UNCHANGED unsettled
       \/ /\ \/ state[j] \in Terminal \ {"cancelled"}
             \/ state[j] = "running" /\ j \notin Legs
          /\ UNCHANGED <<state, old, unsettled>>
    /\ SetPhase("daemon", j, "releasing")
    /\ UNCHANGED <<foreign, attempts, hold, lock, cover, orphan, listed,
                   daemonVars, operatorVars, crashes>>

-----------------------------------------------------------------------------
(* Operator commands; one at a time per job.  job cancel is also what the  *)
(* blocked_ttl sweep calls, job retry what clearing a job's gates calls.   *)

\* A row leaves running under a live run whose lease is already past: only
\* the row's state still protected it
CancelUncover(j) ==
    IF \E s \in Sessions : HasRow(s) /\ lock[s].owner = j /\ lock[s].expired
    THEN Uncover({"daemon"}, j, "cancelled") ELSE cover

\* CancelJob, the CAS with its "cancel requested from <state>" event
Cancel(j) ==
    /\ j \in OpJobs /\ op[j] = "idle"
    /\ state[j] \in {"queued", "running", "blocked"}
    /\ SetState(j, "cancelled")
    /\ unsettled' = [unsettled EXCEPT ![j] = state[j] = "running"]
    /\ cover' = CancelUncover(j)
    /\ op' = [op EXCEPT ![j] = "dropping"]
    /\ UNCHANGED <<foreign, attempts, hold, lock, wk, orphan, listed, daemonVars,
                   killed, ktodo, crashes>>

\* CancelJob, the separate DeleteResourceLocksByOwner
CancelDropLocks(j) ==
    /\ op[j] = "dropping"
    /\ DropOwned(j)
    /\ cover' = Uncover(Holders, j, "cancelled")
    /\ op' = [op EXCEPT ![j] = "idle"]
    /\ UNCHANGED <<rows, wk, orphan, listed, daemonVars, killed, ktodo, crashes>>

\* SupersedeStaleHeadJob: cancels like a cancel, but leaves the locks
Supersede(j) ==
    /\ j \in OpJobs /\ state[j] \in {"queued", "running"}
    /\ SetState(j, "cancelled")
    /\ unsettled' = [unsettled EXCEPT ![j] = state[j] = "running"]
    /\ cover' = CancelUncover(j)
    /\ UNCHANGED <<foreign, attempts, hold, lock, wk, orphan, listed, daemonVars,
                   operatorVars, crashes>>

\* RetryJob reads the row and its event log ...
RetryRead(j) ==
    /\ j \in OpJobs /\ op[j] = "idle"
    /\ state[j] \in {"failed", "blocked", "cancelled"}
    /\ state[j] = "cancelled" => Settled(j)
    /\ op' = [op EXCEPT ![j] = state[j]]
    /\ UNCHANGED <<rows, lock, wk, cover, orphan, listed, daemonVars, killed, ktodo, crashes>>

\* ... and requeues it by a CAS on the state it read, blocker fields cleared
RetryCommit(j) ==
    /\ op[j] \in {"failed", "blocked", "cancelled"}
    /\ Cas(j, op[j], "queued")
    /\ IF state[j] = op[j]
         THEN /\ attempts' = [attempts EXCEPT ![j] = 0]
              /\ hold' = [hold EXCEPT ![j] = FALSE]
         ELSE UNCHANGED <<attempts, hold>>
    /\ op' = [op EXCEPT ![j] = "idle"]
    /\ UNCHANGED <<unsettled, foreign, lock, wk, cover, orphan, listed, daemonVars,
                   killed, ktodo, crashes>>

\* The operator's process dies between the two steps of a command
OpCrash(j) ==
    /\ op[j] # "idle"
    /\ op' = [op EXCEPT ![j] = "idle"]
    /\ UNCHANGED <<rows, lock, wk, cover, orphan, listed, daemonVars, killed, ktodo, crashes>>

\* KillDelegationTree: the flag, then ListJobsByRoot
Kill ==
    /\ Tree # {} /\ ~killed
    /\ \E j \in Tree : state[j] # "absent"
    /\ killed' = TRUE
    /\ ktodo' = [j \in Jobs |->
                   IF j \notin Tree \/ state[j] = "absent" THEN "none"
                   ELSE IF j \in Legs /\ state[j] = "queued" THEN "cancel"
                   ELSE "unlock"]
    /\ UNCHANGED <<rows, lock, wk, cover, orphan, listed, daemonVars, op, crashes>>

Bug_KillCancel(j) ==       \* relies on the selector's flag check alone
    /\ ktodo[j] = "cancel"
    /\ ktodo' = [ktodo EXCEPT ![j] = "unlock"]
    /\ UNCHANGED <<rows, lock, wk, cover, orphan, listed, daemonVars, op, killed, crashes>>

\* ... per listed queued leg, the CAS to cancelled
KillCancel(j) ==
    /\ ktodo[j] = "cancel"
    /\ Cas(j, "queued", "cancelled")
    /\ unsettled' = [unsettled EXCEPT ![j] = @ /\ state[j] # "queued"]
    /\ ktodo' = [ktodo EXCEPT ![j] = "unlock"]
    /\ UNCHANGED <<foreign, attempts, hold, lock, wk, cover, orphan, listed,
                   daemonVars, op, killed, crashes>>

Bug_KillUnlock(j) ==       \* DeleteResourceLocksByOwner, trusting the listing
    /\ ktodo[j] = "unlock"
    /\ DropOwned(j)
    /\ cover' = Uncover(Holders, j, "killed")
    /\ ktodo' = [ktodo EXCEPT ![j] = "none"]
    /\ UNCHANGED <<rows, wk, orphan, listed, daemonVars, op, killed, crashes>>

\* ... per listed job, DeleteResourceLocksByOwnerIfNotRunning
KillUnlock(j) ==
    /\ ktodo[j] = "unlock"
    /\ IF state[j] = "running" THEN UNCHANGED <<lock, cover>>
         ELSE /\ DropOwned(j)
              /\ cover' = Uncover(Holders, j, "killed")
    /\ ktodo' = [ktodo EXCEPT ![j] = "none"]
    /\ UNCHANGED <<rows, wk, orphan, listed, daemonVars, op, killed, crashes>>

-----------------------------------------------------------------------------
(* Time *)

\* A running row passes the stale-running window without an update
Age(j) ==
    /\ Quiet /\ state[j] = "running" /\ ~old[j]
    /\ old' = [old EXCEPT ![j] = TRUE]
    /\ UNCHANGED <<state, unsettled, foreign, attempts, hold, lock, wk, cover,
                   orphan, listed, daemonVars, operatorVars, crashes>>

-----------------------------------------------------------------------------
(* Recovery passes.  Startup: expired locks, foreign boot, stale rows      *)
(* (the supervisor of one repository only), settle.  Tick: foreign boot,   *)
(* stale rows, expired locks.  A tick skips the jobs in flight when it     *)
(* began; at startup nothing is in flight.                                 *)

ExpiredOwners == {lock[s].owner : s \in {t \in Sessions : HasRow(t) /\ lock[t].expired}}
Bug_StaleRows == {j \in foreign : state[j] = "running" /\ old[j]}   \* other boots only
StaleRows == {j \in Jobs : state[j] = "running" /\ old[j]}
CancelledRows == {j \in Jobs : state[j] = "cancelled"}

Goto(next, list) == pass' = next /\ todo' = list

DaemonStart ==
    /\ pass = "down"
    /\ Goto("s_expired", ExpiredOwners) /\ skip' = {}
    /\ UNCHANGED <<rows, lock, wk, cover, orphan, listed, cur, operatorVars, crashes>>

TickStart ==
    /\ pass = "idle" /\ (listed = {} \/ PoolDispatch)
    /\ Goto("t_boot", {}) /\ skip' = InFlight
    /\ UNCHANGED <<rows, lock, wk, cover, orphan, listed, cur, operatorVars, crashes>>

Bug_RecoverExpired(j) ==   \* no in-flight exclusion
    /\ pass \in {"s_expired", "t_expired"} /\ j \in todo
    /\ todo' = todo \ {j}
    /\ Cas(j, "running", "queued")
    /\ UNCHANGED <<unsettled, foreign, attempts, hold, lock, wk, cover, orphan, listed,
                   pass, skip, cur, operatorVars, crashes>>

\* recoverExpiredRuntimeSessionLocksSkipping: requeue each listed owner ...
RecoverExpired(j) ==
    /\ pass \in {"s_expired", "t_expired"} /\ j \in todo
    /\ todo' = todo \ {j}
    /\ IF j \in skip THEN UNCHANGED <<state, old>> ELSE Cas(j, "running", "queued")
    /\ UNCHANGED <<unsettled, foreign, attempts, hold, lock, wk, cover, orphan, listed,
                   pass, skip, cur, operatorVars, crashes>>

Bug_ReapNever ==           \* a recorded owner pid keeps an expired row alive
    /\ pass \in {"s_expired", "t_expired"} /\ todo = {}
    /\ pass' = IF pass = "s_expired" THEN "s_boot" ELSE "idle"
    /\ skip' = {}
    /\ UNCHANGED <<rows, lock, wk, cover, orphan, listed, todo, cur, operatorVars, crashes>>

\* ... then delete the expired rows of owners that are not in flight
ReapExpired ==
    /\ pass \in {"s_expired", "t_expired"} /\ todo = {}
    /\ lock' = [s \in Sessions |->
                  IF HasRow(s) /\ lock[s].expired /\ lock[s].owner \notin skip
                  THEN NoLock ELSE lock[s]]
    /\ pass' = IF pass = "s_expired" THEN "s_boot" ELSE "idle"
    /\ skip' = {}
    /\ UNCHANGED <<rows, wk, cover, orphan, listed, todo, cur, operatorVars, crashes>>

\* RequeueRunningJobsFromForeignBoot, one transaction; no-op without boot ids
RequeueForeignBoot ==
    /\ pass \in {"s_boot", "t_boot"}
    /\ LET hit == {j \in foreign : state[j] = "running"} IN
         /\ state' = [j \in Jobs |-> IF j \in hit THEN "queued" ELSE state[j]]
         /\ old' = [j \in Jobs |-> old[j] /\ j \notin hit]
    /\ pass' = IF pass = "s_boot" THEN "s_bootlocks" ELSE "t_bootlocks"
    /\ UNCHANGED <<unsettled, foreign, attempts, hold, lock, wk, cover, orphan, listed,
                   skip, todo, cur, operatorVars, crashes>>

Bug_ReleaseForeignLocks == \* by the death of the owner's pid, not by its boot
    /\ pass \in {"s_bootlocks", "t_bootlocks"}
    /\ lock' = [s \in Sessions |->
                  IF HasRow(s) /\ lock[s].tok = "stale" THEN NoLock ELSE lock[s]]
    /\ Goto(IF pass = "s_bootlocks" THEN "s_stale" ELSE "t_stale", StaleRows \ skip)
    /\ UNCHANGED <<rows, wk, cover, orphan, listed, skip, cur, operatorVars, crashes>>

\* ReleaseRuntimeSessionLocksFromForeignBoot; the stale-row listing follows, but
\* not at the startup of the supervisor of several repositories
ReleaseForeignLocks ==
    /\ pass \in {"s_bootlocks", "t_bootlocks"}
    /\ lock' = [s \in Sessions |->
                  IF HasRow(s) /\ lock[s].foreign THEN NoLock ELSE lock[s]]
    /\ \/ Goto(IF pass = "s_bootlocks" THEN "s_stale" ELSE "t_stale", StaleRows \ skip)
       \/ pass = "s_bootlocks" /\ Goto("s_settle", CancelledRows)
    /\ UNCHANGED <<rows, wk, cover, orphan, listed, skip, cur, operatorVars, crashes>>

\* recoverRunningJobIfLeaseExpired: a listed row whose lease is held stays ...
CheckLease(j) ==
    /\ pass \in {"s_stale", "t_stale"} /\ cur = NoJob /\ j \in todo
    /\ todo' = todo \ {j}
    /\ cur' = IF LeaseHeld(j) THEN NoJob ELSE j
    /\ UNCHANGED <<rows, lock, wk, cover, orphan, listed, pass, skip, operatorVars, crashes>>

Bug_RequeueStale ==        \* a plain UPDATE instead of the CAS
    /\ pass \in {"s_stale", "t_stale"} /\ cur # NoJob
    /\ SetState(cur, "queued")
    /\ cur' = NoJob
    /\ UNCHANGED <<unsettled, foreign, attempts, hold, lock, wk, cover, orphan, listed,
                   pass, skip, todo, operatorVars, crashes>>

\* ... any other is requeued
RequeueStale ==
    /\ pass \in {"s_stale", "t_stale"} /\ cur # NoJob
    /\ Cas(cur, "running", "queued")
    /\ cur' = NoJob
    /\ UNCHANGED <<unsettled, foreign, attempts, hold, lock, wk, cover, orphan, listed,
                   pass, skip, todo, operatorVars, crashes>>

StaleDone ==
    /\ pass \in {"s_stale", "t_stale"} /\ cur = NoJob /\ todo = {}
    /\ IF pass = "s_stale" THEN Goto("s_settle", CancelledRows)
                           ELSE Goto("t_expired", ExpiredOwners)
    /\ UNCHANGED <<rows, lock, wk, cover, orphan, listed, skip, cur, operatorVars, crashes>>

\* recoverCancelledRunningJobsForRepo: every cancelled row is settled
StartupSettle(j) ==
    /\ pass = "s_settle" /\ j \in todo
    /\ todo' = todo \ {j}
    /\ unsettled' = IF state[j] = "cancelled" THEN [unsettled EXCEPT ![j] = FALSE]
                                              ELSE unsettled
    /\ UNCHANGED <<state, old, foreign, attempts, hold, lock, wk, cover, orphan, listed,
                   pass, skip, cur, operatorVars, crashes>>

StartupDone ==
    /\ pass = "s_settle" /\ todo = {}
    /\ pass' = "idle"
    /\ UNCHANGED <<rows, lock, wk, cover, orphan, listed, skip, todo, cur, operatorVars, crashes>>

-----------------------------------------------------------------------------
(* Failures *)

\* What is left of the locks of dead processes: rows with nobody's token
Abandon(p, S) ==
    lock' = [s \in Sessions |->
               IF HasRow(s) /\ lock[s].tok = p /\ lock[s].owner \in S THEN [lock[s] EXCEPT !.tok = "stale"]
               ELSE lock[s]]

\* A runtime outlives its process with the lock row that process had taken,
\* and with no more protection than the lease
Inherit(p, S) ==
    [h \in Holders |-> [j \in Jobs |->
        IF h = p THEN "none"
        ELSE IF h = "orphan" /\ j \in S /\ cover[h][j] # "held"
        THEN IF cover[p][j] = "held" /\ ~LeaseHeld(j) THEN "lapsed" ELSE cover[p][j]
        ELSE cover[h][j]]]

\* The daemon dies; the runtimes of some of its runs are reparented and live
DaemonCrash(S) ==
    /\ pass # "down" /\ crashes < MaxCrashes
    /\ S \subseteq {j \in Jobs : wk["daemon"][j] = "running"}
    /\ pass' = "down" /\ skip' = {} /\ todo' = {} /\ cur' = NoJob /\ listed' = {}
    /\ wk' = [wk EXCEPT !["daemon"] = [j \in Jobs |-> "idle"]]
    /\ orphan' = orphan \cup S
    /\ cover' = Inherit("daemon", S)
    /\ Abandon("daemon", Jobs)
    /\ crashes' = crashes + 1
    /\ UNCHANGED <<rows, operatorVars>>

\* A foreground process dies, its runtime may live on
FgCrash(j, S) ==
    /\ wk["fg"][j] # "idle" /\ crashes < MaxCrashes
    /\ S \subseteq {k \in {j} : wk["fg"][k] = "running"}
    /\ SetPhase("fg", j, "idle")
    /\ orphan' = orphan \cup S
    /\ cover' = [Inherit("fg", S) EXCEPT !["fg"] = [cover["fg"] EXCEPT ![j] = "none"]]
    /\ Abandon("fg", {j})
    /\ crashes' = crashes + 1
    /\ UNCHANGED <<rows, listed, daemonVars, operatorVars>>

\* The host reboots: no process survives; rows and locks do
Reboot ==
    /\ crashes < MaxCrashes
    /\ pass' = "down" /\ skip' = {} /\ todo' = {} /\ cur' = NoJob /\ listed' = {}
    /\ wk' = [p \in Procs |-> [j \in Jobs |-> "idle"]]
    /\ orphan' = {}
    /\ cover' = [h \in Holders |-> [j \in Jobs |-> "none"]]
    /\ lock' = [s \in Sessions |->
                  IF HasRow(s) THEN [lock[s] EXCEPT !.tok = "stale", !.foreign = BootAware]
                  ELSE NoLock]
    /\ foreign' = IF BootAware THEN {j \in Jobs : state[j] = "running"} ELSE {}
    /\ op' = [j \in Jobs |-> "idle"]
    /\ ktodo' = [j \in Jobs |-> "none"]
    /\ crashes' = crashes + 1
    /\ UNCHANGED <<state, unsettled, old, attempts, hold, killed>>

\* A reparented runtime ends; it has no way to write its row
OrphanExit(j) ==
    /\ j \in orphan
    /\ orphan' = orphan \ {j}
    /\ cover' = [cover EXCEPT !["orphan"][j] = "none"]
    /\ UNCHANGED <<rows, lock, wk, listed, daemonVars, operatorVars, crashes>>

-----------------------------------------------------------------------------
WorkerStep(p, j) ==
    \/ Acquire(p, j) \/ Claim(p, j) \/ RunFail(p, j) \/ RunAbort(p, j)
    \/ \E st \in States : RunFinish(p, j, st)
    \/ AdvanceDone(p, j) \/ Release(p, j)

DaemonStep(j) ==
    \/ \E st \in States : PreflightFail(j, st) \/ SetupFail(j, st)
    \/ PreflightDefer(j) \/ DaemonBusy(j)
    \/ DeferHold(j) \/ DeferRequeue(j) \/ HandleRunError(j)

FgStep(j) == FgBusy(j) \/ FgGiveUp(j)

OperatorStep(j) ==
    \/ Cancel(j) \/ CancelDropLocks(j) \/ Supersede(j)
    \/ RetryRead(j) \/ RetryCommit(j) \/ OpCrash(j)
    \/ KillCancel(j) \/ KillUnlock(j)

RecoveryStep ==
    \/ DaemonStart \/ TickStart
    \/ \E j \in Jobs : RecoverExpired(j) \/ CheckLease(j) \/ StartupSettle(j)
    \/ ReapExpired \/ RequeueForeignBoot \/ ReleaseForeignLocks
    \/ RequeueStale \/ StaleDone \/ StartupDone

Failure ==
    \/ \E S \in SUBSET Jobs : DaemonCrash(S) \/ \E j \in Jobs : FgCrash(j, S)
    \/ Reboot

Time == \/ \E j \in Jobs : Age(j) \/ HoldElapse(j) \/ OrphanExit(j)
        \/ \E s \in Sessions : LeaseLapse(s) \/ Heartbeat(s)

Next ==
    \/ \E j \in Jobs : \/ Enqueue(j) \/ FgDispatch(j)
                       \/ List(j) \/ DropListed(j) \/ Dispatch(j)
                       \/ \E p \in Procs : WorkerStep(p, j)
                       \/ DaemonStep(j) \/ FgStep(j) \/ OperatorStep(j)
    \/ Kill
    \/ RecoveryStep
    \/ Time
    \/ Failure

Spec == Init /\ [][Next]_vars
-----------------------------------------------------------------------------
(* Properties *)

\* Every variable ranges over the values the code can store in it; a row
\* with an aged updated_at is running, and recovery handles one row at a time.
TypeOK ==
    /\ state \in [Jobs -> States]
    /\ unsettled \in [Jobs -> BOOLEAN]
    /\ old \in [Jobs -> BOOLEAN]
    /\ foreign \subseteq Jobs
    /\ attempts \in [Jobs -> 0 .. MaxBlockerRetries]
    /\ hold \in [Jobs -> BOOLEAN]
    /\ lock \in [Sessions -> LockRow \cup {NoLock}]
    /\ wk \in [Procs -> [Jobs -> Phases]]
    /\ cover \in [Holders -> [Jobs -> Covers]]
    /\ orphan \subseteq Jobs /\ listed \subseteq Jobs
    /\ pass \in Passes
    /\ skip \subseteq Jobs /\ todo \subseteq Jobs /\ cur \in Jobs \cup {NoJob}
    /\ op \in [Jobs -> {"idle", "dropping", "failed", "blocked", "cancelled"}]
    /\ killed \in BOOLEAN
    /\ ktodo \in [Jobs -> {"none", "cancel", "unlock"}]
    /\ crashes \in 0 .. MaxCrashes

\* The runtimes executing right now, as <<holder, job>>
Live == {r \in Holders \X Jobs :
            IF r[1] = "orphan" THEN r[2] \in orphan ELSE wk[r[1]][r[2]] = "running"}

\* Two runtimes never drive one session at the same time, reparented ones and
\* foreground ones included, unless one of the two had its lease elapse or its
\* lock given up by a cancel or a kill.  A daemon run that is in flight and not
\* cancelled is protected even past its lease (the in-flight exclusion of the
\* recovery tick and the not-running guard of AcquireResourceLock).
SessionExclusive ==
    \A a, b \in Live :
        /\ a # b /\ SessionOf[a[2]] = SessionOf[b[2]]
        /\ SessionOf[a[2]] \in Sessions
        => cover[a[1]][a[2]] # "held" \/ cover[b[1]][b[2]] # "held"

\* While a daemon worker runs or defers a job of the daemon's own, its row is
\* running, or cancelled with the retry gate still closed: no recovery pass
\* requeues a job in flight, and no retry starts a job before its worker settled.
ActiveRunAccounted ==
    \A j \in Jobs \ FgJobs : wk["daemon"][j] \in {"running", "deferring"} =>
        \/ state[j] = "running"
        \/ state[j] = "cancelled" /\ unsettled[j]

\* A worker that is past its claim owns its session row for as long as nobody
\* cancelled the job and no lease elapsed: what the deferred release deletes is
\* the worker's own row, and no recovery pass took it for a dead one's.
CoveredRunOwnsRow ==
    \A p \in Procs, j \in Jobs :
        wk[p][j] = "running" /\ cover[p][j] = "held" => OwnRow(p, j)

LeavesTerminalOnPurpose ==
    \A j \in Jobs : state[j] \in Terminal /\ state'[j] # state[j] =>
        \/ state'[j] = "queued" /\ op[j] = state[j] /\ op'[j] = "idle"
        \/ state[j] = "blocked" /\ state'[j] = "cancelled" /\ op'[j] = "dropping"
        \/ state[j] = "failed" /\ state'[j] = "blocked" /\ wk["daemon"][j] = "failing"

\* A terminal row is left only by a command or by the worker that classifies its
\* own failure: a recovery pass, working from rows it listed earlier, never
\* resurrects a job that ended in the meantime, and no late worker overwrites it.
TerminalLeftOnPurpose == [][LeavesTerminalOnPurpose]_vars

LegsStayDown ==
    \A j \in Legs \ OpJobs :
        killed /\ ktodo[j] = "none" /\ state[j] # "running" => state'[j] # "running"

\* Once a kill has handled a child leg that was not running, the leg stays down
\* unless someone retries it: a worker that had selected it before the flag was
\* set loses its claim to the cancelled row.
KilledLegStaysDown == [][LegsStayDown]_vars

\* The kill's lock cleanup never takes the row of a runtime that is executing,
\* also when the job was still queued in the kill's own listing.
KillSparesRunning ==
    [][\A h \in Holders, j \in Jobs :
          <<h, j>> \in Live /\ cover[h][j] = "held" => cover'[h][j] # "killed"]_vars

-----------------------------------------------------------------------------
(***************************************************************************)
(* Fairness.  The supervisor loop keeps restarting and ticking; clocks     *)
(* advance, so a row left alone ages and a lease nobody renews elapses     *)
(* (strongly fair: both only happen between two recovery passes); a worker *)
(* goroutine or process goes on until it is done (a run at the latest at   *)
(* its job timeout); a hold elapses.  Selection serves every queued job    *)
(* again and again, and the store does not fail forever (strong fairness   *)
(* of the dispatch, the acquisition and the claim).  Operators, crashes    *)
(* and live leases are under no obligation.                                *)
(***************************************************************************)
Fairness ==
    /\ WF_vars(RecoveryStep)
    /\ \A s \in Sessions : SF_vars(LeaseLapse(s) /\ lock[s].tok = "stale")
    /\ \A j \in Jobs :
        /\ SF_vars(Age(j)) /\ WF_vars(HoldElapse(j))
        /\ WF_vars(DaemonStep(j)) /\ WF_vars(FgStep(j))
        /\ WF_vars(CancelDropLocks(j) \/ RetryCommit(j) \/ OpCrash(j))
        /\ SF_vars(List(j)) /\ SF_vars(Dispatch(j))
        /\ WF_vars(Dispatch(j) \/ DropListed(j))
        /\ \A p \in Procs : /\ WF_vars(WorkerStep(p, j))
                            /\ SF_vars(Acquire(p, j)) /\ SF_vars(Claim(p, j))

FairSpec == Spec /\ Fairness

\* A row left running by a dead or timed-out worker does not stay so: a crash,
\* a reboot or a timeout is recovered by the daemon's later passes.
StrandedRunRecovered ==
    \A j \in Jobs : (state[j] = "running" /\ \A p \in Procs : wk[p][j] = "idle")
                     ~> state[j] # "running"

\* A lock row whose holder died is reclaimed, also when its owner is queued or
\* already terminal, so that its session does not stay busy for ever.
DeadLockReclaimed ==
    \A s \in Sessions : (HasRow(s) /\ lock[s].tok = "stale")
                         ~> (~HasRow(s) \/ lock[s].tok # "stale")

\* Every queued job is eventually run or finished, whatever crashed before it,
\* left its session locked or put it behind a blocker's hold.
QueuedServed ==
    \A j \in Jobs : state[j] = "queued" ~> state[j] # "queued"
=============================================================================
