------------------------------ MODULE ReviewLoop ------------------------------
(***************************************************************************)
(* The life of a task from its pull request to its merge: the review fan-  *)
(* out, the rounds of review and fix, the native merge gate and the poll   *)
(* that reconciles the task with what happened on the host meanwhile.      *)
(*                                                                         *)
(* There is one task, one branch and one pull request.  Its head on the    *)
(* host is a number that grows with every push.  The jobs of a task share  *)
(* a checkout, which a worker holds until the advancement of its job is    *)
(* over (DispatchTracker!CheckoutExclusive), and the poll waits for it     *)
(* (DispatchTracker!PollQuiet): of the daemon one worker or the poll is at *)
(* work on the task.  Beside them are a foreground process that advances   *)
(* the first implementation, and people, CI and the host, who owe gitmoot  *)
(* nothing: everything interleaves between any two of their steps.         *)
(***************************************************************************)
EXTENDS Naturals, FiniteSets

CONSTANTS
    Reviewers,  \* the agents that may have to review
    MaxHead,    \* bound on the heads of a branch
    Plans       \* the settings and events to consider, see PlansAssumption

Poll == "poll"
Fg == "fg"
Worker == "worker"
Daemon == {Worker, Poll}
Procs == Daemon \cup {Fg}
Heads == 1..MaxHead
\* What a worktree holds that the origin has not got
Stray == MaxHead + 1
Moves == {"push", "merge", "close", "reopen", "base", "ask", "flip", "drop", "crash",
          "latecrash"}

\* Defined for TLC: a plan says who must review, what the reviews and CI may
\* conclude, whether merges are automatic, who runs the first implementation,
\* which moves people, the host and crashes have, each at most once, and whether
\* people keep the worktree at the head a review is of (follow).
ASSUME PlansAssumption ==
    /\ MaxHead \in Nat \ {0}
    /\ Plans \subseteq [reviewers : SUBSET Reviewers, auto : BOOLEAN, fg : BOOLEAN,
                        verdicts : SUBSET {"approved", "changes", "blocked"},
                        ci : SUBSET {"green", "red"}, moves : SUBSET Moves, follow : BOOLEAN,
                        heads : Heads]    \* heads the branch may have

\* A job is named by what jobID hashes: its action, its round and its agent;
\* the first implementation has round 0.
First == <<"fix", 0, "lead">>
Reviews == {"review"} \X Heads \X Reviewers
Fixes == {First} \cup ({"fix"} \X Heads \X Reviewers)
Jobs == Reviews \cup Fixes
Round(j) == j[2]
Agent(j) == j[3]

Waiting == {"pr_open", "reviewing", "changes", "awaiting"}
Candidates == Waiting \cup {"ready", "blocked"}
TaskStates == Candidates \cup {"implementing", "merged"}

VARIABLES
    plan,    \* the plan of this behaviour
    host,    \* the pull request on the host: state, head, behind its base, who merged it,
             \* and if the task has got another one since, whose life is not followed
    ci,      \* per head: what commit statuses and check runs say
    obs,     \* no_ci_observations: the head first seen without CI, and if the wait is over
    task,    \* the task's state
    parked,  \* the reason of the last event that parked it for a human merge
    mirror,  \* the pull_requests row
    branch,  \* its head at the origin, the head of the task's worktree (0: no worktree),
             \* and whether the lead holds its lock
    job,     \* the jobs' rows
    auto,    \* [merge_gate] auto_merge
    ask,     \* a comment that asks for the merge has not been handled
    moves,   \* the moves that are left
    proc     \* the actors

vars == <<plan, host, ci, obs, task, parked, mirror, branch, job, auto, ask, moves, proc>>

NoJob == [st |-> "none", head |-> 0, from |-> "none", dec |-> "none", adv |-> "none"]
\* head, from and n belong to the event or the review round at hand, pull is
\* what the gate has read of the pull request, ret is where the poll goes on,
\* open and memo are what the poll has listed.
Idle == [pc |-> "idle", job |-> First, head |-> 0, from |-> "none", n |-> 0, todo |-> {},
         pull |-> [st |-> "none", head |-> 0], human |-> FALSE, base |-> FALSE, ret |-> "none",
         open |-> FALSE, memo |-> {}]

\* The first implementation has been pushed and its pull request opened.
Init ==
    /\ plan \in Plans
    /\ host = [st |-> "open", head |-> 1, behind |-> FALSE, by |-> "none", new |-> FALSE]
    /\ ci = [h \in Heads |-> "none"]
    /\ obs = [head |-> 0, over |-> FALSE]
    /\ task = "implementing" /\ parked = "none"
    /\ mirror = [st |-> "none", head |-> 0]
    /\ branch = [tip |-> 1, tree |-> 1, lock |-> TRUE]
    /\ job = [j \in Jobs |-> IF j # First THEN NoJob
                 ELSE [NoJob EXCEPT !.st = "done", !.from = "user", !.dec = "implemented",
                                    !.adv = "due"]]
    /\ auto = plan.auto /\ ask = FALSE /\ moves = plan.moves
    /\ proc = [p \in Procs |-> IF p = IF plan.fg THEN Fg ELSE Worker
                               THEN [Idle EXCEPT !.pc = "adopt", !.head = 1, !.from = "lead"]
                               ELSE Idle]
-----------------------------------------------------------------------------
Seen(j) == job[j].st # "none"
Rounds == {Round(j) : j \in {k \in Reviews : Seen(k)}}
\* latestReviewRound
IsLatest(n) == n \in Rounds /\ \A m \in Rounds : m <= n
At(n) == {j \in Reviews : Round(j) = n /\ Seen(j)}
\* findActiveJobForBranch
Active == \E j \in Jobs : job[j].st = "queued"

Set(p, me) == proc' = [proc EXCEPT ![p] = me]
Go(p, pc) == Set(p, [proc[p] EXCEPT !.pc = pc])

\* Where PollOnce goes on after a call: most errors are kept for later, one
\* from a comment ends the poll.
After(me, res) ==
    CASE me.ret = "store" /\ res # "ok" -> "drive"
      [] me.ret = "asked" /\ res = "err" -> "idle"
      [] me.ret = "readvance" /\ res # "ok" -> "promote"
      [] me.ret = "close" /\ res # "ok" -> "retry"
      [] OTHER -> me.ret

\* What the poll keeps of its listing from one part to the next
Listed(me, pc) == [Idle EXCEPT !.pc = pc, !.open = me.open, !.memo = me.memo, !.head = me.head]

\* A call returns "ok", "blocked" (a BlockedError, which settles an advancement)
\* or "err" (the advancement stays due and the tick retries it).
Finish(p, res, jobs) ==
    LET me == proc[p]
        next == After(me, res)
    IN  IF p = Poll
        THEN /\ Set(p, CASE next = "idle" -> Idle
                         [] next = "readvance" -> [Listed(me, next) EXCEPT !.todo = me.todo]
                         [] next = "close" -> [Listed(me, next) EXCEPT !.ret = "retry",
                                                  !.pull = [st |-> "merged", head |-> host.head]]
                         [] OTHER -> Listed(me, next))
             /\ job' = jobs
        ELSE /\ Set(p, Idle)
             /\ job' = IF res = "err" THEN jobs ELSE [jobs EXCEPT ![me.job].adv = "done"]
Return(p, res) == Finish(p, res, job)
-----------------------------------------------------------------------------
(* Engine.AdvanceJob for the jobs of a review loop *)

Approved(n, v) == <<"review", n, v>> \in At(n) /\ job[<<"review", n, v>>].dec = "approved"

\* What AdvanceJob does with job j, from its reads up to its first write
Route(j) ==
    IF j \in Reviews /\ ~IsLatest(Round(j)) THEN "done"
    ELSE IF job[j].dec = "blocked" THEN "block"
    ELSE IF j \in Fixes THEN "finalize"
    ELSE IF job[j].dec = "changes" THEN "changes"
    ELSE IF task \in {"ready", "merged"} THEN "done"      \* reviewApprovalAlreadyAdvanced
    ELSE IF \A v \in plan.reviewers : Approved(Round(j), v) THEN "gate"
    ELSE "revisit"

Advance(p) ==
    /\ proc[p].pc = "advance"
    /\ LET j == proc[p].job
       IN  IF Route(j) = "done" THEN Return(p, "ok")
           ELSE /\ Set(p, [proc[p] EXCEPT !.pc = Route(j), !.head = job[j].head,
                              !.from = IF j \in Fixes THEN "lead" ELSE "none"])
                /\ UNCHANGED job
    /\ UNCHANGED <<plan, host, ci, obs, task, parked, mirror, branch, auto, ask, moves>>

\* Engine.block
Block(p) ==
    /\ proc[p].pc = "block"
    /\ task' = "blocked" /\ Return(p, "blocked")
    /\ UNCHANGED <<plan, host, ci, obs, parked, mirror, branch, auto, ask, moves>>

\* A review asks for changes, and dispatchFix enqueues the lead's job once
Changes(p) ==
    /\ proc[p].pc = "changes"
    /\ task' = "changes" /\ Go(p, "fix")
    /\ UNCHANGED <<plan, host, ci, obs, parked, mirror, branch, job, auto, ask, moves>>

\* The id is taken if the review was advanced before; that is fine as long as
\* the fix has not pushed.
DispatchFix(p) ==
    /\ proc[p].pc = "fix"
    /\ branch' = [branch EXCEPT !.lock = TRUE]
    /\ LET j == proc[p].job
           f == <<"fix", Round(j), Agent(j)>>
           new == [NoJob EXCEPT !.st = "queued", !.head = job[j].head, !.from = Agent(j)]
       IN  IF Seen(f) THEN Return(p, IF job[f].head = job[j].head THEN "ok" ELSE "err")
           ELSE Finish(p, "ok", [job EXCEPT ![f] = new])
    /\ UNCHANGED <<plan, host, ci, obs, task, parked, mirror, auto, ask, moves>>

\* setReviewingIfNotChangesRequested
Revisit(p) ==
    /\ proc[p].pc = "revisit"
    /\ task' = IF task = "changes" THEN task ELSE "reviewing"
    /\ Return(p, "ok")
    /\ UNCHANGED <<plan, host, ci, obs, parked, mirror, branch, auto, ask, moves>>

\* FinalizeImplementation: a fix that has changed nothing goes on with the head
\* it was given.  Others are committed and pushed, whatever has become of the
\* pull request; a push that is not a fast-forward is refused, and so is one
\* past the bound on heads.
Finalize(p) ==
    /\ proc[p].pc = "finalize"
    /\ LET given == proc[p].head
           tree == branch.tree
           push == tree = Stray /\ branch.tip = given /\ branch.tip < plan.heads
           head == IF push THEN branch.tip + 1 ELSE tree
       IN  \/ tree \in {0, given} /\ Go(p, "opened") /\ UNCHANGED <<host, branch, job>>
           \/ /\ tree # given /\ (push \/ tree = branch.tip)
              /\ branch' = [branch EXCEPT !.tip = head, !.tree = head]
              /\ host' = IF host.st = "open" THEN [host EXCEPT !.head = head] ELSE host
              /\ Set(p, [proc[p] EXCEPT !.pc = "adopt", !.head = head]) /\ UNCHANGED job
           \/ /\ tree \notin {0, given, branch.tip} \/ tree = Stray
              /\ ~push /\ Return(p, "blocked") /\ UNCHANGED <<host, branch>>
    /\ UNCHANGED <<plan, ci, obs, task, parked, mirror, auto, ask, moves>>

\* The row of the branch, if it is not closed, gets the new head; otherwise
\* EnsurePullRequest adopts the open pull request, opens another or fails.
Adopt(p) ==
    /\ proc[p].pc = "adopt"
    /\ IF mirror.st = "open" \/ host.st = "open"
       THEN LET head == IF mirror.st = "open" THEN proc[p].head ELSE host.head
            IN  /\ mirror' = [st |-> "open", head |-> head]
                /\ Set(p, [proc[p] EXCEPT !.pc = "save", !.head = head])
                /\ UNCHANGED <<host, job>>
       ELSE /\ \/ host' = [host EXCEPT !.new = TRUE] /\ Return(p, "ok")
               \/ Return(p, "blocked") /\ UNCHANGED host
            /\ UNCHANGED mirror
    /\ UNCHANGED <<plan, ci, obs, task, parked, branch, auto, ask, moves>>

\* AdvanceJob puts the head into the payload
Save(p) ==
    /\ proc[p].pc = "save"
    /\ job' = [job EXCEPT ![proc[p].job].head = proc[p].head] /\ Go(p, "opened")
    /\ UNCHANGED <<plan, host, ci, obs, task, parked, mirror, branch, auto, ask, moves>>
-----------------------------------------------------------------------------
(* HandlePullRequestOpened, called by an implementation's advancement with the *)
(* head it pushed and by the poll with the head it listed                      *)

Opened(p) ==
    /\ proc[p].pc = "opened"
    /\ task' = "pr_open" /\ Go(p, "round")
    /\ UNCHANGED <<plan, host, ci, obs, parked, mirror, branch, job, auto, ask, moves>>

\* nextReviewRound: the round of this head, or one more than there are rounds
NextRound(h) ==
    LET known == {Round(j) : j \in {k \in Reviews : Seen(k) /\ job[k].head = h}}
    IN  IF known # {} THEN known ELSE {Cardinality(Rounds) + 1}

\* ensureAgentAllowed takes the branch lock for the lead.  A round past the bound
\* is refused.
StartRound(p) ==
    /\ proc[p].pc = "round"
    /\ branch' = [branch EXCEPT !.lock = TRUE]
    /\ IF plan.reviewers = {}
       THEN Set(p, [proc[p] EXCEPT !.pc = "gate", !.base = TRUE]) /\ UNCHANGED job
       ELSE \E n \in NextRound(proc[p].head) :
              IF n \in Heads
              THEN /\ Set(p, [proc[p] EXCEPT !.pc = "enqueue", !.n = n, !.todo = plan.reviewers])
                   /\ UNCHANGED job
              ELSE Return(p, "err")
    /\ UNCHANGED <<plan, host, ci, obs, task, parked, mirror, auto, ask, moves>>

\* Engine.enqueue: the id is taken already if somebody else has started this
\* round; that is fine only if the whole payload, head and sender included, agrees
Enqueue(p) ==
    /\ proc[p].pc = "enqueue"
    /\ \E v \in proc[p].todo :
          LET me == proc[p]
              j == <<"review", me.n, v>>
              left == me.todo \ {v}
              new == [NoJob EXCEPT !.st = "queued", !.head = me.head, !.from = me.from]
          IN  IF Seen(j) /\ (job[j].head # me.head \/ job[j].from # me.from)
              THEN Return(p, "err")
              ELSE /\ job' = IF Seen(j) THEN job ELSE [job EXCEPT ![j] = new]
                   /\ Set(p, [me EXCEPT !.todo = left,
                                        !.pc = IF left = {} THEN "reviewing" ELSE @])
    /\ UNCHANGED <<plan, host, ci, obs, task, parked, mirror, branch, auto, ask, moves>>

Reviewing(p) ==
    /\ proc[p].pc = "reviewing"
    /\ task' = "reviewing" /\ Go(p, "baseline")
    /\ UNCHANGED <<plan, host, ci, obs, parked, mirror, branch, job, auto, ask, moves>>

\* recordPullRequestBaseline
Baseline(p) ==
    /\ proc[p].pc = "baseline"
    /\ mirror' = [st |-> "open", head |-> proc[p].head] /\ Return(p, "ok")
    /\ UNCHANGED <<plan, host, ci, obs, task, parked, branch, auto, ask, moves>>
-----------------------------------------------------------------------------
(* runMergeGate over daemonMergeGate.Evaluate and PolicyMergeGate.Evaluate *)

EnterGate(me, human, ret) == [me EXCEPT !.pc = "gate", !.human = human, !.ret = ret]

\* No decision while a job owns the branch; then the kill switch
Gate(p) ==
    /\ proc[p].pc = "gate"
    /\ Go(p, IF Active THEN "ready"
             ELSE IF auto \/ proc[p].human THEN "pull" ELSE "park_switch")
    /\ UNCHANGED <<plan, host, ci, obs, task, parked, mirror, branch, job, auto, ask, moves>>

\* GetPullRequest; an explicit request and a pull request that is not open skip
\* the review and CI gate
Pull(p) ==
    /\ proc[p].pc = "pull"
    /\ Set(p, [proc[p] EXCEPT !.pull = [st |-> host.st, head |-> host.head],
                              !.pc = IF proc[p].human \/ host.st # "open" THEN "checkout" ELSE "vet"])
    /\ UNCHANGED <<plan, host, ci, obs, task, parked, mirror, branch, job, auto, ask, moves>>

\* The branch gets head h from elsewhere, or from the worktree (here).
Pushed(h, here) ==
    [branch EXCEPT !.tip = h,
                   !.tree = IF here \/ (plan.follow /\ @ = branch.tip) THEN h ELSE @]

\* ensureFinalReviewCaptured
Captured(h) ==
    \E n \in Rounds :
        LET results == {j \in At(n) : job[j].dec # "none"}
        IN  /\ IsLatest(n)
            /\ \A j \in results : job[j].head = h /\ job[j].dec = "approved"
            /\ results # {}

\* concludeNoExternalCI measures its wait from the first poll that saw no CI at
\* this head
Waited(h) == obs.head = h /\ obs.over

\* Defect: every look at a head without CI starts the wait again.
Bug_Vet(p) ==
    /\ proc[p].pc = "vet"
    /\ LET h == proc[p].pull.head
       IN  /\ obs' = IF ci[h] = "none" THEN [head |-> h, over |-> FALSE] ELSE obs
           /\ Go(p, IF ci[h] \in {"pending", "none"} THEN "ready"
                    ELSE IF ci[h] = "red" \/ ~Captured(h) THEN "park_miss"
                    ELSE "checkout")
    /\ UNCHANGED <<plan, host, ci, task, parked, mirror, branch, job, auto, ask, moves>>

\* reviewAndCIGateMiss
Vet(p) ==
    /\ proc[p].pc = "vet"
    /\ LET h == proc[p].pull.head
       IN  /\ obs' = IF ci[h] = "none" /\ obs.head # h THEN [head |-> h, over |-> FALSE] ELSE obs
           /\ Go(p, IF ci[h] = "pending" \/ (ci[h] = "none" /\ ~Waited(h)) THEN "ready"
                    ELSE IF ci[h] = "red" \/ ~Captured(h) THEN "park_miss"
                    ELSE "checkout")
    /\ UNCHANGED <<plan, host, ci, task, parked, mirror, branch, job, auto, ask, moves>>

\* acquireLocalCheckoutMutationLock and what to do with the pull request read
Locked == {"fresh", "merge", "record", "unlock"}
Checkout(p) ==
    /\ proc[p].pc = "checkout"
    /\ IF \E q \in Procs : proc[q].pc \in Locked THEN Return(p, "err")
       ELSE /\ Go(p, CASE proc[p].pull.st = "merged" -> "record"
                        [] proc[p].pull.st = "closed" -> "block"
                        [] OTHER -> "fresh")
            /\ UNCHANGED job
    /\ UNCHANGED <<plan, host, ci, obs, task, parked, mirror, branch, auto, ask, moves>>

\* ensureBranchFresh: a branch behind its base is updated by the host, which
\* gives it a new head, or refused.  Whatever the base, the worktree may be found
\* dirty and the pull request not mergeable.
Fresh(p) ==
    /\ proc[p].pc = "fresh"
    /\ LET moved == host.st # "open" \/ host.head # proc[p].pull.head
       IN  \/ ~host.behind /\ Go(p, "merge") /\ UNCHANGED <<host, branch>>
           \/ host.behind /\ moved /\ Go(p, "ready") /\ UNCHANGED <<host, branch>>
           \/ /\ host.behind /\ ~moved /\ branch.tip < plan.heads
              /\ host' = [host EXCEPT !.head = branch.tip + 1, !.behind = FALSE]
              /\ branch' = Pushed(branch.tip + 1, FALSE) /\ Go(p, "ready")
           \/ Go(p, "block") /\ UNCHANGED <<host, branch>>
    /\ UNCHANGED <<plan, ci, obs, task, parked, mirror, job, auto, ask, moves>>

\* Defect: the merge takes whatever head there is by now.
Bug_Merge(p) ==
    /\ proc[p].pc = "merge"
    /\ IF host.st = "open"
       THEN /\ host' = [host EXCEPT !.st = "merged",
                                    !.by = IF proc[p].human THEN "human" ELSE "auto"]
            /\ Go(p, "record") /\ UNCHANGED job
       ELSE Return(p, "err") /\ UNCHANGED host
    /\ UNCHANGED <<plan, ci, obs, task, parked, mirror, branch, auto, ask, moves>>

\* executePullRequestMerge with MatchHeadCommit
Merge(p) ==
    /\ proc[p].pc = "merge"
    /\ IF host.st = "open" /\ host.head = proc[p].pull.head
       THEN /\ host' = [host EXCEPT !.st = "merged",
                                    !.by = IF proc[p].human THEN "human" ELSE "auto"]
            /\ Go(p, "record") /\ UNCHANGED job
       ELSE Return(p, "err") /\ UNCHANGED host
    /\ UNCHANGED <<plan, ci, obs, task, parked, mirror, branch, auto, ask, moves>>

\* finishMerged: the row, the branch lock; then runMergeGate's task
Record(p) ==
    /\ proc[p].pc = "record"
    /\ mirror' = [st |-> "merged", head |-> proc[p].pull.head] /\ Go(p, "unlock")
    /\ UNCHANGED <<plan, host, ci, obs, task, parked, branch, job, auto, ask, moves>>

\* Removing the worktree may fail
Unlock(p) ==
    /\ proc[p].pc = "unlock"
    /\ \E tree \in {0, branch.tree} : branch' = [branch EXCEPT !.lock = FALSE, !.tree = tree]
    /\ Go(p, "merged")
    /\ UNCHANGED <<plan, host, ci, obs, task, parked, mirror, job, auto, ask, moves>>

Merged(p) ==
    /\ proc[p].pc = "merged"
    /\ task' = "merged" /\ Return(p, "ok")
    /\ UNCHANGED <<plan, host, ci, obs, parked, mirror, branch, auto, ask, moves>>

\* An open pull request is left for later or for a human; a trigger without
\* reviewers then records its baseline
GateEnd(p) ==
    IF proc[p].base THEN Go(p, "baseline") /\ UNCHANGED job ELSE Return(p, "ok")

Ready(p) ==
    /\ proc[p].pc = "ready"
    /\ task' = "ready" /\ GateEnd(p)
    /\ UNCHANGED <<plan, host, ci, obs, parked, mirror, branch, auto, ask, moves>>

\* parkTaskAwaitingHumanMerge
Park(p) ==
    /\ proc[p].pc \in {"park_switch", "park_miss"}
    /\ IF task \in {"pr_open", "reviewing", "changes", "ready"}
       THEN /\ task' = "awaiting"
            /\ parked' = IF proc[p].pc = "park_switch" THEN "switch" ELSE "miss"
       ELSE UNCHANGED <<task, parked>>
    /\ GateEnd(p)
    /\ UNCHANGED <<plan, host, ci, obs, mirror, branch, auto, ask, moves>>
-----------------------------------------------------------------------------
(* Daemon.PollOnce *)

Me == proc[Poll]
\* What every step of the poll but its store, its comments and a close leaves alone
PollOnly == UNCHANGED <<plan, host, ci, obs, parked, branch, auto, moves>>

\* rearmAutoMergeDisabledTasks, then the list of open pull requests
PollStart ==
    /\ Me.pc = "idle" /\ proc[Worker].pc = "idle"
    /\ task' = IF auto /\ task = "awaiting" /\ parked = "switch" THEN "ready" ELSE task
    /\ Set(Poll, [Idle EXCEPT !.pc = IF host.st = "open" THEN "changed" ELSE "external",
                              !.open = host.st = "open", !.head = host.head])
    /\ PollOnly /\ UNCHANGED <<mirror, job, ask>>

\* supersedeStaleReviewJobs
Superseded(known) ==
    [j \in Jobs |-> IF j \in known /\ job[j].head # Me.head /\ job[j].st = "queued"
                    THEN [job[j] EXCEPT !.st = "dropped"] ELSE job[j]]

\* handlePullRequestWorkflow with the review jobs known to this poll
Trigger(me, ret) ==
    /\ job' = Superseded(me.memo)
    /\ Set(Poll, IF branch.lock THEN [me EXCEPT !.pc = "opened", !.from = "github", !.ret = ret]
                 ELSE [me EXCEPT !.pc = ret])

\* pullRequestChanged
PullChanged ==
    /\ Me.pc = "changed"
    /\ LET known == {j \in Reviews : Seen(j)}
           me == [Me EXCEPT !.memo = known]
           stale == known # {} /\ \A j \in known : job[j].head # Me.head
       IN  IF mirror.st = "none" \/ mirror.head # Me.head \/ stale THEN Trigger(me, "store")
           ELSE Set(Poll, [me EXCEPT !.pc = "drive"]) /\ UNCHANGED job
    /\ PollOnly /\ UNCHANGED <<task, mirror, ask>>

\* recordPullRequest, unless the trigger has merged it
Store ==
    /\ Me.pc = "store"
    /\ IF mirror.st = "merged" THEN Go(Poll, "drive") /\ UNCHANGED mirror
       ELSE /\ mirror' = [st |-> "open", head |-> Me.head]
            /\ Go(Poll, "comments")
    /\ PollOnly /\ UNCHANGED <<task, job, ask>>

\* pullRequestReadyToMerge and handleReadyToMergeWorkflow
Drive ==
    /\ Me.pc = "drive"
    /\ Set(Poll, IF task = "ready" THEN EnterGate(Me, FALSE, "comments")
                 ELSE [Me EXCEPT !.pc = "comments"])
    /\ PollOnly /\ UNCHANGED <<task, mirror, job, ask>>

\* handleMergeCommand; the comment is marked as seen after it
Comments ==
    /\ Me.pc = "comments"
    /\ Set(Poll, IF ask /\ task \in {"ready", "awaiting"} THEN EnterGate(Me, TRUE, "asked")
                 ELSE [Me EXCEPT !.pc = "asked"])
    /\ PollOnly /\ UNCHANGED <<task, mirror, job, ask>>

Asked ==
    /\ Me.pc = "asked"
    /\ ask' = FALSE /\ Go(Poll, "review")
    /\ PollOnly /\ UNCHANGED <<task, mirror, job>>

\* reconcileReviewingPullRequest
Reconcile ==
    /\ Me.pc = "review"
    /\ LET now == {j \in Me.memo : job[j].head = Me.head}
       IN  IF task = "reviewing" /\ now = {} THEN Trigger(Me, "promote")
           ELSE /\ Set(Poll, IF task # "reviewing" THEN [Me EXCEPT !.pc = "promote"]
                             ELSE [Me EXCEPT !.pc = "readvance", !.todo = now])
                /\ UNCHANGED job
    /\ PollOnly /\ UNCHANGED <<task, mirror, ask>>

Readvance ==
    /\ Me.pc = "readvance"
    /\ \/ (Me.todo = {} \/ task # "reviewing") /\ Set(Poll, Listed(Me, "promote"))
       \/ /\ task = "reviewing"
          /\ \E j \in Me.todo :
                Set(Poll, IF job[j].st = "queued" THEN Listed(Me, "promote")
                          ELSE IF job[j].dec = "none" THEN [Me EXCEPT !.todo = @ \ {j}]
                          ELSE [Me EXCEPT !.todo = @ \ {j}, !.pc = "advance",
                                          !.job = j, !.ret = "readvance"])
    /\ PollOnly /\ UNCHANGED <<task, mirror, job, ask>>

\* reconcilePROpenTasks
Promote ==
    /\ Me.pc = "promote"
    /\ task' = IF task \in {"implementing", "blocked"} THEN "pr_open" ELSE task
    /\ Set(Poll, [Me EXCEPT !.pc = "external", !.memo = {}])
    /\ PollOnly /\ UNCHANGED <<mirror, job, ask>>

\* Defect: a blocked task is not looked at.
Bug_External ==
    /\ Me.pc = "external"
    /\ Set(Poll, IF Me.open \/ task \notin Waiting \/ mirror.st = "none" \/ host.st # "merged"
                 THEN [Me EXCEPT !.pc = "retry"]
                 ELSE [Me EXCEPT !.pc = "close", !.ret = "retry",
                                 !.pull = [st |-> "merged", head |-> host.head]])
    /\ PollOnly /\ UNCHANGED <<task, mirror, job, ask>>

\* reconcileExternallyMergedTasks
External ==
    /\ Me.pc = "external"
    /\ Set(Poll, IF Me.open \/ task \notin Candidates \/ mirror.st = "none" \/ host.st # "merged"
                 THEN [Me EXCEPT !.pc = "retry"]
                 ELSE IF task = "ready" THEN EnterGate(Me, FALSE, "close")
                 ELSE [Me EXCEPT !.pc = "close", !.ret = "retry",
                                 !.pull = [st |-> "merged", head |-> host.head]])
    /\ PollOnly /\ UNCHANGED <<task, mirror, job, ask>>

\* retryClosedReadyToMerge
RetryClosed ==
    /\ Me.pc = "retry"
    /\ Set(Poll, IF /\ ~Me.open /\ task = "ready" /\ mirror.st # "none"
                    /\ host.st # "open" /\ host.head = mirror.head
                 THEN EnterGate(Me, FALSE, "closed") ELSE [Me EXCEPT !.pc = "closed"])
    /\ PollOnly /\ UNCHANGED <<task, mirror, job, ask>>

\* Defect: a closed pull request is looked for only while reviewers are at work.
Bug_ClosedReviewing ==
    /\ Me.pc = "closed"
    /\ Set(Poll, IF /\ ~Me.open /\ task = "reviewing" /\ mirror.st # "none"
                    /\ host.st # "open" /\ host.head = mirror.head
                 THEN [Me EXCEPT !.pc = "close", !.ret = "idle",
                                 !.pull = [st |-> host.st, head |-> host.head]]
                 ELSE Idle)
    /\ PollOnly /\ UNCHANGED <<task, mirror, job, ask>>

\* reconcileClosedReviewingTasks
ClosedReviewing ==
    /\ Me.pc = "closed"
    /\ Set(Poll, IF /\ ~Me.open /\ task \in Waiting /\ mirror.st # "none"
                    /\ host.st # "open" /\ host.head = mirror.head
                    /\ host.st = "merged" => task = "reviewing"
                 THEN [Me EXCEPT !.pc = "close", !.ret = "idle",
                                 !.pull = [st |-> host.st, head |-> host.head]]
                 ELSE Idle)
    /\ PollOnly /\ UNCHANGED <<task, mirror, job, ask>>

\* HandleReviewPullRequestClosed: the task, the row, then the branch lock of a
\* merged or parked task; base says that the lock is to be released
Close ==
    /\ Me.pc = "close"
    /\ LET merged == Me.pull.st = "merged"
           may == IF merged THEN Candidates ELSE Waiting
       IN  IF task \in may
           THEN /\ task' = IF merged THEN "merged" ELSE "blocked"
                /\ Set(Poll, [Me EXCEPT !.pc = "mirror", !.base = merged \/ task = "awaiting"])
                /\ UNCHANGED job
           ELSE /\ IF merged /\ task = "merged" THEN Go(Poll, "mirror") /\ UNCHANGED job
                   ELSE Return(Poll, "ok")
                /\ UNCHANGED task
    /\ PollOnly /\ UNCHANGED <<mirror, ask>>

CloseMirror ==
    /\ Me.pc = "mirror"
    /\ mirror' = Me.pull
    /\ IF Me.base THEN Go(Poll, "cleanup") /\ UNCHANGED job ELSE Return(Poll, "ok")
    /\ PollOnly /\ UNCHANGED <<task, ask>>

CloseCleanup ==
    /\ Me.pc = "cleanup"
    /\ branch' = [branch EXCEPT !.lock = FALSE,
                                !.tree = IF Me.pull.st = "merged" THEN 0 ELSE @]
    /\ Return(Poll, "ok")
    /\ UNCHANGED <<plan, host, ci, obs, task, parked, mirror, auto, ask, moves>>
-----------------------------------------------------------------------------
(* The daemon's workers *)

\* The preflight of a run and of a late advancement (CheckoutValidator): the
\* heads job j may have.  A fix needs the worktree at its head and the branch
\* lock; a review is moved to the worktree's head (resyncReviewHead) if the row
\* says that its pull request is open.
Preflight(j) ==
    IF j \in Fixes THEN {h \in {job[j].head} : h # 0 /\ h = branch.tree /\ branch.lock}
    ELSE IF plan.follow THEN {job[j].head}
    ELSE {h \in {branch.tree} : h = job[j].head \/ (h # 0 /\ mirror.st = "open")}

\* A review may find the worktree dirty
Refused(j) ==
    \/ Preflight(j) = {}
    \/ j \in Reviews /\ ~plan.follow /\ branch.tree = Stray

\* A worker runs a job to its result, unless the preflight, after some deferrals,
\* fails it: nothing is advanced then.
Work(j) ==
    /\ proc[Worker].pc = "idle" /\ Me.pc = "idle" /\ job[j].st = "queued"
    /\ \/ /\ Refused(j) /\ job' = [job EXCEPT ![j].st = "dropped"]
          /\ UNCHANGED <<branch, proc>>
       \/ /\ \E h \in Preflight(j) :
             \E dec \in IF j \in Reviews THEN plan.verdicts
                       ELSE {"implemented"} \cup (plan.verdicts \cap {"blocked"}) :
                job' = [job EXCEPT ![j].st = "done", ![j].head = h, ![j].dec = dec,
                                   ![j].adv = "due"]
          /\ \E tree \in IF job'[j].dec = "implemented" THEN {branch.tree, Stray} ELSE {branch.tree} :
                branch' = [branch EXCEPT !.tree = tree]
          /\ Set(Worker, [Idle EXCEPT !.pc = "advance", !.job = j])
    /\ UNCHANGED <<plan, host, ci, obs, task, parked, mirror, auto, ask, moves>>

\* retryPendingJobAdvancements
Retry(j) ==
    /\ proc[Worker].pc = "idle" /\ Me.pc = "idle" /\ job[j].adv = "due"
    /\ \E h \in Preflight(j) : job' = [job EXCEPT ![j].head = h]
    /\ Set(Worker, [Idle EXCEPT !.pc = "advance", !.job = j])
    /\ UNCHANGED <<plan, host, ci, obs, task, parked, mirror, branch, auto, ask, moves>>
-----------------------------------------------------------------------------
(* People, the host and CI *)

Use(m) == m \in moves /\ moves' = moves \ {m}
Outside == UNCHANGED <<plan, obs, task, parked, mirror, proc>>

\* From the task's worktree or from elsewhere
Push ==
    /\ Use("push") /\ branch.tip < plan.heads
    /\ \E here \in {branch.tree = branch.tip, FALSE} : branch' = Pushed(branch.tip + 1, here)
    /\ host' = IF host.st = "open" THEN [host EXCEPT !.head = branch.tip + 1] ELSE host
    /\ Outside /\ UNCHANGED <<ci, job, auto, ask>>
PeopleMerge ==
    /\ Use("merge") /\ host.st = "open"
    /\ host' = [host EXCEPT !.st = "merged", !.by = "people"]
    /\ Outside /\ UNCHANGED <<branch, ci, job, auto, ask>>
ClosePull ==
    /\ Use("close") /\ host.st = "open"
    /\ host' = [host EXCEPT !.st = "closed"]
    /\ Outside /\ UNCHANGED <<branch, ci, job, auto, ask>>
Reopen ==
    /\ Use("reopen") /\ host.st = "closed"
    /\ host' = [host EXCEPT !.st = "open", !.head = branch.tip]
    /\ Outside /\ UNCHANGED <<branch, ci, job, auto, ask>>
MoveBase ==
    /\ Use("base") /\ host' = [host EXCEPT !.behind = TRUE]
    /\ Outside /\ UNCHANGED <<branch, ci, job, auto, ask>>
Ask ==
    /\ Use("ask") /\ host.st = "open" /\ ask' = TRUE
    /\ Outside /\ UNCHANGED <<branch, host, ci, job, auto>>
Flip ==
    /\ Use("flip") /\ auto' = ~auto
    /\ Outside /\ UNCHANGED <<branch, host, ci, job, ask>>
\* An operator cancels a review
Drop(j) ==
    /\ Use("drop") /\ job[j].st = "queued"
    /\ job' = [job EXCEPT ![j].st = "dropped"]
    /\ Outside /\ UNCHANGED <<branch, host, ci, auto, ask>>

\* CI appears, if it ever does, before the gate has given up waiting for it
CIStart(h) ==
    /\ plan.ci # {} /\ h <= branch.tip /\ ci[h] = "none" /\ ~Waited(h)
    /\ ci' = [ci EXCEPT ![h] = "pending"]
    /\ Outside /\ UNCHANGED <<host, branch, job, auto, ask, moves>>
CIEnd(h) ==
    /\ ci[h] = "pending"
    /\ \E res \in plan.ci : ci' = [ci EXCEPT ![h] = res]
    /\ Outside /\ UNCHANGED <<host, branch, job, auto, ask, moves>>
Clock ==
    /\ obs.head # 0 /\ ~obs.over
    /\ obs' = [obs EXCEPT !.over = TRUE]
    /\ UNCHANGED <<plan, host, ci, task, parked, mirror, branch, job, auto, ask, moves, proc>>

\* The daemon, or the foreground process, dies and is started again; what it
\* was advancing stays due.  A late crash is one while no trigger is pending.
Crash(ps) ==
    /\ \/ Use("crash")
       \/ Use("latecrash") /\ \A f \in Fixes : job[f].adv # "due"
    /\ \E p \in ps : proc[p].pc # "idle"
    /\ proc' = [p \in Procs |-> IF p \in ps THEN Idle ELSE proc[p]]
    /\ UNCHANGED <<plan, host, ci, obs, task, parked, mirror, branch, job, auto, ask>>
-----------------------------------------------------------------------------
Step(p) ==
    \/ Advance(p) \/ Block(p) \/ Changes(p) \/ DispatchFix(p) \/ Revisit(p) \/ Finalize(p)
    \/ Adopt(p) \/ Save(p) \/ Opened(p) \/ StartRound(p) \/ Enqueue(p) \/ Reviewing(p) \/ Baseline(p)
    \/ Gate(p) \/ Pull(p) \/ Vet(p) \/ Checkout(p) \/ Fresh(p) \/ Merge(p)
    \/ Record(p) \/ Unlock(p) \/ Merged(p) \/ Ready(p) \/ Park(p)

PollStep ==
    \/ PullChanged \/ Store \/ Drive \/ Comments \/ Asked \/ Reconcile \/ Readvance \/ Promote
    \/ External \/ RetryClosed \/ ClosedReviewing \/ Close \/ CloseMirror \/ CloseCleanup

People ==
    \/ Push \/ PeopleMerge \/ ClosePull \/ Reopen \/ MoveBase \/ Ask \/ Flip
    \/ \E j \in Reviews : Drop(j)

Next ==
    \/ PollStart \/ PollStep \/ \E p \in Procs : Step(p)
    \/ \E j \in Jobs : Work(j) \/ Retry(j)
    \/ People \/ \E h \in Heads : CIStart(h) \/ CIEnd(h)
    \/ Clock \/ Crash(Daemon) \/ Crash({Fg})

Spec == Init /\ [][Next]_vars

\* Every actor goes on; the supervisor keeps polling and the scheduler keeps
\* serving jobs, although each waits for the other to pause, so both need SF.
\* CI that has started ends and clocks run.  People owe nothing.
Fairness ==
    /\ \A p \in Procs \ {Poll} : WF_vars(Step(p))
    /\ WF_vars(Step(Poll) \/ PollStep) /\ SF_vars(PollStart)
    /\ SF_vars(\E j \in Jobs : Work(j)) /\ SF_vars(\E j \in Jobs : Retry(j))
    /\ WF_vars(\E h \in Heads : CIEnd(h)) /\ WF_vars(Clock)

LiveSpec == Spec /\ Fairness
-----------------------------------------------------------------------------
\* What the gate of merge_gate.go:128 is for: whatever was pushed, reviewed or
\* cancelled between its reads, a merge that nobody asked for is one of a head
\* that every required reviewer has approved, and at least one has, that no
\* reviewer has objected to and that CI has not failed.
ApprovedBy(v, h) ==
    \E j \in Reviews : Agent(j) = v /\ job[j].head = h /\ job[j].dec = "approved"
Objected(j) == job[j].dec \in {"changes", "blocked"}
Withdrawn(j) ==
    \E k \in Reviews : /\ Agent(k) = Agent(j) /\ Round(k) > Round(j)
                      /\ job[k].head = job[j].head /\ job[k].dec = "approved"
AllApproved(h) ==
    /\ plan.reviewers # {} /\ \A v \in plan.reviewers : ApprovedBy(v, h)
    /\ \A j \in Reviews : job[j].head = h /\ Objected(j) => Withdrawn(j)
Vetted(h) == AllApproved(h) /\ ci[h] \notin {"red", "pending"}
VettedMerge == [][host'.by = "auto" /\ host.by # "auto" => Vetted(host.head)]_vars

\* reconcileExternallyMergedTasks and the merged arm of the gate: whoever merged
\* the pull request, and whatever advancement comes late, the task ends merged.
FollowsHost ==
    (host.st = "merged" /\ mirror.st # "none" /\ task # "implementing")
        ~> [](task = "merged" \/ host.new)

\* The loop does not wedge (daemon.go:1023): once its reviewers have all approved
\* the open head, a task is merged, parked for a human or blocked.
Settled == task \in {"merged", "awaiting", "blocked"}
ApprovedMoves ==
    (host.st = "open" /\ AllApproved(branch.tip) /\ task \in {"reviewing", "ready"})
        ~> (host.st # "open" \/ ~AllApproved(branch.tip) \/ Settled)

\* A task does not wait for ever for a closed pull request.  The poll settles it
\* if the request was closed at the head gitmoot knows and nobody has pushed to
\* the branch since (reconcileClosedReviewingTasks).  A fix that was in flight
\* may have: then the gate settles it once the new head is approved and no job
\* is left to run.
ClosedSettles ==
    /\ (/\ host.st = "closed" /\ mirror.head = host.head
         /\ task \in Waiting \cup {"ready"})
         ~> (host.st # "closed" \/ branch.tip # host.head \/ task \in {"blocked", "merged"})
    /\ (host.st = "closed" /\ AllApproved(branch.tip) /\ ~Active /\ task = "reviewing")
         ~> (host.st # "closed" \/ ~AllApproved(branch.tip) \/ Settled)
=============================================================================
