----------------------------- MODULE Delegation -----------------------------
(***************************************************************************)
(* One coordinator job and the legs it delegated                           *)
(* (internal/workflow/engine_delegation.go, engine_continuation_           *)
(* synthesis.go, engine_escalation_resume.go, the advancement half of      *)
(* engine_run_budgets.go and its callers in internal/cli).                 *)
(*                                                                         *)
(* The coordinator P has returned a plan.  Its advancement queues the legs *)
(* without dependencies; every leg that settles advances P's DAG from its  *)
(* own worker: retries, failure policies, dependents, and at last the one  *)
(* continuation of P.  Legs settle concurrently, the worker tick repeats   *)
(* advancements that were left unfinished, the poller carries out the      *)
(* decisions of a human and the escalation TTL, and the daemon may crash   *)
(* between any two writes.  Every read of the store and every write is a   *)
(* step; what an actor has read, it keeps in p until it acts on it.        *)
(***************************************************************************)
EXTENDS Integers, Sequences, FiniteSets, FiniteSetsExt

CONSTANTS
    NLegs,         \* number of delegations of the plan
    MaxRetry,      \* bound on a delegation's retry
    Plans,         \* the plans (results of the coordinator) of the instance
    Verbs,         \* resume verbs the humans use: retry, continue, abort, answer
    Texts,         \* what a human may add to a retry
    Repeats,       \* TRUE: a human may retry a leg with a text already used
    MaxJobs,       \* max jobs of a tree
    MaxRounds,     \* bound: a human retries only in the first MaxRounds rounds
    MaxCrashes     \* bound on daemon crashes

Legs == 1..NLegs
Resume == -1                      \* the attempt a human's retry queues
Attempts == 0..MaxRetry \cup (IF "retry" \in Verbs THEN {Resume} ELSE {})
P == <<0, 0>>
Children == Legs \X Attempts
Jobs == {P} \cup Children
Tick == <<0, 1>>                  \* the worker loop's retry of advancements
Poller == <<0, 2>>                \* comment commands and the escalation TTL
Chat == <<0, 3>>                  \* `gitmoot chat answer`, a process of its own
Actors == Jobs \cup {Tick, Poller, Chat}

Policies == {"continue", "escalate", "escalate_human", "block_parent"}
Rules == {"summary", "vote", "quorum", "verify"}
AllPlans ==
    [deps: [Legs -> SUBSET Legs], retry: [Legs -> 0..MaxRetry],
     policy: [Legs -> Policies], rule: [Legs -> Rules], quorum: Nat,
     asks: SUBSET (Legs \cup {0}),  \* who may return human_questions; 0 is P
     orchestrate: BOOLEAN,          \* the root is a pipeline's orchestrate stage
     refused: {"no", "depth", "width", "loop", "preflight"},  \* why dispatch turns the plan down
     nudged: BOOLEAN,               \* P is itself a corrective continuation
     stalled: BOOLEAN,              \* this generation repeats the last one's results
     replan: BOOLEAN,               \* a failed verification may be planned again
     \* what may befall the tree
     mortal: SUBSET Legs,           \* legs whose runs may end without a result
     alloc: BOOLEAN,                \* worktrees or branch locks may be refused
     trips: BOOLEAN,                \* it may be killed, or run out of time or budget
     near: BOOLEAN,                 \* prompts carry the budget line, with the job count
     ttl: BOOLEAN]                  \* the escalation TTL is on

ASSUME DelegationAssumption ==
    /\ NLegs \in Nat \ {0} /\ MaxRetry \in Nat /\ MaxRounds \in Nat /\ MaxCrashes \in Nat
    /\ MaxJobs \in Nat
    /\ Plans \subseteq AllPlans
    /\ \A q \in Plans, l \in Legs : \A d \in q.deps[l] : d < l   \* no cycle
    /\ Verbs \subseteq {"retry", "continue", "abort", "answer"} /\ Repeats \in BOOLEAN
    /\ "none" \notin Texts

VARIABLES
    plan,      \* the result of P: its delegations, and what P's payload says of its past
    row,       \* child -> its row: absent, active, or how it settled
    text,      \* leg -> the text its resume attempt was queued with
    mark,      \* job -> its latest advancement marker
    cont,      \* the row P/continuation
    evCont,    \* event delegation_continuation_enqueued of P
    evFin,     \* event delegation_finalize_enqueued of P
    evRefused, \* event delegation_loop_* or delegation_preflight_failed of P
    reqs,      \* events delegation_escalation_requested of P
    resolved,  \* number of events delegation_escalation_resolved of P
    task,      \* state of P's task
    tripped,   \* the backstop the tree has hit: no, time (clock, tokens, cost) or killed
    crashes,
    p          \* actor -> where it is and what it knows

vars == <<plan, row, text, mark, cont, evCont, evFin, evRefused, reqs, resolved,
          task, tripped, crashes, p>>
-----------------------------------------------------------------------------
(* Job rows.  "dead" is a row that failed without a result; the other       *)
(* settled values are decisions, of which changes_requested (changes) and a *)
(* healthy result with questions (asking) leave the row succeeded.          *)
Succeeded(s) == s \in {"approved", "changes", "asking"}
Failed(s) == s \in {"failed", "dead"}
Settled(s) == Succeeded(s) \/ Failed(s)
Approves(s) == s \in {"approved", "asking"}

RetryCount(k) == IF k = Resume THEN 0 ELSE k

\* childDelegationJobs keeps, per delegation, the row with the highest
\* RetryCount, the last in the order of ids among equals
\* (l < l/resume < l/retry/1 < ...).
CurrentAttempt(l) ==
    LET there == {k \in Attempts : row[<<l, k>>] # "absent"}
        retries == {k \in there : k > 0}
    IN IF retries # {} THEN Max(retries)
       ELSE IF Resume \in there THEN Resume ELSE 0

States == {"absent", "active", "approved", "changes", "asking", "failed", "dead"}
Views == [Legs -> [k : Attempts, st : States]]
NoView == [l \in Legs |-> [k |-> 0, st |-> "absent"]]
View == [l \in Legs |-> [k |-> CurrentAttempt(l), st |-> row[<<l, CurrentAttempt(l)>>]]]

NumJobs == Cardinality({c \in Children : row[c] # "absent"})
           + (IF cont.kind = "none" THEN 1 ELSE 2)

\* the first leg of S, in the plan's order
First(S) == {l \in S : \A m \in S : l <= m}

\* legs without a child yet: what dispatching the plan adds to the tree
Projected == Cardinality({l \in Legs : View[l].st = "absent"})
-----------------------------------------------------------------------------
(* What the engine computes from a view of the children.                    *)
HasRule(r) == \E l \in Legs : plan.rule[l] = r

\* A dependency that failed counts as done.
Bug_DepsSatisfied(v, l) == \A d \in plan.deps[l] : Settled(v[d].st)
DepsSatisfied(v, l) == \A d \in plan.deps[l] : Succeeded(v[d].st)

\* The legs that can still get a child: the least set closed under "every
\* dependency has a child that did not fail, or has none and is in the set".
Runnable(v) ==
    {l \in Legs : \A S \in SUBSET Legs :
        (\A m \in Legs :
            (\A d \in plan.deps[m] : IF v[d].st = "absent" THEN d \in S ELSE ~Failed(v[d].st))
                => m \in S)
        => l \in S}

\* A leg without a child is taken for one that can never run.
Bug_Resolved(v, l) == v[l].st # "active"
Resolved(v, l) == IF v[l].st = "absent" THEN l \notin Runnable(v) ELSE Settled(v[l].st)
AllResolved(v) == \A l \in Legs : Resolved(v, l)

VoteSatisfied(v) == \A l \in Legs : Succeeded(v[l].st)
QuorumSatisfied(v) == Cardinality({l \in Legs : Approves(v[l].st)}) >= plan.quorum
VerifyPassed(v) ==
    \A l \in Legs : plan.rule[l] = "verify" =>
        IF v[l].st = "absent" THEN l \notin Runnable(v) ELSE Approves(v[l].st)

\* Whatever did not succeed is retried, settled or not.
Bug_Retriable(v, l) ==
    v[l].st # "absent" /\ ~Succeeded(v[l].st) /\ RetryCount(v[l].k) < plan.retry[l]

\* A leg the view shows failed, with an attempt left
Retriable(v, l) == Failed(v[l].st) /\ RetryCount(v[l].k) < plan.retry[l]

\* The failed legs whose policy stops the pass
Stopping(v) == {l \in Legs : Failed(v[l].st) /\ plan.policy[l] \in {"escalate_human", "block_parent"}}
Escalates(v) == \E l \in Legs : Failed(v[l].st) /\ plan.policy[l] = "escalate"

\* An escalation round is open while more were requested than resolved.
Open == Len(reqs) > resolved
-----------------------------------------------------------------------------
(* Requests for P's continuation.  The id is the same for all of them; two  *)
(* requests match when kind and content are equal.                          *)
Reasons == {"none", "depth", "width", "loop", "preflight", "jobs", "time", "killed",
            "alloc", "block_parent", "synthesis", "stalled", "verify", "abort", "ttl"}
Conts == [kind : {"none", "normal", "answer", "corrective", "replan", "finalize"},
          why : Reasons, kids : Views, jobs : Nat]
NoCont == [kind |-> "none", why |-> "none", kids |-> NoView, jobs |-> 0]
Request(kind, why, kids) ==
    [kind |-> kind, why |-> why, kids |-> kids,
     jobs |-> IF plan.near /\ kind \in {"normal", "answer"} THEN NumJobs ELSE 0]
Finalize(why) == Request("finalize", why, NoView)

Idle == [pc |-> "idle", job |-> P, kids |-> NoView, late |-> FALSE,
         tried |-> {}, esc |-> FALSE, leg |-> 0, want |-> NoCont, ret |-> "after", said |-> "none"]

PCs == {"idle", "attach", "adv", "ask", "askreq", "dispatch", "spawn", "events", "retry",
        "deps", "reread", "pause", "pausereq", "gate", "answer", "cont", "correct", "contev",
        "fin", "finq", "finev", "finev2", "rs_row", "rs_task", "rs_done", "after", "block",
        "blocked", "mark"}
Activity == [pc : PCs, job : Jobs, kids : Views, late : BOOLEAN, tried : SUBSET Legs,
             esc : BOOLEAN, leg : Legs \cup {0}, want : Conts,
             ret : {"after", "mark", "rs_task"}, said : Texts \cup {"none"}]

\* Actor x goes on as r.
Goto(x, r) == p' = [p EXCEPT ![x] = r]
At(x, pc) == p[x].pc = pc
Step(x, pc) == Goto(x, [p[x] EXCEPT !.pc = pc])

\* ... at pc, and forgets what it has read
Quit(me, pc) == [Idle EXCEPT !.pc = pc, !.job = me.job, !.late = me.late, !.ret = me.ret]
Finalizing(me, why) == [Quit(me, "fin") EXCEPT !.want = Finalize(why)]

\* Engine.block; an orchestrate stage has no task and is finalized instead,
\* where the code sees to it.
Blocking(me) == Quit(me, "block")
\* An orchestrate stage is blocked like any other tree.
Bug_BlockingOrFinalizing(me, why) == Blocking(me)
BlockingOrFinalizing(me, why) == IF plan.orchestrate THEN Finalizing(me, why) ELSE Blocking(me)

SetTask(s) == task' = IF plan.orchestrate THEN task ELSE s

store == <<row, text, cont, evCont, evFin, evRefused, reqs, resolved, task>>
still == <<plan, tripped, crashes>>
-----------------------------------------------------------------------------
(* How an advancement ends.  The marker is written last, and not at all when *)
(* it waits for a human; the advancement of a child finalized after a failed *)
(* delivery (late) writes none but the one of success.                      *)
Await(x) == Goto(x, Idle) /\ UNCHANGED mark

Fail(x) ==
    /\ Goto(x, Idle)
    /\ mark' = IF x \in {Poller, Chat} \/ p[x].late THEN mark
               ELSE [mark EXCEPT ![p[x].job] = "retry"]

Block(x) ==
    /\ At(x, "block")
    /\ SetTask("blocked")
    /\ Step(x, "blocked")
    /\ UNCHANGED <<still, mark, row, text, cont, evCont, evFin, evRefused, reqs, resolved>>

\* A marker of a kind that the reconciliation does not know.
Bug_MarkDone(x) ==
    /\ At(x, "mark")
    /\ mark' = [mark EXCEPT ![p[x].job] = "advanced"]
    /\ Goto(x, Idle)
    /\ UNCHANGED <<still, store>>

MarkDone(x) ==
    /\ At(x, "mark")
    /\ mark' = [mark EXCEPT ![p[x].job] = "done"]
    /\ Goto(x, Idle)
    /\ UNCHANGED <<still, store>>

MarkBlocked(x) ==
    /\ At(x, "blocked")
    /\ mark' = IF x \in {Poller, Chat} \/ p[x].late THEN mark
               ELSE [mark EXCEPT ![p[x].job] = "blocked"]
    /\ Goto(x, Idle)
    /\ UNCHANGED <<still, store>>
-----------------------------------------------------------------------------
(* A leg's run, from claim to terminal write (JobRuns has its detail).       *)

Advancing(c, late) == [Idle EXCEPT !.pc = "adv", !.job = c, !.late = late]

\* changes_requested is told from an approval by quorum and verify alone
Decisions(l) ==
    {"approved", "failed"}
    \cup (IF HasRule("quorum") \/ HasRule("verify") THEN {"changes"} ELSE {})
    \cup (IF l \in plan.asks THEN {"asking"} ELSE {})

\* Mailbox.finishWithPayload: the row, its result and advance_started at once
Deliver(c) ==
    /\ row[c] = "active" /\ At(c, "idle")
    /\ \E s \in Decisions(c[1]) : row' = [row EXCEPT ![c] = s]
    /\ mark' = [mark EXCEPT ![c] = "started"]
    /\ Goto(c, Advancing(c, FALSE))
    /\ UNCHANGED <<still, text, cont, evCont, evFin, evRefused, reqs, resolved, task>>

\* Settles a row that has settled already.
Bug_TimeOut(c) ==
    /\ c[1] \in plan.mortal
    /\ row[c] # "absent" /\ At(c, "idle")
    /\ row' = [row EXCEPT ![c] = "failed"]
    /\ mark' = [mark EXCEPT ![c] = "started"]
    /\ Goto(c, Advancing(c, TRUE))
    /\ UNCHANGED <<still, text, cont, evCont, evFin, evRefused, reqs, resolved, task>>

\* The deadline cut the run short while the row was still running:
\* FinalizeTimedOutDelegationChild settles it with a result of its own.
TimeOut(c) ==
    /\ c[1] \in plan.mortal
    /\ row[c] = "active" /\ At(c, "idle")
    /\ row' = [row EXCEPT ![c] = "failed"]
    /\ mark' = [mark EXCEPT ![c] = "started"]
    /\ Goto(c, Advancing(c, TRUE))
    /\ UNCHANGED <<still, text, cont, evCont, evFin, evRefused, reqs, resolved, task>>

\* Mailbox.finish or finishQueuedJob: failed, without a result or a marker
DeliveryFail(c) ==
    /\ c[1] \in plan.mortal
    /\ row[c] = "active" /\ At(c, "idle")
    /\ row' = [row EXCEPT ![c] = "dead"]
    /\ Goto(c, [Idle EXCEPT !.pc = "attach", !.job = c])
    /\ UNCHANGED <<still, mark, text, cont, evCont, evFin, evRefused, reqs, resolved, task>>

\* ... and then FinalizeTimedOutDelegationChild stores a failed result
Attach(c) ==
    /\ At(c, "attach")
    /\ row' = [row EXCEPT ![c] = "failed"]
    /\ Goto(c, Advancing(c, TRUE))
    /\ UNCHANGED <<still, mark, text, cont, evCont, evFin, evRefused, reqs, resolved, task>>

\* retryPendingJobAdvancements: the tick repeats one whose last marker is
\* advance_started or advance_retry, unless its own worker is still in it.
\* An advancement that was started and never came back is not repeated.
Bug_Pending(j) == mark[j] = "retry"
Pending(j) == mark[j] \in {"started", "retry"}
TickRetry(j) ==
    /\ At(Tick, "idle") /\ Pending(j) /\ At(j, "idle")
    /\ Goto(Tick, Advancing(j, FALSE))
    /\ UNCHANGED <<still, store, mark>>
-----------------------------------------------------------------------------
(* AdvanceJob.                                                              *)

Asks(j) == IF j = P THEN 0 \in plan.asks ELSE row[j] = "asking"

AdvanceJob(x) ==
    /\ At(x, "adv")
    /\ LET j == p[x].job
       IN Goto(x, IF Asks(j) THEN [p[x] EXCEPT !.pc = "ask"]
                  ELSE IF j = P THEN [p[x] EXCEPT !.pc = "dispatch"]
                  ELSE [p[x] EXCEPT !.pc = "events", !.kids = View])
    /\ UNCHANGED <<still, store, mark>>

\* pauseAwaitingHumanAnswer, always on the coordinator: a round that is open
\* covers this question too, one that was closed answers it.
Ask(x) ==
    /\ At(x, "ask")
    /\ \/ Open /\ Await(x) /\ UNCHANGED task
       \/ ~Open /\ reqs # <<>> /\ Step(x, "mark") /\ UNCHANGED <<mark, task>>
       \/ reqs = <<>> /\ SetTask("awaiting") /\ Step(x, "askreq") /\ UNCHANGED mark
    /\ UNCHANGED <<still, row, text, cont, evCont, evFin, evRefused, reqs, resolved>>

RequestRound(x, pc, kind, leg) ==
    /\ At(x, pc)
    /\ reqs' = Append(reqs, [kind |-> kind, leg |-> leg])
    /\ Await(x)
    /\ UNCHANGED <<still, row, text, cont, evCont, evFin, evRefused, resolved, task>>

AskRequest(x) == RequestRound(x, "askreq", "ask", 0)

\* delegationFailureHandledByPolicy, delegationRetryPending and the
\* continuation's event decide whether a failed child blocks the task.
AfterAdvance(x) ==
    /\ At(x, "after")
    /\ LET c == p[x].job
       IN IF /\ row[c] = "failed" /\ plan.policy[c[1]] = "block_parent"
             /\ Settled(View[c[1]].st) /\ ~evCont
          THEN Step(x, "block")
          ELSE Step(x, "mark")
    /\ UNCHANGED <<still, store, mark>>
-----------------------------------------------------------------------------
(* dispatchDelegations: P's own advancement.                                *)

Backstop ==
    IF tripped = "killed" THEN "killed"
    ELSE IF plan.refused = "depth" THEN "depth"
    ELSE IF NumJobs + Projected > MaxJobs THEN "jobs"
    ELSE IF tripped # "no" THEN tripped
    ELSE IF plan.refused = "width" THEN "width"
    ELSE "no"

\* The event of a refused plan is written first and guards against a second
\* refusal; the corrective continuation follows it.
Dispatch(x) ==
    /\ At(x, "dispatch")
    /\ LET me == [p[x] EXCEPT !.ret = "mark"]
           Corrective == [me EXCEPT !.pc = IF plan.refused = "loop" THEN "correct" ELSE "cont",
                                    !.want = Request("corrective", plan.refused, NoView)]
       IN \/ Backstop # "no" /\ Goto(x, Finalizing(me, Backstop)) /\ UNCHANGED evRefused
          \/ /\ Backstop = "no" /\ plan.refused = "no"
             /\ Goto(x, [me EXCEPT !.pc = "spawn"]) /\ UNCHANGED evRefused
          \/ /\ Backstop = "no" /\ plan.refused # "no" /\ evRefused
             /\ Goto(x, [me EXCEPT !.pc = "mark"]) /\ UNCHANGED evRefused
          \/ /\ Backstop = "no" /\ plan.refused # "no" /\ ~evRefused
             /\ evRefused' = TRUE
             /\ Goto(x, IF plan.nudged THEN Finalizing(me, plan.refused) ELSE Corrective)
    /\ UNCHANGED <<still, mark, row, text, cont, evCont, evFin, reqs, resolved, task>>

\* Engine.enqueue of a child: an existing row with this id matches.
Enqueue(c) == row' = [row EXCEPT ![c] = IF @ = "absent" THEN "active" ELSE @]

\* The dependency-free legs, in order
ToSpawn == {l \in Legs : plan.deps[l] = {} /\ row[<<l, 0>>] = "absent"}
Spawn(x) ==
    /\ At(x, "spawn")
    /\ \/ ToSpawn = {} /\ Step(x, "mark") /\ UNCHANGED row
       \/ (\E l \in First(ToSpawn) : Enqueue(<<l, 0>>)) /\ UNCHANGED p
       \/ /\ ToSpawn # {} /\ plan.alloc
          /\ Goto(x, BlockingOrFinalizing(p[x], "alloc")) /\ UNCHANGED row
    /\ UNCHANGED <<still, mark, text, cont, evCont, evFin, evRefused, reqs, resolved, task>>
-----------------------------------------------------------------------------
(* advanceDelegations, on behalf of a settled child.                        *)

\* What follows the policies: a dependent whose dependencies all succeeded (in
\* the plan's order, none after an escalation), the continuation when it is
\* due, or the end of the pass.
Dependents(me) ==
    IF me.esc THEN {}
    ELSE {l \in Legs : /\ plan.deps[l] # {} /\ me.kids[l].st = "absent"
                       /\ DepsSatisfied(me.kids, l)
                       /\ \A t \in me.tried : l > t}
DepsOrGate(me) ==
    IF Dependents(me) # {} THEN [me EXCEPT !.pc = "deps"]
    ELSE IF me.esc \/ AllResolved(me.kids) THEN [me EXCEPT !.pc = "gate", !.tried = {}]
    ELSE Quit(me, "after")

Retriables(me) == {l \in Legs \ me.tried : Retriable(me.kids, l)}

\* The parent's events are read after its children.  The first failed leg, in
\* order, whose policy stops the pass does so, unless the continuation is there.
Events(x) ==
    /\ At(x, "events")
    /\ LET me == p[x]
           again == me.tried = {} /\ Retriables(me) # {}
           stop == IF evCont THEN {} ELSE Stopping(me.kids)
       IN \/ again /\ Goto(x, [me EXCEPT !.pc = "retry"])
          \/ /\ ~again /\ stop = {}
             /\ Goto(x, DepsOrGate([me EXCEPT !.esc = Escalates(me.kids), !.tried = {}]))
          \/ /\ ~again
             /\ \E l \in First(stop) :
                   Goto(x, IF plan.policy[l] = "escalate_human"
                           THEN [Quit(me, "pause") EXCEPT !.leg = l]
                           ELSE BlockingOrFinalizing(me, "block_parent"))
    /\ UNCHANGED <<still, store, mark>>

\* The retry pass, and a fresh look at the children after it
Retry(x) ==
    /\ At(x, "retry")
    /\ LET me == p[x]
           todo == Retriables(me)
       IN \/ \E l \in First(todo) :
                /\ Enqueue(<<l, RetryCount(me.kids[l].k) + 1>>)
                /\ Goto(x, [me EXCEPT !.tried = @ \cup {l}])
          \/ /\ todo # {} /\ plan.alloc
             /\ Goto(x, Blocking(me)) /\ UNCHANGED row
          \/ /\ todo = {}
             /\ Goto(x, [me EXCEPT !.pc = "events", !.kids = View])
             /\ UNCHANGED row
    /\ UNCHANGED <<still, mark, text, cont, evCont, evFin, evRefused, reqs, resolved, task>>

\* pauseAwaitingHuman
Pause(x) ==
    /\ At(x, "pause")
    /\ \/ Open /\ Await(x) /\ UNCHANGED task
       \/ ~Open /\ SetTask("awaiting") /\ Step(x, "pausereq") /\ UNCHANGED mark
    /\ UNCHANGED <<still, row, text, cont, evCont, evFin, evRefused, reqs, resolved>>

PauseRequest(x) == RequestRound(x, "pausereq", "failure", p[x].leg)

\* One dependent is queued, and the children are listed again.
Deps(x) ==
    /\ At(x, "deps")
    /\ LET me == p[x]
       IN \/ \E l \in First(Dependents(me)) :
                /\ Enqueue(<<l, 0>>)
                /\ Goto(x, [me EXCEPT !.pc = "reread", !.tried = @ \cup {l}])
          \/ /\ plan.alloc /\ UNCHANGED row
             /\ Goto(x, BlockingOrFinalizing(me, "alloc"))
    /\ UNCHANGED <<still, mark, text, cont, evCont, evFin, evRefused, reqs, resolved, task>>

Reread(x) ==
    /\ At(x, "reread")
    /\ Goto(x, DepsOrGate([p[x] EXCEPT !.kids = View]))
    /\ UNCHANGED <<still, store, mark>>
-----------------------------------------------------------------------------
(* maybeEnqueueContinuation and enqueueFinalizeContinuation.                *)

GateFails(v) == \/ HasRule("vote") /\ ~VoteSatisfied(v)
                \/ HasRule("quorum") /\ ~QuorumSatisfied(v)

Gate(x) ==
    /\ At(x, "gate")
    /\ LET me == p[x]
           Cont(kind) == [Quit(me, "cont") EXCEPT !.want = Request(kind, "none", me.kids)]
       IN Goto(x, IF evCont THEN Quit(me, me.ret)
                  ELSE IF GateFails(me.kids) THEN BlockingOrFinalizing(me, "synthesis")
                  ELSE IF plan.stalled
                  THEN IF plan.nudged THEN Finalizing(me, "stalled") ELSE Cont("corrective")
                  ELSE IF ~VerifyPassed(me.kids)
                  THEN IF plan.replan THEN Cont("replan") ELSE Finalizing(me, "verify")
                  ELSE Cont("normal"))
    /\ UNCHANGED <<still, store, mark>>

\* The answer's continuation: the plan's legs were never dispatched (or are
\* left to themselves), so no rule of theirs applies.
AnswerGate(x) ==
    /\ At(x, "answer")
    /\ Goto(x, IF evCont THEN [p[x] EXCEPT !.pc = p[x].ret]
               ELSE [p[x] EXCEPT !.pc = "cont", !.want = Request("answer", "none", NoView)])
    /\ UNCHANGED <<still, store, mark>>

\* Engine.enqueue of P/continuation: the row is inserted, or is there and
\* matches, or is there and differs, which is an error.
EnqueueContinuation(x, pc, next) ==
    /\ At(x, pc)
    /\ \/ /\ cont \in {NoCont, p[x].want}
          /\ cont' = p[x].want
          /\ Goto(x, Quit(p[x], next)) /\ UNCHANGED mark
       \/ cont \notin {NoCont, p[x].want} /\ Fail(x) /\ UNCHANGED cont
    /\ UNCHANGED <<still, row, text, evCont, evFin, evRefused, reqs, resolved, task>>

Continue(x) == EnqueueContinuation(x, "cont", "contev")
\* the corrective continuation of a repeated plan records no event
Correct(x) == EnqueueContinuation(x, "correct", "mark")
FinalizeEnqueue(x) == EnqueueContinuation(x, "finq", "finev")

ContinueEvent(x) ==
    /\ p[x].pc \in {"contev", "finev"}
    /\ evCont' = TRUE
    /\ Step(x, IF At(x, "contev") THEN p[x].ret ELSE "finev2")
    /\ UNCHANGED <<still, mark, row, text, cont, evFin, evRefused, reqs, resolved, task>>

\* A tree that was finalized before is left alone, its open round too.
Bug_FinalizeGuard(x) ==
    /\ At(x, "fin")
    /\ IF evFin THEN Goto(x, Idle) ELSE Step(x, "finq")
    /\ UNCHANGED <<still, store, mark>>

FinalizeGuard(x) ==
    /\ At(x, "fin")
    /\ Step(x, IF evFin THEN p[x].ret ELSE "finq")
    /\ UNCHANGED <<still, store, mark>>

FinalizeEvent(x) ==
    /\ At(x, "finev2")
    /\ evFin' = TRUE
    /\ Step(x, p[x].ret)
    /\ UNCHANGED <<still, mark, row, text, cont, evCont, evRefused, reqs, resolved, task>>
-----------------------------------------------------------------------------
(* ResolveEscalation and AutoFinalizeExpiredEscalations.                    *)

Round == reqs[Len(reqs)]
Resolving == [Idle EXCEPT !.ret = "rs_task"]

\* A human's command on the open round: only answer suits a question, only
\* the other verbs suit a failure.
Human(x, verb, t) ==
    /\ x \in {Poller, Chat} /\ (x = Chat => verb = "answer")
    /\ At(x, "idle") /\ Open
    /\ (verb = "answer") <=> (Round.kind = "ask")
    /\ verb = "retry" => /\ Len(reqs) <= MaxRounds
                         /\ Repeats \/ text[Round.leg] # t
    /\ Goto(x, CASE verb = "retry" -> [Resolving EXCEPT !.pc = "rs_row", !.leg = Round.leg, !.said = t]
                 [] verb = "continue" -> [Resolving EXCEPT !.pc = "gate", !.kids = View]
                 [] verb = "abort" -> [Resolving EXCEPT !.pc = "fin", !.want = Finalize("abort")]
                 [] verb = "answer" -> [Resolving EXCEPT !.pc = "answer"])
    /\ UNCHANGED <<still, store, mark>>

\* The round has been open for longer than the TTL.
Expire ==
    /\ plan.ttl /\ At(Poller, "idle") /\ Open
    /\ Goto(Poller, [Resolving EXCEPT !.pc = "fin", !.want = Finalize("ttl")])
    /\ UNCHANGED <<still, store, mark>>

\* resumeRetryLeg: the id of the resumed leg is the same in every round.
ResumeRow(x) ==
    /\ At(x, "rs_row")
    /\ LET c == <<p[x].leg, Resume>>
       IN \/ /\ row[c] = "absent" \/ text[c[1]] = p[x].said
             /\ Enqueue(c)
             /\ text' = [text EXCEPT ![c[1]] = p[x].said]
             /\ Goto(x, Quit(p[x], "rs_task")) /\ UNCHANGED mark
          \/ /\ row[c] # "absent" /\ text[c[1]] # p[x].said
             /\ Fail(x) /\ UNCHANGED <<row, text>>
          \/ plan.alloc /\ Goto(x, Blocking(p[x])) /\ UNCHANGED <<row, text, mark>>
    /\ UNCHANGED <<still, cont, evCont, evFin, evRefused, reqs, resolved, task>>

ResumeTask(x) ==
    /\ At(x, "rs_task")
    /\ SetTask("planned")
    /\ Step(x, "rs_done")
    /\ UNCHANGED <<still, mark, row, text, cont, evCont, evFin, evRefused, reqs, resolved>>

ResumeDone(x) ==
    /\ At(x, "rs_done")
    /\ resolved' = resolved + 1
    /\ Goto(x, Idle)
    /\ UNCHANGED <<still, mark, row, text, cont, evCont, evFin, evRefused, reqs, task>>
-----------------------------------------------------------------------------
\* An operator kills the tree, or it outlives its clock or its budget.
Trip ==
    /\ plan.trips /\ tripped # "killed"
    /\ \E t \in {"time", "killed"} \ {tripped} : tripped' = t
    /\ UNCHANGED <<plan, crashes, store, mark, p>>

\* The daemon dies: its goroutines are gone, the rows and events stay.  A run
\* that was under way is queued again (JobRuns).
Crash ==
    /\ crashes < MaxCrashes
    /\ \E x \in Actors \ {Chat} : ~At(x, "idle")
    /\ crashes' = crashes + 1
    /\ p' = [x \in Actors |-> IF x = Chat THEN p[x] ELSE Idle]
    /\ UNCHANGED <<plan, tripped, store, mark>>

Init ==
    /\ plan \in Plans
    /\ row = [c \in Children |-> "absent"]
    /\ text = [l \in Legs |-> "none"]
    /\ mark = [j \in Jobs |-> IF j = P THEN "started" ELSE "none"]
    /\ cont = NoCont
    /\ evCont = FALSE /\ evFin = FALSE /\ evRefused = FALSE
    /\ reqs = <<>> /\ resolved = 0
    /\ task = "planned"
    /\ tripped = "no" /\ crashes = 0
    /\ p = [x \in Actors |-> IF x = P THEN Advancing(P, FALSE) ELSE Idle]

Engine(x) ==
    \/ AdvanceJob(x) \/ Ask(x) \/ AskRequest(x) \/ AfterAdvance(x)
    \/ Dispatch(x) \/ Spawn(x)
    \/ Events(x) \/ Retry(x) \/ Pause(x) \/ PauseRequest(x)
    \/ Deps(x) \/ Reread(x)
    \/ Gate(x) \/ AnswerGate(x) \/ Continue(x) \/ Correct(x) \/ ContinueEvent(x)
    \/ FinalizeGuard(x) \/ FinalizeEnqueue(x) \/ FinalizeEvent(x)
    \/ ResumeRow(x) \/ ResumeTask(x) \/ ResumeDone(x)
    \/ Block(x) \/ MarkDone(x) \/ MarkBlocked(x)

Run(c) == Deliver(c) \/ TimeOut(c) \/ DeliveryFail(c)

Next ==
    \/ \E x \in Actors : Engine(x)
    \/ \E c \in Children : Run(c) \/ Attach(c)
    \/ \E j \in Jobs : TickRetry(j)
    \/ \E x \in {Poller, Chat}, verb \in Verbs, t \in Texts : Human(x, verb, t)
    \/ Expire \/ Trip \/ Crash

Spec == Init /\ [][Next]_vars

\* Workers go on, runs end (the job's deadline), the tick comes back to every
\* pending advancement (it walks them all), the TTL is looked at in every poll.
Fairness ==
    /\ WF_vars(\E x \in Jobs : Engine(x))
    /\ \A x \in {Tick, Poller, Chat} : WF_vars(Engine(x))
    /\ WF_vars(\E c \in Children : Run(c) \/ Attach(c))
    /\ \A j \in Jobs : SF_vars(TickRetry(j))
    /\ SF_vars(Expire)

LiveSpec == Spec /\ Fairness
-----------------------------------------------------------------------------
(* Properties.                                                              *)

\* Types.
TypeOK ==
    /\ plan \in Plans
    /\ row \in [Children -> States]
    /\ text \in [Legs -> Texts \cup {"none"}]
    /\ mark \in [Jobs -> {"none", "started", "retry", "done", "blocked"}]
    /\ cont \in Conts
    /\ evCont \in BOOLEAN /\ evFin \in BOOLEAN /\ evRefused \in BOOLEAN
    /\ reqs \in Seq([kind : {"ask", "failure"}, leg : Legs \cup {0}])
    /\ resolved \in Nat
    /\ task \in {"planned", "awaiting", "blocked"}
    /\ tripped \in {"no", "time", "killed"} /\ crashes \in 0..MaxCrashes
    /\ p \in [Actors -> Activity]

\* A leg has a job only if each of its dependencies has an attempt that
\* succeeded, although dependents are queued from listings that other workers,
\* the tick and humans have outdated.
DepsFirst ==
    \A l \in Legs : (\E k \in Attempts : row[<<l, k>>] # "absent") =>
        \A d \in plan.deps[l] : \E k \in Attempts : Succeeded(row[<<d, k>>])

\* The retries of advanceDelegations and of a human never run a leg twice at a
\* time.
OneActiveAttempt ==
    \A l \in Legs, k, n \in Attempts :
        row[<<l, k>>] = "active" /\ row[<<l, n>>] = "active" => k = n

\* What P's continuation reports of a settled leg is and stays what that
\* attempt's row says, however old the listing it was written from.
HonestSynthesis ==
    \A l \in Legs : LET r == cont.kids[l]
                    IN Settled(r.st) => \/ row[<<l, r.k>>] = r.st
                                        \/ r.st = "dead" /\ row[<<l, r.k>>] = "failed"

\* A tree comes to rest only with a continuation, a blocked task or a question
\* to a human: when nothing runs, nothing is to be retried and no round is open,
\* P was decided.
Decided == cont.kind # "none" \/ task = "blocked"
NeverStranded ==
    /\ \A x \in Actors : At(x, "idle")
    /\ \A c \in Children : row[c] # "active"
    /\ \A j \in Jobs : ~Pending(j)
    /\ ~Open
    => Decided

\* P is decided at last and every advancement is then reconciled for good,
\* although the daemon may die between any two writes of any of them.
Settles == <>[](Decided /\ \A j \in Jobs : ~Pending(j))

\* An unanswered round is closed by the TTL, also when the daemon dies while it
\* finalizes the tree.
RoundsEnd == Open ~> ~Open

\* What FanIn sees: how a leg stands is how its current attempt does, and the
\* outcome is what P has got, of which a block and a continuation exclude one
\* another.
Standing(st) ==
    IF st = "absent" THEN "idle" ELSE IF st = "active" THEN "active"
    ELSE IF Succeeded(st) THEN "good" ELSE "bad"
LegsSeen == [l \in Legs |-> Standing(row[<<l, CurrentAttempt(l)>>])]
TriesSeen == [l \in Legs |-> RetryCount(CurrentAttempt(l))]
Outcome ==
    IF task = "blocked" THEN IF cont.kind = "none" THEN "blocked" ELSE "both"
    ELSE IF cont.kind = "none" THEN "open"
    ELSE IF cont.kind = "finalize" THEN "final" ELSE "synthesis"

\* The legs and the join of P behave as FanIn says: each step of the engine is
\* one of FanIn's or changes nothing there.
Join == INSTANCE FanIn WITH
    leg <- LegsSeen, tries <- TriesSeen, outcome <- Outcome
JoinsAsPromised == Join!Spec

\* A leg's question holds the tree until it is answered, and the continuation
\* carries the answer.
AnswerCarried == (~plan.ttl /\ resolved > 0 /\ reqs[1].kind = "ask") => cont.kind = "answer"
=============================================================================
