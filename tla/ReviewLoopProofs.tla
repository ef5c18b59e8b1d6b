-------------------------- MODULE ReviewLoopProofs --------------------------
(***************************************************************************)
(* Proofs about ReviewLoop: the types, and that a merge nobody asked for   *)
(* is one of a vetted head, for every set of reviewers and plans and any   *)
(* number of heads, as long as the reviews keep the heads they were asked  *)
(* for and the foreground process goes on with the head it pushed.         *)
(*                                                                         *)
(* The gate decides in several steps and reads the reviews (Vet) after the *)
(* advancement that opened it did (Route); between the two, and while a    *)
(* task waits in ready, a foreground process may still be enqueueing the   *)
(* reviews of an old head.  GateInv says why that does no harm.            *)
(***************************************************************************)
EXTENDS ReviewLoop, FiniteSetTheorems, TLAPS

Listing == {"idle", "changed", "store", "drive", "comments", "asked", "review", "readvance",
            "promote", "external", "retry", "closed"}
GatePcs == {"gate", "pull", "vet", "checkout", "fresh", "merge", "ready", "park_switch",
            "park_miss"}
TriggerPcs == {"opened", "round", "enqueue", "reviewing", "baseline"}
FinalPcs == {"finalize", "adopt", "save"}
Calls == GatePcs \cup TriggerPcs \cup FinalPcs
           \cup {"advance", "block", "changes", "fix", "revisit", "record", "unlock",
                 "merged", "close", "mirror", "cleanup"}
\* Where an actor has a head that a round may be started of
HeadPcs == FinalPcs \cup {"opened", "round", "enqueue"}
Rets == {"store", "promote", "comments", "asked", "readvance", "close", "closed", "retry", "idle"}
Senders == {"none", "user", "lead", "github"} \cup Reviewers
SomeHead == 0..Stray

Hosts == [st : {"open", "closed", "merged"}, head : Heads, behind : BOOLEAN,
          by : {"none", "people", "human", "auto"}, new : BOOLEAN]
Mirrors == [st : {"none", "open", "closed", "merged"}, head : SomeHead]
Branches == [tip : Heads, tree : SomeHead, lock : BOOLEAN]
Row == [st : {"none", "queued", "done", "dropped"}, head : SomeHead, from : Senders,
        dec : {"none", "approved", "changes", "blocked", "implemented"},
        adv : {"none", "due", "done"}]
Local == [pc : Listing \cup Calls, job : Jobs, head : SomeHead, from : Senders, n : Nat,
          todo : SUBSET (Reviewers \cup Reviews), pull : Mirrors,
          human : BOOLEAN, base : BOOLEAN, ret : Rets \cup {"none"}, open : BOOLEAN,
          memo : SUBSET Reviews]

\* The store: everything but the actors.
StoreOK ==
    /\ plan \in Plans /\ host \in Hosts
    /\ ci \in [Heads -> {"none", "pending", "green", "red"}]
    /\ obs \in [head : SomeHead, over : BOOLEAN]
    /\ task \in TaskStates /\ parked \in {"none", "switch", "miss"}
    /\ mirror \in Mirrors /\ branch \in Branches
    /\ auto \in BOOLEAN /\ ask \in BOOLEAN /\ moves \subseteq Moves
    /\ job \in [Jobs -> Row]

TypeOK == StoreOK /\ proc \in [Procs -> Local]

\* The heads there may be in a row: those of the origin, and whatever a worktree
\* holds if reviews are moved to it.
Limit == IF plan.follow THEN branch.tip ELSE Stray

Sent == {j \in Reviews : Seen(j)}
Placed == {j \in Jobs : Seen(j) /\ job[j].head >= 1}

\* An open pull request is at the head of its branch.
HostInv == host.head <= branch.tip /\ (host.st = "open" => host.head = branch.tip)

\* The rows: who reviews was asked to, a verdict is that of a job that is done,
\* as is an advancement that is due.
RowInv ==
    /\ \A j \in Sent : Agent(j) \in plan.reviewers /\ job[j].head >= 1
    /\ \A j \in Jobs : job[j].head <= Limit
    /\ \A j \in Jobs : job[j].dec # "none" \/ job[j].adv = "due" => job[j].st = "done"

\* What an actor p with local state me may be at, under plan pl, while the heads
\* are at most h and the jobs S have one.
FgWell(pl, me) == pl.reviewers # {} => me.pc \in {"idle", "adopt", "save"} \cup TriggerPcs
PollWell(S, me) ==
    /\ me.pc # "idle" => me.head >= 1
    /\ me.pc \in Calls => me.ret \in Rets
    /\ me.memo \subseteq S /\ me.pc \notin FinalPcs
    /\ me.pc = "readvance" => me.todo \subseteq S \cap Reviews
    /\ me.pc = "advance" => me.ret = "readvance"
    /\ me.pc \in Calls /\ me.ret = "readvance" =>
           /\ me.todo \subseteq S \cap Reviews /\ me.job \in S \cap Reviews
           /\ me.pc \notin HeadPcs
Well(pl, h, S, p, me) ==
    /\ me.head <= h /\ me.pull.head <= h
    /\ me.pc \in HeadPcs => me.head >= 1
    /\ me.pc \in FinalPcs => me.job \in Fixes
    /\ me.pc = "enqueue" => me.todo \subseteq pl.reviewers
    /\ me.pc = "advance" => me.job \in S
    /\ p = Fg => FgWell(pl, me)
    /\ p = Poll => PollWell(S, me)

ActorInv == \A p \in Procs : Well(plan, Limit, Placed, p, proc[p])

Base == TypeOK /\ HostInv /\ RowInv /\ ActorInv

\* Reviews are not moved to what their worktree holds, and the foreground process
\* goes on with the head it pushed.
Steady == plan.follow /\ proc[Fg].head <= 1

\* Of the daemon one worker or the poll is at work; while it starts a round
\* the task is not at the gate.
DaemonInv ==
    /\ proc[Worker].pc = "idle" \/ proc[Poll].pc = "idle"
    /\ \A p \in Daemon : proc[p].pc \in {"round", "enqueue"} /\ plan.reviewers # {}
           => task \notin {"ready", "awaiting"}

\* The reviews of a head are those of one round, except of the first head once
\* there is another: only the foreground process, late, gives it a second one.
RoundInv ==
    /\ branch.tip = 1 => /\ \A j \in Sent : Round(j) = 1
                         /\ \A p \in Procs : proc[p].pc = "enqueue" => proc[p].n = 1
    /\ \A j, k \in Sent : job[j].head = job[k].head /\ job[j].head > 1 => Round(j) = Round(k)
    /\ \A p \in Daemon : proc[p].pc = "enqueue" /\ proc[p].head > 1 =>
           \A j \in Sent : job[j].head = proc[p].head => Round(j) = proc[p].n

Ripe == task \in {"ready", "awaiting"} \/ \E p \in Daemon : proc[p].pc \in GatePcs
Reported(n) == {j \in At(n) : job[j].dec # "none"}
AllBy(h) == \A v \in plan.reviewers : ApprovedBy(v, h)

GateInv ==
    Ripe /\ plan.reviewers # {} =>
        /\ branch.tip = 1 => Reported(1) # {}
        /\ \A j \in Reviews :
              job[j].st = "queued" /\ IsLatest(Round(j)) /\ job[j].head = branch.tip
                  => Reported(Round(j)) # {}
        /\ Captured(branch.tip) => AllBy(branch.tip)

CIPassed(h) == ci[h] = "green" \/ (ci[h] = "none" /\ Waited(h))

Passed(me) == ~me.human /\ \/ me.pc \in {"fresh", "merge"}
                           \/ me.pc = "checkout" /\ me.pull.st \notin {"merged", "closed"}

VetInv ==
    \A p \in Procs : Passed(proc[p]) /\ proc[p].pull.head = branch.tip =>
        plan.reviewers # {} /\ AllBy(branch.tip) /\ CIPassed(branch.tip)

IInv == Base /\ DaemonInv /\ RoundInv /\ GateInv /\ VetInv
-----------------------------------------------------------------------------
(* Steps of the actors *)

\* What a step may do to the rows of reviews: withdraw some, add one, or record
\* what one concludes.
RowsKept ==
    \A j \in Reviews :
        /\ job'[j].head = job[j].head /\ job'[j].dec = job[j].dec
        /\ job'[j].st = "none" <=> job[j].st = "none"
        /\ job'[j].st = "queued" => job[j].st = "queued"
Added(p, v) ==
    LET j == <<"review", proc[p].n, v>>
    IN  /\ proc[p].pc = "enqueue" /\ j \in Reviews /\ ~Seen(j) /\ UNCHANGED <<branch, task>>
        /\ job'[j].st = "queued" /\ job'[j].head = proc[p].head /\ job'[j].dec = "none"
        /\ \A k \in Reviews \ {j} : job'[k] = job[k]
Decided(j) ==
    /\ job[j].st = "queued" /\ job'[j].st = "done" /\ job'[j].head = job[j].head
    /\ proc[Worker].pc = "idle" /\ proc[Poll].pc = "idle"
    /\ branch'.tip = branch.tip /\ UNCHANGED task
    /\ \A k \in Reviews \ {j} : job'[k] = job[k]
RowsPath ==
    \/ RowsKept
    \/ \E p \in Procs : \E v \in Reviewers : Added(p, v)
    \/ \E j \in Reviews : Decided(j)

\* It is the gate that merges without being asked.
Merges(p) ==
    /\ proc[p].pc = "merge" /\ ~proc[p].human
    /\ host.st = "open" /\ proc[p].pull.head = host.head
HostPath == host'.by = "auto" => host.by = "auto" \/ \E p \in Procs : Merges(p)

\* What CI has passed it has passed, unless a look at another head restarts the
\* wait for CI.
CIPath ==
    \A h : CIPassed(h) => CIPassed(h)' \/ \E p \in Procs : proc[p].pc = "vet" /\ proc[p].pull.head # h

\* Actor p goes on to a state in order.
Moved(p) ==
    \E me \in Local : /\ proc' = [proc EXCEPT ![p] = me]
                      /\ Well(plan, Limit', Placed, p, me)

\* How actor p comes to the gate, to a round of reviews, past the gate's checks.
Path(p) ==
    LET me == proc[p]
        nu == proc'[p]
    IN  /\ nu.pc \in GatePcs => \/ me.pc \in GatePcs \/ task \in {"ready", "awaiting"}
                                \/ plan.reviewers = {}
                                \/ me.pc = "advance" /\ Route(me.job) = "gate"
        /\ nu.pc = "round" => me.pc = "opened" /\ task' = "pr_open"
        /\ nu.pc = "enqueue" => /\ task' = task /\ nu.head = me.head
                               /\ \/ me.pc = "enqueue" /\ nu.n = me.n
                                  \/ me.pc = "round" /\ nu.n \in NextRound(me.head) /\ job' = job
        /\ Passed(nu) => /\ nu.pull = me.pull
                         /\ \/ Passed(me)
                            \/ /\ me.pc = "vet" /\ Captured(me.pull.head)
                               /\ (me.pull.head \in Heads => CIPassed(me.pull.head))
                               /\ UNCHANGED <<branch, obs, ci>>

\* How a task comes to the gate
TaskPath(p) == task' \in {"ready", "awaiting"} =>
                  task \in {"ready", "awaiting"} \/ proc[p].pc \in GatePcs

Stored == /\ StoreOK' /\ plan' = plan /\ branch'.tip >= branch.tip
          /\ HostInv' /\ RowInv' /\ Sent \subseteq Sent' /\ Placed \subseteq Placed'
          /\ (plan.follow => RowsPath) /\ HostPath /\ CIPath

SameRows ==
    /\ job' \in [Jobs -> Row]
    /\ \A j \in Jobs : /\ job'[j].st = job[j].st /\ job'[j].head = job[j].head
                       /\ job'[j].dec = job[j].dec
                       /\ job'[j].adv = "due" => job[j].adv = "due"

LEMMA Constants ==
    /\ MaxHead \in Nat /\ 1 \in Heads /\ 0 \in SomeHead /\ Heads \subseteq SomeHead
    /\ Heads \subseteq Nat /\ SomeHead \subseteq Nat /\ Stray \in Nat /\ Stray \in SomeHead
    /\ \A h \in SomeHead : h <= Stray
BY PlansAssumption DEF Heads, SomeHead, Stray

LEMMA JobsApart ==
    /\ First \in Jobs /\ First \in Fixes /\ Jobs = Reviews \cup Fixes
    /\ \A j \in Reviews : j \notin Fixes /\ Round(j) \in Heads /\ Agent(j) \in Reviewers
                          /\ j = <<"review", Round(j), Agent(j)>>
BY PlansAssumption DEF First, Jobs, Reviews, Fixes, Round, Agent, Heads

LEMMA IdleWell ==
    /\ Idle \in Local
    /\ \A pl, S, p : \A h \in Nat : Well(pl, h, S, p, Idle)
<1>1. Idle \in Local
  BY Constants, JobsApart DEF Idle, Local, Listing, Senders, Mirrors
<1>2. ASSUME NEW pl, NEW S, NEW p, NEW h \in Nat PROVE Well(pl, h, S, p, Idle)
  BY <1>2 DEF Idle, Well, FgWell, PollWell, Calls, GatePcs, TriggerPcs, HeadPcs, FinalPcs
<1> QED BY <1>1, <1>2

LEMMA WellGrows ==
    ASSUME NEW pl, NEW h \in Nat, NEW g \in Nat, h <= g, NEW S, NEW T, S \subseteq T, NEW p,
           NEW me \in Local, Well(pl, h, S, p, me)
    PROVE  Well(pl, g, T, p, me)
<1>1. me.head \in Nat /\ me.pull.head \in Nat /\ h \in Nat /\ g \in Nat
  BY Constants DEF Local, Mirrors
<1> QED BY <1>1 DEF Well, FgWell, PollWell

\* The bound on heads
LEMMA Limits ==
    ASSUME Base
    PROVE  /\ branch.tip \in Heads /\ host.head \in Heads /\ branch.tip \in Nat /\ host.head \in Nat
           /\ Limit \in Nat /\ Limit \in SomeHead /\ branch.tip <= Limit /\ host.head <= Limit
           /\ Limit >= 1 /\ host.head >= 1
<1>1. branch.tip \in Heads /\ host.head \in Heads /\ branch.tip \in Nat /\ host.head \in Nat
  BY Constants DEF Base, TypeOK, StoreOK, Branches, Hosts
<1>2. host.head <= branch.tip /\ branch.tip <= Stray /\ branch.tip \in SomeHead
      /\ branch.tip >= 1 /\ host.head >= 1
  BY <1>1, Constants DEF Base, HostInv, Heads
<1>3. Limit \in Nat /\ Limit \in SomeHead /\ branch.tip <= Limit
  BY <1>1, <1>2, Constants DEF Limit
<1> QED BY <1>1, <1>2, <1>3

LEMMA LimitStill ==
    ASSUME Base, plan' = plan, branch'.tip = branch.tip
    PROVE  Limit' = Limit /\ Limit' \in Nat /\ Limit' >= Limit
<1>1. Limit' = Limit
  BY DEF Limit
<1> QED BY <1>1, Limits

\* Where a call returns to
LEMMA AfterType ==
    ASSUME NEW me \in Local, NEW res, me.ret \in Rets
    PROVE  After(me, res) \in {"store", "drive", "comments", "asked", "readvance", "promote",
                               "close", "closed", "retry", "idle"}
BY DEF After, Rets
LEMMA FinishKeeps ==
    ASSUME Base, NEW p \in Procs, proc[p].pc \in Calls, NEW res, NEW jobs \in [Jobs -> Row],
           Finish(p, res, jobs),
           plan' = plan, Limit' \in Nat, Limit' >= Limit
    PROVE  /\ Moved(p) /\ Path(p)
           /\ proc'[p].pc \in Listing \cup {"close"} /\ ~proc'[p].human
           /\ p # Poll => proc'[p].pc = "idle"
           /\ job' \in [Jobs -> Row]
           /\ \A j \in Jobs : /\ job'[j].st = jobs[j].st /\ job'[j].head = jobs[j].head
                              /\ job'[j].dec = jobs[j].dec
                              /\ job'[j].adv = "due" => jobs[j].adv = "due"
<1> DEFINE me == proc[p]
           next == After(me, res)
           R == /\ Moved(p) /\ proc'[p].pc \in Listing \cup {"close"} /\ ~proc'[p].human
                /\ p # Poll => proc'[p].pc = "idle"
                /\ job' \in [Jobs -> Row]
                /\ \A j \in Jobs : /\ job'[j].st = jobs[j].st /\ job'[j].head = jobs[j].head
                                   /\ job'[j].dec = jobs[j].dec
                                   /\ job'[j].adv = "due" => jobs[j].adv = "due"
<1>1. /\ me \in Local /\ Well(plan, Limit', Placed, p, me) /\ host.head \in SomeHead
      /\ host.head \in Nat /\ host.head <= Limit'
  <2>1. me \in Local /\ Well(plan, Limit, Placed, p, me)
    BY DEF Base, TypeOK, ActorInv
  <2>2. host.head \in SomeHead /\ host.head \in Nat /\ Limit \in Nat /\ host.head <= Limit
    BY Constants, Limits
  <2> QED BY <2>1, <2>2, WellGrows
<1>2. ASSUME p # Poll PROVE R
  <2>1. /\ proc' = [proc EXCEPT ![p] = Idle]
        /\ job' = IF res = "err" THEN jobs ELSE [jobs EXCEPT ![me.job].adv = "done"]
    BY <1>2 DEF Finish, Set
  <2>2. me.job \in Jobs
    BY <1>1 DEF Local
  <2>3. proc'[p] = Idle /\ Moved(p)
    BY <1>1, <2>1, IdleWell DEF Moved, Base, TypeOK
  <2>4. job' \in [Jobs -> Row] /\ \A j \in Jobs :
                /\ job'[j].st = jobs[j].st /\ job'[j].head = jobs[j].head
                /\ job'[j].dec = jobs[j].dec
                /\ job'[j].adv = "due" => jobs[j].adv = "due"
    BY <2>1, <2>2 DEF Row
  <2> QED BY <2>3, <2>4, <1>2 DEF Idle, Listing
<1>3. ASSUME p = Poll PROVE R
  <2>0. job' = jobs
    BY <1>3 DEF Finish
  <2>1. next \in {"store", "drive", "comments", "asked", "readvance", "promote",
                  "close", "closed", "retry", "idle"}
    BY <1>1, <1>3, AfterType DEF Well, PollWell
  <2>2. me.head >= 1 /\ me.head \in SomeHead /\ me.head <= Limit' /\ me.open \in BOOLEAN
        /\ me.memo \in SUBSET Reviews /\ me.memo \subseteq Placed
    BY <1>1, <1>3 DEF Well, PollWell, Local, Calls, GatePcs, TriggerPcs, FinalPcs, HeadPcs
  <2>3. next = "readvance" => me.todo \subseteq Placed \cap Reviews
    <3>1. next = "readvance" => me.ret = "readvance"
      BY DEF After
    <3> QED BY <3>1, <1>1, <1>3 DEF Well, PollWell
  <2>4. ASSUME NEW pc \in Listing \cup {"close"}, pc # "idle"
        PROVE  /\ Listed(me, pc) \in Local
               /\ \A ret \in Rets : \A pull \in [st : {"merged"}, head : {host.head}] :
                    [Listed(me, pc) EXCEPT !.ret = ret, !.pull = pull] \in Local
               /\ \A todo \in SUBSET Reviews : [Listed(me, pc) EXCEPT !.todo = todo] \in Local
    <3>1. Listed(me, pc) \in Local
      <4>1. pc \in Listing \cup Calls
        BY <2>4 DEF Calls
      <4> HIDE DEF me
      <4> QED BY <4>1, <2>2, IdleWell DEF Listed, Local
    <3>2. \A ret \in Rets : \A pull \in [st : {"merged"}, head : {host.head}] :
             [Listed(me, pc) EXCEPT !.ret = ret, !.pull = pull] \in Local
      BY <3>1, <1>1 DEF Local, Mirrors
    <3>3. \A todo \in SUBSET Reviews : [Listed(me, pc) EXCEPT !.todo = todo] \in Local
      BY <3>1 DEF Local
    <3> QED BY <3>1, <3>2, <3>3
  <2>5. DEFINE r == [Listed(me, next) EXCEPT !.todo = me.todo]
               c == [Listed(me, next) EXCEPT !.ret = "retry",
                                             !.pull = [st |-> "merged", head |-> host.head]]
  <2>a. next \in Listing \ {"idle", "readvance"} =>
           /\ Listed(me, next) \in Local /\ Well(plan, Limit', Placed, p, Listed(me, next))
           /\ Listed(me, next).pc = next /\ ~Listed(me, next).human
    <3>1. SUFFICES ASSUME next \in Listing \ {"idle", "readvance"}
          PROVE  /\ Listed(me, next) \in Local /\ Well(plan, Limit', Placed, p, Listed(me, next))
                 /\ Listed(me, next).pc = next /\ ~Listed(me, next).human
      OBVIOUS
    <3>2. Listed(me, next) \in Local
      BY <2>4, <3>1
    <3>3. next \notin Calls /\ next # "readvance"
      BY <3>1 DEF Listing, Calls, GatePcs, TriggerPcs, FinalPcs, HeadPcs
    <3>4. /\ Well(plan, Limit', Placed, p, Listed(me, next))
          /\ Listed(me, next).pc = next /\ ~Listed(me, next).human
      <4> HIDE DEF next
      <4> QED BY <1>1, <1>3, <2>2, <3>3 DEF Listed, Idle, Well, PollWell, Fg, Poll, Calls, GatePcs, TriggerPcs, FinalPcs, HeadPcs
    <3> QED BY <3>2, <3>4
  <2>6. next = "readvance" => r \in Local /\ Well(plan, Limit', Placed, p, r) /\ r.pc = next
                              /\ ~r.human
    <3>1. SUFFICES ASSUME next = "readvance"
          PROVE r \in Local /\ Well(plan, Limit', Placed, p, r) /\ r.pc = next /\ ~r.human
      OBVIOUS
    <3>2. r \in Local
      BY <2>3, <2>4, <3>1 DEF Listing
    <3>3. Well(plan, Limit', Placed, p, r) /\ r.pc = next /\ ~r.human
      BY <1>1, <1>3, <2>2, <2>3, <3>1 DEF Listed, Idle, Well, PollWell, Calls, GatePcs, TriggerPcs, FinalPcs, HeadPcs, Fg, Poll
    <3> QED BY <3>2, <3>3
  <2>7. next = "close" => c \in Local /\ Well(plan, Limit', Placed, p, c) /\ c.pc = next /\ ~c.human
    <3>1. SUFFICES ASSUME next = "close"
          PROVE c \in Local /\ Well(plan, Limit', Placed, p, c) /\ c.pc = next /\ ~c.human
      OBVIOUS
    <3>2. c \in Local
      BY <2>4, <3>1 DEF Rets
    <3>3. Well(plan, Limit', Placed, p, c) /\ c.pc = next /\ ~c.human
      BY <1>1, <1>3, <2>2, <3>1 DEF Listed, Idle, Well, PollWell, Calls, GatePcs, TriggerPcs, FinalPcs, HeadPcs, Fg, Poll, Rets
    <3> QED BY <3>2, <3>3
  <2>8. \E nu \in Local : /\ proc' = [proc EXCEPT ![p] = nu] /\ Well(plan, Limit', Placed, p, nu)
                          /\ nu.pc \in Listing \cup {"close"} /\ ~nu.human
    <3>1. CASE next = "idle"
      <4>1. proc' = [proc EXCEPT ![p] = Idle]
        BY <3>1, <1>3 DEF Finish, Set
      <4> QED BY <4>1, IdleWell, <1>1 DEF Idle, Listing
    <3>2. CASE next = "readvance"
      <4>1. proc' = [proc EXCEPT ![p] = r]
        BY <3>2, <1>3 DEF Finish, Set
      <4> QED BY <4>1, <3>2, <2>6 DEF Listing
    <3>3. CASE next = "close"
      <4>1. proc' = [proc EXCEPT ![p] = c]
        BY <3>3, <1>3 DEF Finish, Set
      <4> QED BY <4>1, <3>3, <2>7
    <3>4. CASE next \notin {"idle", "readvance", "close"}
      <4>1. proc' = [proc EXCEPT ![p] = Listed(me, next)]
        BY <3>4, <1>3 DEF Finish, Set
      <4>2. next \in Listing \ {"idle", "readvance"}
        BY <3>4, <2>1 DEF Listing
      <4> QED BY <4>1, <4>2, <2>a
    <3> QED BY <3>1, <3>2, <3>3, <3>4
  <2> QED BY <2>0, <2>8, <1>3 DEF Moved, Base, TypeOK
<1>4. R
  BY <1>2, <1>3
<1>5. Path(p)
  BY <1>4 DEF Path, Passed, Listing, GatePcs
<1> QED BY <1>4, <1>5

LEMMA ReturnKeeps ==
    ASSUME Base, NEW p \in Procs, proc[p].pc \in Calls, NEW res, Return(p, res),
           plan' = plan, branch'.tip = branch.tip
    PROVE  /\ Moved(p) /\ Path(p) /\ SameRows
           /\ proc'[p].pc \in Listing \cup {"close"} /\ p # Poll => proc'[p].pc = "idle"
<1>1. job \in [Jobs -> Row] /\ Limit' \in Nat /\ Limit' >= Limit
  BY LimitStill DEF Base, TypeOK, StoreOK
<1> QED BY <1>1, FinishKeeps DEF Return, SameRows

LEMMA SameRowsKept ==
    ASSUME Base, SameRows, plan' = plan, Limit' \in Nat, Limit' >= Limit
    PROVE  RowInv' /\ Sent' = Sent /\ Placed' = Placed /\ RowsKept
<1>1. Limit \in Nat /\ \A j \in Jobs : job[j].head \in Nat
  BY Constants, Limits DEF Base, TypeOK, StoreOK, Row
<1>2. Sent' = Sent
  BY JobsApart DEF SameRows, Sent, Seen
<1>a. Placed' = Placed
  BY DEF SameRows, Placed, Seen
<1>3. RowsKept
  BY JobsApart DEF SameRows, RowsKept
<1>4. RowInv'
  <2>1. \A j \in Jobs : job'[j].head <= Limit'
    BY <1>1 DEF RowInv, SameRows, Base
  <2>2. \A j \in Jobs : job'[j].dec # "none" \/ job'[j].adv = "due" => job'[j].st = "done"
    BY DEF RowInv, SameRows, Base
  <2>3. \A j \in Sent : Agent(j) \in plan.reviewers /\ job'[j].head >= 1
    BY JobsApart DEF RowInv, SameRows, Base, Sent
  <2> QED BY <1>2, <2>1, <2>2, <2>3 DEF RowInv
<1> QED BY <1>2, <1>a, <1>3, <1>4

LEMMA CIStill == UNCHANGED <<ci, obs>> => CIPath
BY DEF CIPath, CIPassed, Waited

\* Most steps leave the host, the head of the branch and the rows alone.
LEMMA StoredStill ==
    ASSUME Base, SameRows, plan' = plan, host' = host, moves' \subseteq Moves,
           ci' \in [Heads -> {"none", "pending", "green", "red"}],
           obs' \in [head : SomeHead, over : BOOLEAN], task' \in TaskStates,
           parked' \in {"none", "switch", "miss"}, mirror' \in Mirrors,
           branch' \in Branches, branch'.tip = branch.tip, auto' \in BOOLEAN, ask' \in BOOLEAN,
           UNCHANGED <<ci, obs>> \/ CIPath
    PROVE  Stored
<1>1. branch'.tip >= branch.tip /\ HostInv'
  BY Limits DEF Base, HostInv
<1>2. RowInv' /\ Sent' = Sent /\ Placed' = Placed /\ RowsPath
  BY LimitStill, SameRowsKept DEF RowsPath
<1>3. StoreOK'
  BY DEF Base, TypeOK, StoreOK, SameRows
<1>4. HostPath /\ CIPath
  BY CIStill DEF HostPath
<1> QED BY <1>1, <1>2, <1>3, <1>4 DEF Stored

\* What the store's variables are typed as, for the steps that leave them alone
LEMMA StoreTypes ==
    ASSUME Base
    PROVE  /\ UNCHANGED ci => ci' \in [Heads -> {"none", "pending", "green", "red"}]
           /\ UNCHANGED obs => obs' \in [head : SomeHead, over : BOOLEAN]
           /\ UNCHANGED task => task' \in TaskStates
           /\ UNCHANGED parked => parked' \in {"none", "switch", "miss"}
           /\ UNCHANGED mirror => mirror' \in Mirrors
           /\ UNCHANGED branch => branch' \in Branches /\ branch'.tip = branch.tip
           /\ UNCHANGED auto => auto' \in BOOLEAN
           /\ UNCHANGED ask => ask' \in BOOLEAN
           /\ UNCHANGED moves => moves' \subseteq Moves
           /\ UNCHANGED job => SameRows
BY DEF Base, TypeOK, StoreOK, SameRows

\* The lock and the worktree may change while the head of the branch stays.
LEMMA BranchTypes ==
    ASSUME Base
    PROVE  /\ branch \in Branches
           /\ \A l \in BOOLEAN, t \in SomeHead :
                  LET b == [branch EXCEPT !.lock = l, !.tree = t]
                  IN  b \in Branches /\ b.tip = branch.tip
           /\ \A l \in BOOLEAN : LET b == [branch EXCEPT !.lock = l]
                                 IN  b \in Branches /\ b.tip = branch.tip
           /\ \A t \in SomeHead : LET b == [branch EXCEPT !.tree = t]
                                  IN  b \in Branches /\ b.tip = branch.tip
BY DEF Base, TypeOK, StoreOK, Branches

LEMMA Where ==
    ASSUME Base, NEW p \in Procs
    PROVE  /\ proc[p] \in Local /\ Well(plan, Limit, Placed, p, proc[p]) /\ Limit \in Nat
           /\ proc[p].pc \in Calls \ (TriggerPcs \cup {"adopt", "save"})
                  => p # Fg \/ plan.reviewers = {}
<1>1. proc[p] \in Local /\ Well(plan, Limit, Placed, p, proc[p])
  BY DEF Base, TypeOK, ActorInv
<1>2. proc[p].pc \in Calls \ (TriggerPcs \cup {"adopt", "save"}) => p # Fg \/ plan.reviewers = {}
  BY <1>1 DEF Well, FgWell, Calls, GatePcs, TriggerPcs, FinalPcs
<1> QED BY <1>1, <1>2, Limits

LEMMA GoKeeps ==
    ASSUME Base, NEW p \in Procs, proc[p].pc \in Calls,
           NEW pc \in Calls \ (HeadPcs \cup {"advance"}),
           Go(p, pc), Limit' \in Nat, Limit' >= Limit,
           p # Fg \/ plan.reviewers = {} \/ pc = "baseline"
    PROVE  Moved(p) /\ proc'[p] = [proc[p] EXCEPT !.pc = pc]
<1> DEFINE me == proc[p]
           nu == [me EXCEPT !.pc = pc]
<1>1. me \in Local /\ Well(plan, Limit, Placed, p, me) /\ Limit \in Nat
  BY Where
<1>2. nu \in Local
  BY <1>1 DEF Local
<1>3. nu.pc = pc /\ nu.job = me.job /\ nu.head = me.head /\ nu.pull = me.pull /\ nu.ret = me.ret
      /\ nu.todo = me.todo /\ nu.memo = me.memo
  BY <1>1 DEF Local
<1>4. pc # "idle" /\ pc # "readvance" /\ me.pc # "idle" /\ me.pc \in Calls
      /\ pc \notin HeadPcs /\ pc \notin FinalPcs /\ pc # "enqueue" /\ pc # "advance"
  BY DEF Calls, GatePcs, TriggerPcs, HeadPcs, FinalPcs
<1>5. me.head \in Nat /\ me.pull.head \in Nat
  BY <1>1, Constants DEF Local, Mirrors
<1>6. Well(plan, Limit', Placed, p, nu)
  <2>1. nu.head <= Limit' /\ nu.pull.head <= Limit'
    BY <1>1, <1>3, <1>5 DEF Well
  <2> HIDE DEF nu, me
  <2> QED BY <1>1, <1>3, <1>4, <2>1 DEF Well, FgWell, PollWell, TriggerPcs
<1>7. proc' = [proc EXCEPT ![p] = nu]
  BY DEF Go, Set
<1> QED BY <1>2, <1>6, <1>7 DEF Moved, Base, TypeOK

\* A step of the engine that goes on to pc
LEMMA GoPath ==
    ASSUME NEW p, NEW pc, NEW me \in Local, proc[p] = me, proc'[p] = [me EXCEPT !.pc = pc],
           pc \notin {"round", "enqueue", "checkout", "fresh", "merge"},
           pc \in GatePcs => me.pc \in GatePcs
    PROVE  Path(p)
<1>1. proc'[p].pc = pc
  BY DEF Local
<1> QED BY <1>1 DEF Path, Passed
-----------------------------------------------------------------------------
(* The engine's steps *)

Kept(p) == Moved(p) /\ Path(p) /\ TaskPath(p) /\ Stored

LEMMA RouteFacts ==
    ASSUME Base, NEW j \in Jobs
    PROVE  /\ Route(j) \in {"done", "block", "finalize", "changes", "gate", "revisit"}
           /\ Route(j) = "finalize" => j \in Fixes
           /\ j \in Reviews => Route(j) # "finalize"
<1>1. Route(j) \in {"done", "block", "finalize", "changes", "gate", "revisit"}
  BY DEF Route
<1>2. Route(j) = "finalize" => j \in Fixes
  BY DEF Route
<1>3. j \in Reviews => Route(j) # "finalize"
  BY <1>2, JobsApart
<1> QED BY <1>1, <1>2, <1>3

LEMMA AdvanceKeeps == ASSUME Base, NEW p \in Procs, Advance(p) PROVE Kept(p)
<1> DEFINE me == proc[p]
           j == me.job
           r == Route(j)
           nu == [me EXCEPT !.pc = r, !.head = job[j].head,
                            !.from = IF j \in Fixes THEN "lead" ELSE "none"]
<1>1. me \in Local /\ Well(plan, Limit, Placed, p, me) /\ Limit \in Nat /\ me.pc = "advance"
      /\ j \in Jobs /\ j \in Placed
  BY Where DEF Advance, Local, Well
<1>2. UNCHANGED <<plan, host, ci, obs, task, parked, mirror, branch, auto, ask, moves>>
  BY DEF Advance
<1>a. Limit' = Limit
  BY <1>2, LimitStill
<1>3. TaskPath(p)
  BY <1>2 DEF TaskPath
<1>4. SameRows /\ Moved(p) /\ Path(p)
  <2>1. CASE r = "done"
    <3>1. Return(p, "ok")
      BY <2>1 DEF Advance
    <3> QED BY <3>1, <1>1, <1>2, ReturnKeeps DEF Calls
  <2>2. CASE r # "done"
    <3>1. proc' = [proc EXCEPT ![p] = nu] /\ job' = job
      BY <2>2 DEF Advance, Set
    <3>2. r \in {"block", "finalize", "changes", "gate", "revisit"}
      BY <1>1, <2>2, RouteFacts
    <3>3. job[j].head \in SomeHead /\ job[j].head \in Nat /\ job[j].head <= Limit
          /\ me.pull.head \in Nat /\ job[j].head >= 1
      BY <1>1, Constants DEF Base, RowInv, TypeOK, StoreOK, Row, Local, Mirrors, Placed
    <3>4. nu \in Local
      <4>1. r \in Calls
        BY <3>2 DEF Calls, GatePcs, TriggerPcs, FinalPcs
      <4>2. (IF j \in Fixes THEN "lead" ELSE "none") \in Senders
        BY DEF Senders
      <4> HIDE DEF r, j
      <4> QED BY <1>1, <3>3, <4>1, <4>2 DEF Local
    <3>5. nu.pc = r /\ nu.head = job[j].head /\ nu.pull = me.pull /\ nu.todo = me.todo /\ nu.job = j
          /\ nu.ret = me.ret /\ nu.memo = me.memo /\ nu.human = me.human
      BY <1>1 DEF Local
    <3>6. p = Fg => plan.reviewers = {}
      BY <1>1, Where DEF Calls, TriggerPcs
    <3>7. p = Poll => /\ j \in Placed \cap Reviews /\ r # "finalize" /\ me.ret = "readvance"
                      /\ me.todo \subseteq Placed \cap Reviews /\ me.memo \subseteq Placed
      <4>1. p = Poll => /\ j \in Placed \cap Reviews /\ me.ret = "readvance"
                        /\ me.todo \subseteq Placed \cap Reviews /\ me.memo \subseteq Placed
        BY <1>1 DEF Well, PollWell, Calls
      <4> QED BY <4>1, <1>1, RouteFacts
    <3>8. r = "finalize" => j \in Fixes
      BY <1>1, RouteFacts
    <3>9. Well(plan, Limit', Placed, p, nu)
      <4> HIDE DEF nu, r, j, me
      <4> QED BY <1>1, <1>a, <3>2, <3>3, <3>5, <3>6, <3>7, <3>8
              DEF Well, FgWell, PollWell, TriggerPcs, Rets, HeadPcs, FinalPcs
    <3>10. Moved(p) /\ proc'[p] = nu
      BY <3>1, <3>4, <3>9 DEF Moved, Base, TypeOK
    <3>11. Path(p)
      BY <1>1, <3>2, <3>5, <3>10 DEF Path, Passed, GatePcs
    <3> QED BY <3>1, <3>10, <3>11, StoreTypes
  <2> QED BY <2>1, <2>2
<1>5. Stored
  BY <1>2, <1>4, StoredStill, StoreTypes
<1> QED BY <1>3, <1>4, <1>5 DEF Kept

\* The steps that end a call
LEMMA EndKeeps ==
    ASSUME Base, NEW p \in Procs, Block(p) \/ Revisit(p) \/ Baseline(p) \/ Merged(p)
    PROVE  Kept(p)
<1>1. UNCHANGED <<plan, host, ci, obs, parked, branch, auto, ask, moves>>
  BY DEF Block, Revisit, Baseline, Merged
<1>2. proc[p].pc \in Calls /\ \E res : Return(p, res)
  BY DEF Block, Revisit, Baseline, Merged, Calls, TriggerPcs
<1>3. Moved(p) /\ Path(p) /\ SameRows
  BY <1>1, <1>2, ReturnKeeps
<1>4. task' \in TaskStates /\ TaskPath(p)
  BY DEF Block, Revisit, Baseline, Merged, TaskPath, TaskStates, Candidates, Waiting, Base, TypeOK,
         StoreOK
<1>5. mirror' \in Mirrors
  <2>1. proc[p].head \in SomeHead
    BY Where DEF Local
  <2> QED BY <2>1 DEF Block, Revisit, Baseline, Merged, Base, TypeOK, StoreOK, Mirrors
<1>6. Stored
  BY <1>1, <1>3, <1>4, <1>5, StoredStill, StoreTypes
<1> QED BY <1>3, <1>4, <1>6 DEF Kept

LEMMA FixKeeps == ASSUME Base, NEW p \in Procs, DispatchFix(p) PROVE Kept(p)
<1> DEFINE j == proc[p].job
           f == <<"fix", Round(j), Agent(j)>>
           new == [NoJob EXCEPT !.st = "queued", !.head = job[j].head, !.from = Agent(j)]
           enq == [job EXCEPT ![f] = new]
<1>1. /\ UNCHANGED <<plan, host, ci, obs, task, parked, mirror, auto, ask, moves>>
      /\ branch' = [branch EXCEPT !.lock = TRUE] /\ proc[p].pc = "fix" /\ proc[p].pc \in Calls
  BY DEF DispatchFix, Calls
<1>2. branch' \in Branches /\ branch'.tip = branch.tip /\ TaskPath(p)
  BY <1>1, BranchTypes DEF TaskPath
<1>3. CASE \E res : Return(p, res)
  <2>1. Moved(p) /\ Path(p) /\ SameRows
    BY <1>1, <1>2, <1>3, ReturnKeeps
  <2>2. Stored
    BY <1>1, <1>2, <2>1, StoredStill, StoreTypes
  <2> QED BY <1>2, <2>1, <2>2 DEF Kept
<1>4. CASE ~Seen(f) /\ Finish(p, "ok", enq)
  <2>1. j \in Jobs /\ f \in Fixes /\ f \in Jobs /\ Agent(j) \in Senders /\ f \notin Reviews
    <3>1. j \in Jobs
      BY Where DEF Local
    <3>2. f \in Fixes /\ Agent(j) \in Senders
      BY <3>1 DEF Jobs, Fixes, Reviews, First, Round, Agent, Senders
    <3> QED BY <3>1, <3>2, JobsApart
  <2>2. job \in [Jobs -> Row] /\ job[j] \in Row /\ new \in Row /\ new.st = "queued"
        /\ new.head = job[j].head /\ new.dec = "none" /\ new.adv = "none"
    <3>1. job \in [Jobs -> Row] /\ job[j] \in Row
      BY <2>1 DEF Base, TypeOK, StoreOK
    <3>2. job[j].head \in SomeHead
      BY <3>1 DEF Row
    <3> HIDE DEF j
    <3> QED BY <2>1, <3>1, <3>2 DEF NoJob, Row
  <2>3. enq \in [Jobs -> Row] /\ enq[f] = new /\ \A k \in Jobs \ {f} : enq[k] = job[k]
    <3> HIDE DEF new, f, j
    <3> QED BY <2>1, <2>2
  <2>4. /\ Moved(p) /\ Path(p) /\ job' \in [Jobs -> Row]
        /\ \A k \in Jobs : /\ job'[k].st = enq[k].st /\ job'[k].head = enq[k].head
                           /\ job'[k].dec = enq[k].dec
                           /\ job'[k].adv = "due" => enq[k].adv = "due"
    <3>1. Limit' \in Nat /\ Limit' >= Limit
      BY <1>1, <1>2, LimitStill
    <3> HIDE DEF enq
    <3> QED BY <1>1, <1>4, <2>3, <3>1, FinishKeeps
  <2> HIDE DEF new, enq, f, j
  <2>5. \A k \in Reviews : k \in Jobs /\ enq[k] = job[k]
    BY <2>1, <2>3, JobsApart
  <2>6. Sent' = Sent /\ RowsKept
    BY <2>4, <2>5 DEF Sent, Seen, RowsKept
  <2>7. Placed \subseteq Placed'
    BY <1>4, <2>3, <2>4 DEF Placed, Seen
  <2>8. RowInv'
    <3>1. \A k \in Jobs : enq[k].head <= Limit /\ (enq[k].dec # "none" \/ enq[k].adv = "due" => enq[k].st = "done")
      BY <2>1, <2>2, <2>3 DEF Base, RowInv
    <3>2. \A k \in Sent : Agent(k) \in plan.reviewers /\ job'[k].head >= 1
      BY <2>4, <2>5 DEF Base, RowInv, Sent
    <3>3. Limit' = Limit
      BY <1>1, <1>2, LimitStill
    <3>4. \A k \in Jobs : job'[k].dec # "none" \/ job'[k].adv = "due" => job'[k].st = "done"
      BY <2>4, <3>1
    <3> QED BY <1>1, <2>4, <2>6, <3>1, <3>2, <3>3, <3>4 DEF RowInv
  <2>9. StoreOK' /\ HostInv' /\ branch'.tip >= branch.tip
    BY <1>1, <1>2, <2>4, Limits DEF Base, TypeOK, StoreOK, HostInv
  <2>10. HostPath /\ CIPath /\ RowsPath
    BY <1>1, <2>6, CIStill DEF HostPath, RowsPath
  <2> QED BY <1>1, <1>2, <2>4, <2>6, <2>7, <2>8, <2>9, <2>10 DEF Kept, Stored
<1> QED BY <1>1, <1>3, <1>4 DEF DispatchFix

\* The host and the head of the branch may move.
LEMMA StoredMoved ==
    ASSUME Base, SameRows, plan' = plan, host' \in Hosts, branch' \in Branches,
           branch'.tip >= branch.tip, HostInv', HostPath, UNCHANGED <<ci, obs>>,
           task' \in TaskStates, parked' \in {"none", "switch", "miss"}, mirror' \in Mirrors,
           auto' \in BOOLEAN, ask' \in BOOLEAN, moves' \subseteq Moves
    PROVE  Stored /\ Limit' \in Nat /\ Limit' >= Limit
<1>1. branch.tip \in Nat /\ branch'.tip \in Nat /\ Stray \in Nat
  BY Constants, Limits DEF Branches
<1>2. Limit' \in Nat /\ Limit' >= Limit
  BY <1>1 DEF Limit
<1>3. RowInv' /\ Sent' = Sent /\ Placed' = Placed /\ RowsPath
  BY <1>2, SameRowsKept DEF RowsPath
<1>4. StoreOK' /\ CIPath
  BY CIStill DEF Base, TypeOK, StoreOK, SameRows
<1> QED BY <1>2, <1>3, <1>4 DEF Stored

\* The steps that only go on
LEMMA TurnKeeps ==
    ASSUME Base, NEW p \in Procs,
           Changes(p) \/ Reviewing(p) \/ Gate(p) \/ Record(p) \/ Unlock(p)
    PROVE  Kept(p)
<1> DEFINE me == proc[p]
<1>0. me \in Local
  BY Where
<1>1. UNCHANGED <<plan, host, ci, obs, parked, job, auto, ask, moves>>
  BY DEF Changes, Reviewing, Gate, Record, Unlock
<1>2. \E pc \in {"fix", "baseline", "ready", "pull", "park_switch", "unlock", "merged"} :
          /\ Go(p, pc) /\ me.pc \in Calls /\ (p # Fg \/ plan.reviewers = {} \/ pc = "baseline")
          /\ pc \in GatePcs => me.pc \in GatePcs
  <2>1. me.pc \in {"changes", "reviewing", "gate", "record", "unlock"}
    BY DEF Changes, Reviewing, Gate, Record, Unlock
  <2>2. me.pc \in Calls /\ (me.pc # "reviewing" => p # Fg \/ plan.reviewers = {})
    BY <2>1, Where DEF Calls, GatePcs, TriggerPcs
  <2> QED BY <2>1, <2>2 DEF Changes, Reviewing, Gate, Record, Unlock, GatePcs
<1>3. PICK pc \in {"fix", "baseline", "ready", "pull", "park_switch", "unlock", "merged"} :
          /\ Go(p, pc) /\ me.pc \in Calls /\ (p # Fg \/ plan.reviewers = {} \/ pc = "baseline")
          /\ pc \in GatePcs => me.pc \in GatePcs
  BY <1>2
<1>4. pc \in Calls \ (HeadPcs \cup {"advance"})
  BY DEF Calls, GatePcs, TriggerPcs, HeadPcs, FinalPcs
<1>7. task' \in TaskStates /\ TaskPath(p)
  BY DEF Changes, Reviewing, Gate, Record, Unlock, TaskPath, TaskStates, Candidates, Waiting, Base,
         TypeOK, StoreOK
<1>8. mirror' \in Mirrors /\ branch' \in Branches /\ branch'.tip = branch.tip
  <2>1. me.pull.head \in SomeHead
    BY <1>0 DEF Local, Mirrors
  <2>2. UNCHANGED mirror \/ mirror' = [st |-> "merged", head |-> me.pull.head]
    BY DEF Changes, Reviewing, Gate, Record, Unlock
  <2>3. mirror' \in Mirrors
    BY <2>1, <2>2, StoreTypes DEF Mirrors
  <2>4. branch.tree \in SomeHead /\ 0 \in SomeHead
    BY BranchTypes, Constants DEF Branches
  <2>5. UNCHANGED branch \/ \E tree \in SomeHead : branch' = [branch EXCEPT !.lock = FALSE, !.tree = tree]
    BY <2>4 DEF Changes, Reviewing, Gate, Record, Unlock
  <2> QED BY <2>3, <2>5, BranchTypes
<1>5. Moved(p) /\ proc'[p] = [me EXCEPT !.pc = pc]
  BY <1>0, <1>1, <1>3, <1>4, <1>8, GoKeeps, LimitStill
<1>6. Path(p)
  BY <1>0, <1>3, <1>5, GoPath
<1>9. Stored
  BY <1>1, <1>7, <1>8, StoredStill, StoreTypes
<1> QED BY <1>5, <1>6, <1>7, <1>9 DEF Kept

\* An actor with a head in hand goes on to another step of the kind.
LEMMA HeadMoves ==
    ASSUME Base, NEW p \in Procs, proc[p].pc \in HeadPcs, NEW pc \in HeadPcs \ {"enqueue", "finalize"},
           NEW h \in SomeHead, h >= 1, h <= Limit', Limit' \in Nat, Limit' >= Limit,
           pc \in FinalPcs => proc[p].pc \in FinalPcs,
           pc = "round" => proc[p].pc = "opened" /\ task' = "pr_open",
           proc' = [proc EXCEPT ![p] = [proc[p] EXCEPT !.pc = pc, !.head = h]]
    PROVE  Moved(p) /\ Path(p)
<1> DEFINE me == proc[p]
           nu == [me EXCEPT !.pc = pc, !.head = h]
<1>1. me \in Local /\ Well(plan, Limit, Placed, p, me) /\ Limit \in Nat /\ me.pull.head \in Nat
  BY Where, Constants DEF Local, Mirrors
<1>2. pc \in Calls /\ me.pc \in Calls /\ pc \notin {"idle", "readvance", "advance", "enqueue"}
  BY DEF Calls, TriggerPcs, HeadPcs, FinalPcs
<1>3. nu \in Local /\ nu.pc = pc /\ nu.head = h /\ nu.pull = me.pull /\ nu.job = me.job
      /\ nu.ret = me.ret /\ nu.todo = me.todo /\ nu.memo = me.memo
  BY <1>1, <1>2 DEF Local
<1>4. Well(plan, Limit', Placed, p, nu)
  <2>1. nu.pull.head <= Limit' /\ (pc \in FinalPcs => me.job \in Fixes) /\ me.pc \in HeadPcs
    BY <1>1, <1>3 DEF Well
  <2>2. p = Fg => FgWell(plan, nu)
    BY <1>1, <1>2, <1>3 DEF Well, FgWell, HeadPcs, FinalPcs, TriggerPcs
  <2>3. p = Poll => me.ret # "readvance" /\ pc \notin FinalPcs /\ PollWell(Placed, me)
    BY <1>1, <1>2 DEF Well, PollWell
  <2>4. p = Poll => PollWell(Placed, nu)
    <3> HIDE DEF nu, me
    <3> QED BY <1>2, <1>3, <2>3 DEF PollWell
  <2> HIDE DEF nu, me
  <2> QED BY <1>2, <1>3, <2>1, <2>2, <2>4 DEF Well
<1>5. Moved(p) /\ proc'[p] = nu
  BY <1>3, <1>4 DEF Moved, Base, TypeOK
<1>6. Path(p)
  <2> HIDE DEF nu
  <2> QED BY <1>2, <1>3, <1>5 DEF Path, Passed, GatePcs, HeadPcs, FinalPcs
<1> QED BY <1>5, <1>6

LEMMA OpenedKeeps == ASSUME Base, NEW p \in Procs, Opened(p) PROVE Kept(p)
<1> DEFINE me == proc[p]
<1>0. /\ me \in Local /\ Well(plan, Limit, Placed, p, me) /\ me.pc = "opened" /\ me.pc \in HeadPcs
      /\ "round" \in HeadPcs \ {"enqueue", "finalize"} /\ "round" \notin FinalPcs
  BY Where DEF Opened, HeadPcs, FinalPcs
<1>1. /\ UNCHANGED <<plan, host, ci, obs, parked, mirror, branch, job, auto, ask, moves>>
      /\ task' = "pr_open" /\ proc' = [proc EXCEPT ![p] = [me EXCEPT !.pc = "round"]]
  BY DEF Opened, Go, Set
<1>2. me.head \in SomeHead /\ me.head >= 1 /\ me.head <= Limit
      /\ [me EXCEPT !.pc = "round"] = [me EXCEPT !.pc = "round", !.head = me.head]
  BY <1>0 DEF Well, Local
<1>3. Limit' = Limit /\ Limit' \in Nat /\ Limit' >= Limit
  BY <1>1, LimitStill
<1>4. Moved(p) /\ Path(p)
  BY <1>0, <1>1, <1>2, <1>3, HeadMoves
<1>5. TaskPath(p)
  BY <1>1 DEF TaskPath
<1>6. Stored
  BY <1>1, StoredStill, StoreTypes DEF TaskStates, Candidates, Waiting
<1> QED BY <1>4, <1>5, <1>6 DEF Kept

LEMMA StartRoundKeeps == ASSUME Base, NEW p \in Procs, StartRound(p) PROVE Kept(p)
<1> DEFINE me == proc[p]
           gate == [me EXCEPT !.pc = "gate", !.base = TRUE]
           Starting(n) == [me EXCEPT !.pc = "enqueue", !.n = n, !.todo = plan.reviewers]
<1>0. /\ me \in Local /\ Well(plan, Limit, Placed, p, me) /\ me.pc = "round" /\ me.pc \in Calls
      /\ me.head >= 1
  BY Where DEF StartRound, Well, HeadPcs, Calls, TriggerPcs
<1>1. /\ UNCHANGED <<plan, host, ci, obs, task, parked, mirror, auto, ask, moves>>
      /\ branch' \in Branches /\ branch'.tip = branch.tip
  BY BranchTypes DEF StartRound
<1>a. Limit' = Limit
  BY <1>1, LimitStill
<1>2. SameRows => Stored /\ TaskPath(p)
  BY <1>1, StoredStill, StoreTypes DEF TaskPath
<1>3. CASE plan.reviewers = {}
  <2>1. proc' = [proc EXCEPT ![p] = gate] /\ SameRows
    BY <1>3, StoreTypes DEF StartRound, Set
  <2>2. gate \in Local /\ gate.pc = "gate" /\ gate.head = me.head /\ gate.pull = me.pull
        /\ gate.job = me.job /\ gate.ret = me.ret /\ gate.todo = me.todo /\ gate.memo = me.memo
    BY <1>0 DEF Local, Calls, GatePcs
  <2>3. Well(plan, Limit', Placed, p, gate)
    <3> HIDE DEF gate, me
    <3> QED BY <1>0, <1>a, <1>3, <2>2 DEF Well, FgWell, PollWell, HeadPcs, FinalPcs, Calls, GatePcs
  <2>4. Moved(p) /\ proc'[p] = gate
    BY <2>1, <2>2, <2>3 DEF Moved, Base, TypeOK
  <2>5. Path(p)
    BY <1>3, <2>2, <2>4 DEF Path, Passed
  <2> QED BY <1>2, <2>1, <2>4, <2>5 DEF Kept
<1>4. ASSUME plan.reviewers # {}, NEW n \in NextRound(me.head) \cap Heads, UNCHANGED job,
             proc' = [proc EXCEPT ![p] = Starting(n)]
      PROVE  Kept(p)
  <2>2. n \in Nat /\ plan.reviewers \subseteq Reviewers
    BY <1>4, Constants, PlansAssumption DEF Base, TypeOK, StoreOK
  <2>3. Starting(n) \in Local
    <3>1. plan.reviewers \in SUBSET (Reviewers \cup Reviews) /\ "enqueue" \in Listing \cup Calls
      BY <2>2 DEF Calls, TriggerPcs
    <3> QED BY <1>0, <2>2, <3>1 DEF Local
  <2>4. Starting(n).pc = "enqueue" /\ Starting(n).n = n /\ Starting(n).todo = plan.reviewers /\ Starting(n).head = me.head
        /\ Starting(n).pull = me.pull /\ Starting(n).job = me.job /\ Starting(n).ret = me.ret /\ Starting(n).memo = me.memo
    BY <1>0 DEF Local
  <2>5. Well(plan, Limit', Placed, p, Starting(n))
    <3> HIDE DEF Starting, me
    <3> QED BY <1>0, <1>a, <2>4 DEF Well, FgWell, PollWell, TriggerPcs, Calls, HeadPcs, FinalPcs
  <2>6. Moved(p) /\ proc'[p] = Starting(n)
    BY <1>4, <2>3, <2>5 DEF Moved, Base, TypeOK
  <2>7. Path(p)
    <3>1. n \in NextRound(me.head)
      BY <1>4
    <3> HIDE DEF Starting
    <3> QED BY <3>1, <1>0, <1>1, <1>4, <2>4, <2>6 DEF Path, Passed, GatePcs
  <2> QED BY <1>2, <1>4, <2>6, <2>7, StoreTypes DEF Kept
<1>5. CASE Return(p, "err")
  BY <1>0, <1>1, <1>2, <1>5, ReturnKeeps DEF Kept
<1> QED BY <1>3, <1>4, <1>5 DEF StartRound, Set

LEMMA FinalizeKeeps == ASSUME Base, NEW p \in Procs, Finalize(p) PROVE Kept(p)
<1> DEFINE me == proc[p]
           tree == branch.tree
           push == tree = Stray /\ branch.tip = me.head /\ branch.tip < plan.heads
           h == IF push THEN branch.tip + 1 ELSE tree
<1>0. /\ me \in Local /\ Well(plan, Limit, Placed, p, me) /\ me.pc = "finalize" /\ me.pc \in Calls
      /\ me.pc \in HeadPcs /\ me.pc \in FinalPcs /\ me.head >= 1 /\ me.head \in SomeHead /\ me.head <= Limit
      /\ UNCHANGED <<plan, ci, obs, task, parked, mirror, auto, ask, moves>> /\ TaskPath(p)
  BY Where DEF Finalize, Well, HeadPcs, FinalPcs, Calls, Local, TaskPath
<1>1. CASE Return(p, "blocked") /\ UNCHANGED <<host, branch>>
  <2>1. Moved(p) /\ Path(p) /\ SameRows
    BY <1>0, <1>1, ReturnKeeps
  <2>2. Stored
    BY <1>0, <1>1, <2>1, StoredStill, StoreTypes
  <2> QED BY <1>0, <2>1, <2>2 DEF Kept
<1>2. CASE Go(p, "opened") /\ UNCHANGED <<host, branch, job>>
  <2>1. /\ "opened" \in HeadPcs \ {"enqueue", "finalize"} /\ "opened" \notin FinalPcs
        /\ proc' = [proc EXCEPT ![p] = [me EXCEPT !.pc = "opened", !.head = me.head]]
    <3>1. [me EXCEPT !.pc = "opened"] = [me EXCEPT !.pc = "opened", !.head = me.head]
      BY <1>0 DEF Local
    <3> QED BY <1>2, <3>1 DEF Go, Set, HeadPcs, FinalPcs
  <2>2. Limit' = Limit /\ Limit' \in Nat /\ Limit' >= Limit
    BY <1>0, <1>2, LimitStill
  <2>3. Moved(p) /\ Path(p)
    BY <1>0, <2>1, <2>2, HeadMoves
  <2>4. Stored
    BY <1>0, <1>2, StoredStill, StoreTypes
  <2> QED BY <1>0, <2>3, <2>4 DEF Kept
<1>3. CASE /\ push \/ tree = branch.tip
           /\ branch' = [branch EXCEPT !.tip = h, !.tree = h]
           /\ host' = IF host.st = "open" THEN [host EXCEPT !.head = h] ELSE host
           /\ proc' = [proc EXCEPT ![p] = [me EXCEPT !.pc = "adopt", !.head = h]] /\ UNCHANGED job
  <2>1. h \in Heads /\ h \in SomeHead /\ h \in Nat /\ h >= branch.tip /\ h >= 1
    <3>1. plan.heads \in Heads
      BY PlansAssumption DEF Base, TypeOK, StoreOK
    <3>2. CASE push
      <4>1. branch.tip + 1 \in Heads
        BY <3>1, <3>2, Limits, Constants DEF Heads
      <4> QED BY <3>2, <4>1, Limits, Constants
    <3>3. CASE ~push
      <4>1. h = branch.tip
        BY <1>3, <3>3
      <4> HIDE DEF h
      <4> QED BY <4>1, Limits, Constants DEF Heads
    <3> QED BY <3>2, <3>3
  <2> HIDE DEF h, push
  <2>2. branch' \in Branches /\ branch'.tip = h
    BY <1>3, <2>1, BranchTypes DEF Branches
  <2>3. host' \in Hosts /\ host'.by = host.by /\ HostInv'
    <3>1. host \in Hosts /\ host.head <= branch.tip
      BY DEF Base, HostInv, TypeOK, StoreOK
    <3>2. host' \in Hosts /\ host'.by = host.by /\ host'.st = host.st
          /\ host'.head = IF host.st = "open" THEN h ELSE host.head
      BY <1>3, <2>1, <3>1 DEF Hosts
    <3> QED BY <2>1, <2>2, <3>1, <3>2, Limits DEF HostInv
  <2>4. Stored /\ Limit' \in Nat /\ Limit' >= Limit
    BY <1>0, <1>3, <2>1, <2>2, <2>3, StoredMoved, StoreTypes DEF HostPath
  <2>5. h <= Limit'
    BY <1>0, <2>1, <2>2, Constants DEF Limit, Heads
  <2>6. "adopt" \in HeadPcs \ {"enqueue", "finalize"}
    BY DEF HeadPcs, FinalPcs
  <2>7. Moved(p) /\ Path(p)
    BY <1>0, <1>3, <2>1, <2>4, <2>5, <2>6, HeadMoves
  <2> QED BY <1>0, <2>4, <2>7 DEF Kept
<1> QED BY <1>1, <1>2, <1>3 DEF Finalize, Set

LEMMA AdoptKeeps == ASSUME Base, NEW p \in Procs, Adopt(p) PROVE Kept(p)
<1> DEFINE me == proc[p]
           h == IF mirror.st = "open" THEN me.head ELSE host.head
<1>0. /\ me \in Local /\ Well(plan, Limit, Placed, p, me) /\ me.pc = "adopt" /\ me.pc \in Calls
      /\ me.pc \in HeadPcs /\ me.pc \in FinalPcs /\ me.head >= 1 /\ me.head \in SomeHead /\ me.head <= Limit
      /\ UNCHANGED <<plan, ci, obs, task, parked, branch, auto, ask, moves>> /\ TaskPath(p)
      /\ Limit' = Limit /\ Limit' \in Nat /\ Limit' >= Limit
  BY Where, LimitStill DEF Adopt, Well, HeadPcs, FinalPcs, Calls, Local, TaskPath
<1>1. CASE Return(p, "blocked") /\ UNCHANGED <<host, mirror>>
  <2>1. Moved(p) /\ Path(p) /\ SameRows
    BY <1>0, <1>1, ReturnKeeps
  <2>2. Stored
    BY <1>0, <1>1, <2>1, StoredStill, StoreTypes
  <2> QED BY <1>0, <2>1, <2>2 DEF Kept
<1>2. CASE host' = [host EXCEPT !.new = TRUE] /\ Return(p, "ok") /\ UNCHANGED mirror
  <2>1. Moved(p) /\ Path(p) /\ SameRows
    BY <1>0, <1>2, ReturnKeeps
  <2>2. host' \in Hosts /\ host'.by = host.by /\ host'.st = host.st /\ host'.head = host.head
    BY <1>2 DEF Base, TypeOK, StoreOK, Hosts
  <2>3. HostInv' /\ HostPath /\ branch' \in Branches /\ branch'.tip >= branch.tip
    <3>1. branch' = branch /\ branch \in Branches
      BY <1>0, BranchTypes
    <3>2. HostInv' /\ HostPath
      BY <2>2, <3>1 DEF Base, HostInv, HostPath
    <3> QED BY <3>1, <3>2, Limits
  <2>4. Stored
    BY <1>0, <1>2, <2>1, <2>2, <2>3, StoredMoved, StoreTypes
  <2> QED BY <1>0, <2>1, <2>4 DEF Kept
<1>3. CASE /\ mirror' = [st |-> "open", head |-> h] /\ UNCHANGED <<host, job>>
           /\ proc' = [proc EXCEPT ![p] = [me EXCEPT !.pc = "save", !.head = h]]
  <2>1. h \in SomeHead /\ h >= 1 /\ h <= Limit
    BY <1>0, Limits, Constants
  <2> HIDE DEF h
  <2>2. mirror' \in Mirrors
    BY <1>3, <2>1 DEF Mirrors
  <2>3. "save" \in HeadPcs \ {"enqueue", "finalize"}
    BY DEF HeadPcs, FinalPcs
  <2>4. Moved(p) /\ Path(p)
    BY <1>0, <1>3, <2>1, <2>3, HeadMoves
  <2>5. Stored
    BY <1>0, <1>3, <2>2, StoredStill, StoreTypes
  <2> QED BY <1>0, <2>4, <2>5 DEF Kept
<1> QED BY <1>1, <1>2, <1>3 DEF Adopt, Set

LEMMA SaveKeeps == ASSUME Base, NEW p \in Procs, Save(p) PROVE Kept(p)
<1> DEFINE me == proc[p]
           j == me.job
           h == me.head
<1>0. /\ me \in Local /\ Well(plan, Limit, Placed, p, me) /\ me.pc = "save"
      /\ me.pc \in HeadPcs /\ h >= 1 /\ h \in SomeHead /\ h <= Limit
      /\ j \in Fixes /\ j \in Jobs /\ j \notin Reviews
      /\ UNCHANGED <<plan, host, ci, obs, task, parked, mirror, branch, auto, ask, moves>> /\ TaskPath(p)
      /\ Limit' = Limit /\ Limit' \in Nat /\ Limit' >= Limit
  BY Where, LimitStill, JobsApart DEF Save, Well, HeadPcs, FinalPcs, Local, TaskPath
<1>1. /\ "opened" \in HeadPcs \ {"enqueue", "finalize"} /\ "opened" \notin FinalPcs
      /\ proc' = [proc EXCEPT ![p] = [me EXCEPT !.pc = "opened", !.head = me.head]]
  <2>1. [me EXCEPT !.pc = "opened"] = [me EXCEPT !.pc = "opened", !.head = me.head]
    BY <1>0 DEF Local
  <2> QED BY <2>1 DEF Save, Go, Set, HeadPcs, FinalPcs
<1>2. Moved(p) /\ Path(p)
  BY <1>0, <1>1, HeadMoves
<1>3. /\ job' \in [Jobs -> Row] /\ \A k \in Jobs \ {j} : job'[k] = job[k]
      /\ job'[j].head = h /\ job'[j].st = job[j].st /\ job'[j].dec = job[j].dec
      /\ job'[j].adv = job[j].adv
  <2>1. job \in [Jobs -> Row] /\ job[j] \in Row /\ [job[j] EXCEPT !.head = h] \in Row
    BY <1>0 DEF Base, TypeOK, StoreOK, Row
  <2>2. job' = [job EXCEPT ![j] = [job[j] EXCEPT !.head = h]]
    BY <1>0, <2>1 DEF Save
  <2>3. job'[j] = [job[j] EXCEPT !.head = h]
    BY <1>0, <2>1, <2>2
  <2> HIDE DEF j, h
  <2>4. job' \in [Jobs -> Row] /\ \A k \in Jobs \ {j} : job'[k] = job[k]
    BY <1>0, <2>1, <2>2
  <2> QED BY <2>1, <2>3, <2>4 DEF Row
<1> HIDE DEF j, h
<1>4. \A k \in Reviews : k \in Jobs /\ job'[k] = job[k]
  BY <1>0, <1>3, JobsApart
<1>5. Sent' = Sent /\ RowsKept /\ Placed \subseteq Placed'
  BY <1>0, <1>3, <1>4 DEF Sent, Seen, RowsKept, Placed
<1>6. RowInv'
  BY <1>0, <1>3, <1>4, <1>5 DEF Base, RowInv, Sent
<1>7. StoreOK' /\ HostInv' /\ branch'.tip >= branch.tip
  BY <1>0, <1>3, Limits DEF Base, TypeOK, StoreOK, HostInv
<1>8. HostPath /\ CIPath /\ RowsPath
  BY <1>0, <1>5, CIStill DEF HostPath, RowsPath
<1> QED BY <1>0, <1>2, <1>5, <1>6, <1>7, <1>8 DEF Kept, Stored

LEMMA EnqueueKeeps == ASSUME Base, NEW p \in Procs, Enqueue(p) PROVE Kept(p)
<1> DEFINE me == proc[p]
           j(v) == <<"review", me.n, v>>
           new == [NoJob EXCEPT !.st = "queued", !.head = me.head, !.from = me.from]
           nu(v) == [me EXCEPT !.todo = me.todo \ {v},
                               !.pc = IF me.todo \ {v} = {} THEN "reviewing" ELSE "enqueue"]
<1>0. /\ me \in Local /\ Well(plan, Limit, Placed, p, me) /\ me.pc = "enqueue"
      /\ me.todo \subseteq plan.reviewers /\ me.head \in Nat
      /\ me.head >= 1 /\ me.head <= Limit /\ me.head \in SomeHead
      /\ UNCHANGED <<plan, host, ci, obs, task, parked, mirror, branch, auto, ask, moves>>
      /\ TaskPath(p) /\ Limit' = Limit /\ Limit' \in Nat /\ Limit' >= Limit
  BY Where, Constants, LimitStill DEF Enqueue, Well, Local, HeadPcs, TaskPath
<1>1. PICK v \in me.todo :
          IF Seen(j(v)) /\ (job[j(v)].head # me.head \/ job[j(v)].from # me.from)
          THEN Return(p, "err")
          ELSE /\ job' = IF Seen(j(v)) THEN job ELSE [job EXCEPT ![j(v)] = new]
               /\ proc' = [proc EXCEPT ![p] = nu(v)]
  BY <1>0 DEF Enqueue, Set
<1>2. CASE Return(p, "err")
  <2>1. Moved(p) /\ Path(p) /\ SameRows
    BY <1>0, <1>2, ReturnKeeps DEF Calls, TriggerPcs
  <2>2. Stored
    BY <1>0, <2>1, StoredStill, StoreTypes
  <2> QED BY <1>0, <2>1, <2>2 DEF Kept
<1>3. CASE /\ job' = IF Seen(j(v)) THEN job ELSE [job EXCEPT ![j(v)] = new]
           /\ proc' = [proc EXCEPT ![p] = nu(v)]
  <2>1. job \in [Jobs -> Row] /\ new \in Row
    BY <1>0 DEF Base, TypeOK, StoreOK, NoJob, Row, Local
  <2>2. new.st = "queued" /\ new.head = me.head /\ new.dec = "none" /\ new.adv = "none"
    BY DEF NoJob
  <2>3. job' \in [Jobs -> Row] /\ \A k \in Jobs : job'[k] = job[k] \/ (k = j(v) /\ ~Seen(k) /\ job'[k] = new)
    <3> HIDE DEF new, j
    <3> QED BY <1>3, <2>1
  <2>4. \A k \in Reviews : k = j(v) => Agent(k) \in plan.reviewers
    BY <1>0 DEF Agent
  <2>5. Sent \subseteq Sent' /\ Placed \subseteq Placed'
    <3>1. \A k \in Jobs : Seen(k) => job'[k] = job[k]
      BY <2>3
    <3> QED BY <3>1, JobsApart DEF Sent, Seen, Placed
  <2>6. RowInv'
    <3> HIDE DEF new, j
    <3>1. \A k \in Sent' : Agent(k) \in plan.reviewers /\ job'[k].head >= 1
      <4>1. SUFFICES ASSUME NEW k \in Sent' PROVE Agent(k) \in plan.reviewers /\ job'[k].head >= 1
        OBVIOUS
      <4>2. k \in Reviews /\ k \in Jobs /\ job'[k].st # "none"
        BY JobsApart DEF Sent, Seen
      <4>3. CASE job'[k] = job[k]
        BY <4>2, <4>3 DEF Sent, Seen, Base, RowInv
      <4>4. CASE k = j(v) /\ job'[k] = new
        BY <4>2, <4>4, <2>2, <2>4, <1>0
      <4> QED BY <4>2, <4>3, <4>4, <2>3
    <3>2. \A k \in Jobs : /\ job'[k].head <= Limit
                          /\ job'[k].dec # "none" \/ job'[k].adv = "due" => job'[k].st = "done"
      BY <1>0, <2>2, <2>3 DEF Base, RowInv
    <3> QED BY <1>0, <3>1, <3>2 DEF RowInv
  <2>7. StoreOK' /\ HostInv' /\ branch'.tip >= branch.tip
    BY <1>0, <2>3, Limits DEF Base, TypeOK, StoreOK, HostInv
  <2>8. nu(v) \in Local /\ nu(v).pc \in {"enqueue", "reviewing"} /\ nu(v).head = me.head
        /\ nu(v).pull = me.pull /\ nu(v).job = me.job /\ nu(v).ret = me.ret
        /\ nu(v).todo = me.todo \ {v} /\ nu(v).memo = me.memo /\ nu(v).n = me.n
    <3>1. "enqueue" \in Listing \cup Calls /\ "reviewing" \in Listing \cup Calls
      BY DEF Calls, TriggerPcs
    <3> QED BY <1>0, <3>1 DEF Local
  <2>9. Well(plan, Limit', Placed, p, nu(v))
    <3> HIDE DEF nu, me
    <3> QED BY <1>0, <2>8 DEF Well, FgWell, PollWell, Calls, TriggerPcs, HeadPcs, FinalPcs
  <2>10. Moved(p) /\ proc'[p] = nu(v)
    BY <1>3, <2>8, <2>9 DEF Moved, Base, TypeOK
  <2>11. Path(p)
    <3> HIDE DEF nu
    <3> QED BY <1>0, <2>8, <2>10 DEF Path, Passed, GatePcs
  <2>12. RowsPath
    <3> HIDE DEF new
    <3>1. CASE \A k \in Reviews : job'[k] = job[k]
      BY <3>1 DEF RowsKept, RowsPath
    <3>2. CASE \E k \in Reviews : job'[k] # job[k]
      <4>1. j(v) \in Reviews /\ ~Seen(j(v)) /\ job'[j(v)] = new
            /\ \A k \in Reviews \ {j(v)} : job'[k] = job[k]
        BY <3>2, <2>3, JobsApart
      <4>2. v \in Reviewers
        BY <1>0, PlansAssumption DEF Base, TypeOK, StoreOK
      <4>3. Added(p, v)
        BY <1>0, <2>2, <4>1 DEF Added
      <4> QED BY <4>2, <4>3 DEF RowsPath
    <3> QED BY <3>1, <3>2
  <2>13. HostPath /\ CIPath
    BY <1>0, CIStill DEF HostPath
  <2> QED BY <1>0, <2>5, <2>6, <2>7, <2>10, <2>11, <2>12, <2>13 DEF Kept, Stored
<1> QED BY <1>1, <1>2, <1>3

LEMMA PullKeeps == ASSUME Base, NEW p \in Procs, Pull(p) PROVE Kept(p)
<1> DEFINE me == proc[p]
           pc == IF me.human \/ host.st # "open" THEN "checkout" ELSE "vet"
           nu == [me EXCEPT !.pull = [st |-> host.st, head |-> host.head], !.pc = pc]
<1>0. /\ me \in Local /\ Well(plan, Limit, Placed, p, me)
      /\ me.pc = "pull" /\ (p # Fg \/ plan.reviewers = {}) /\ me.head \in Nat
      /\ proc' = [proc EXCEPT ![p] = nu] /\ host.st \in {"open", "closed", "merged"}
      /\ host.head \in SomeHead /\ host.head <= Limit /\ Limit' = Limit
      /\ UNCHANGED <<plan, host, ci, obs, task, parked, mirror, branch, job, auto, ask, moves>>
  <2>1. me.pc = "pull" /\ me.pc \in Calls \ (TriggerPcs \cup {"adopt", "save"})
    BY DEF Pull, Calls, GatePcs, TriggerPcs
  <2>2. UNCHANGED <<plan, host, ci, obs, task, parked, mirror, branch, job, auto, ask, moves>>
        /\ Limit' = Limit
    BY LimitStill DEF Pull
  <2> QED BY <2>1, <2>2, Where, Limits, Constants DEF Pull, Set, Base, TypeOK, StoreOK, Local, Hosts
<1>1. nu \in Local /\ nu.pc = pc /\ nu.head = me.head /\ nu.pull = [st |-> host.st, head |-> host.head]
      /\ nu.job = me.job /\ nu.ret = me.ret /\ nu.todo = me.todo /\ nu.memo = me.memo
      /\ nu.human = me.human
  <2>1. pc \in Listing \cup Calls
    BY DEF Calls, GatePcs
  <2> HIDE DEF pc
  <2> QED BY <1>0, <2>1 DEF Local, Mirrors
<1>2. Well(plan, Limit', Placed, p, nu)
  <2> HIDE DEF nu
  <2> QED BY <1>0, <1>1 DEF Well, FgWell, PollWell, Calls, GatePcs, TriggerPcs, HeadPcs, FinalPcs
<1>3. Moved(p) /\ proc'[p] = nu
  BY <1>0, <1>1, <1>2 DEF Moved, Base, TypeOK
<1>4. Path(p) /\ TaskPath(p)
  <2> HIDE DEF nu
  <2> QED BY <1>0, <1>1, <1>3 DEF Path, TaskPath, Passed, GatePcs
<1>5. Stored
  BY <1>0, StoredStill, StoreTypes
<1> QED BY <1>3, <1>4, <1>5 DEF Kept

LEMMA VetKeeps == ASSUME Base, NEW p \in Procs, Vet(p) PROVE Kept(p)
<1> DEFINE me == proc[p]
           h == me.pull.head
           pc == IF ci[h] = "pending" \/ (ci[h] = "none" /\ ~Waited(h)) THEN "ready"
                 ELSE IF ci[h] = "red" \/ ~Captured(h) THEN "park_miss" ELSE "checkout"
<1>0. /\ me \in Local /\ Well(plan, Limit, Placed, p, me)
      /\ me.pc = "vet" /\ me.pc \in Calls /\ (p # Fg \/ plan.reviewers = {}) /\ h \in SomeHead
      /\ Go(p, pc)
      /\ obs' = IF ci[h] = "none" /\ obs.head # h THEN [head |-> h, over |-> FALSE] ELSE obs
      /\ UNCHANGED <<plan, host, ci, task, parked, mirror, branch, job, auto, ask, moves>>
      /\ Limit' \in Nat /\ Limit' >= Limit
  <2>1. me.pc = "vet" /\ me.pc \in Calls \ (TriggerPcs \cup {"adopt", "save"})
    BY DEF Vet, Calls, GatePcs, TriggerPcs
  <2>2. Limit' \in Nat /\ Limit' >= Limit
    BY LimitStill DEF Vet
  <2> QED BY <2>1, <2>2, Where DEF Vet, Local, Mirrors
<1>1. pc \in {"ready", "park_miss", "checkout"}
  OBVIOUS
<1>2. Moved(p) /\ proc'[p] = [me EXCEPT !.pc = pc]
  <2>1. pc \in Calls \ (HeadPcs \cup {"advance"})
    BY <1>1 DEF Calls, GatePcs, TriggerPcs, HeadPcs, FinalPcs
  <2> HIDE DEF pc
  <2> QED BY <1>0, <2>1, GoKeeps
<1>3. pc = "checkout" => Captured(h) /\ (h \in Heads => CIPassed(h)) /\ UNCHANGED obs
  <2>1. SUFFICES ASSUME pc = "checkout"
        PROVE  Captured(h) /\ (h \in Heads => CIPassed(h)) /\ UNCHANGED obs
    OBVIOUS
  <2>2. ci[h] # "pending" /\ ~(ci[h] = "none" /\ ~Waited(h)) /\ ci[h] # "red" /\ Captured(h)
    BY <2>1
  <2>3. h \in Heads => ci[h] \in {"none", "pending", "green", "red"}
    BY DEF Base, TypeOK, StoreOK
  <2>4. ci[h] = "none" => obs.head = h
    BY <2>2 DEF Waited
  <2> QED BY <1>0, <2>2, <2>3, <2>4 DEF CIPassed
<1>4. Path(p) /\ TaskPath(p)
  <2>1. proc'[p].pc = pc /\ proc'[p].pull = me.pull
    BY <1>0, <1>2 DEF Local
  <2> HIDE DEF pc
  <2> QED BY <1>0, <1>1, <1>3, <2>1 DEF Path, TaskPath, Passed, GatePcs
<1>5. Stored
  <2>1. obs' \in [head : SomeHead, over : BOOLEAN]
    BY <1>0, StoreTypes
  <2>2. CIPath
    <3>1. SUFFICES ASSUME NEW g, CIPassed(g), h = g PROVE CIPassed(g)'
      BY <1>0 DEF CIPath
    <3> QED BY <1>0, <3>1 DEF CIPassed, Waited
  <2> QED BY <1>0, <2>1, <2>2, StoredStill, StoreTypes
<1> QED BY <1>2, <1>4, <1>5 DEF Kept

LEMMA CheckoutKeeps == ASSUME Base, NEW p \in Procs, Checkout(p) PROVE Kept(p)
<1> DEFINE me == proc[p]
<1>0. /\ me \in Local /\ me.pc = "checkout" /\ me.pc \in Calls
      /\ (p # Fg \/ plan.reviewers = {})
      /\ UNCHANGED <<plan, host, ci, obs, task, parked, mirror, branch, auto, ask, moves>>
      /\ Limit' \in Nat /\ Limit' >= Limit
  <2>1. me.pc = "checkout" /\ me.pc \in Calls \ (TriggerPcs \cup {"adopt", "save"})
    BY DEF Checkout, Calls, GatePcs, TriggerPcs
  <2>2. Limit' \in Nat /\ Limit' >= Limit
    BY LimitStill DEF Checkout
  <2> QED BY <2>1, <2>2, Where DEF Checkout
<1>1. SameRows /\ Moved(p) /\ Path(p)
  <2>1. CASE Return(p, "err")
    BY <1>0, <2>1, ReturnKeeps
  <2>2. ASSUME NEW pc \in {"record", "block", "fresh"}, Go(p, pc), UNCHANGED job,
               pc = "fresh" => me.pull.st \notin {"merged", "closed"}
        PROVE  SameRows /\ Moved(p) /\ Path(p)
    <3>1. pc \in Calls \ (HeadPcs \cup {"advance"})
      BY DEF Calls, GatePcs, TriggerPcs, HeadPcs, FinalPcs
    <3>2. Moved(p) /\ proc'[p] = [me EXCEPT !.pc = pc]
      BY <1>0, <2>2, <3>1, GoKeeps
    <3>3. proc'[p].pc = pc /\ proc'[p].pull = me.pull /\ proc'[p].human = me.human
      BY <1>0, <3>2 DEF Local
    <3>4. Path(p)
      BY <1>0, <2>2, <3>3 DEF Path, Passed, GatePcs, Local
    <3> QED BY <2>2, <3>2, <3>4, StoreTypes
  <2> QED BY <2>1, <2>2 DEF Checkout
<1>2. Stored /\ TaskPath(p)
  BY <1>0, <1>1, StoredStill, StoreTypes DEF TaskPath
<1> QED BY <1>1, <1>2 DEF Kept

\* A push to the branch
LEMMA PushTypes ==
    ASSUME Base, NEW h \in Heads, h >= branch.tip, NEW here \in BOOLEAN, branch' = Pushed(h, here),
           host' \in Hosts, host'.head = IF host'.st = "open" THEN h ELSE host.head
    PROVE  branch' \in Branches /\ branch'.tip = h /\ HostInv'
<1>1. branch \in Branches /\ h \in SomeHead /\ h \in Nat
  BY BranchTypes, Constants
<1>2. branch' \in Branches /\ branch'.tip = h
  BY <1>1 DEF Pushed, Branches
<1> QED BY <1>1, <1>2, Limits DEF Base, HostInv

\* The gate's steps that concern the host
LEMMA HostKeeps == ASSUME Base, NEW p \in Procs, Fresh(p) \/ Merge(p) PROVE Kept(p)
<1> DEFINE me == proc[p]
<1>0. /\ me \in Local /\ me.pc \in {"fresh", "merge"} /\ me.pc \in Calls
      /\ (p # Fg \/ plan.reviewers = {})
      /\ UNCHANGED <<plan, ci, obs, task, parked, mirror, auto, ask, moves>>
  <2>1. me.pc \in {"fresh", "merge"} /\ me.pc \in Calls \ (TriggerPcs \cup {"adopt", "save"})
    BY DEF Fresh, Merge, Calls, GatePcs, TriggerPcs
  <2> QED BY <2>1, Where DEF Fresh, Merge
<1>1. CASE Return(p, "err") /\ UNCHANGED <<host, branch>>
  <2>1. Moved(p) /\ Path(p) /\ SameRows
    BY <1>0, <1>1, ReturnKeeps
  <2>2. Stored /\ TaskPath(p)
    BY <1>0, <1>1, <2>1, StoredStill, StoreTypes DEF TaskPath
  <2> QED BY <2>1, <2>2 DEF Kept
<1>2. ASSUME NEW pc \in {"merge", "ready", "block", "record"}, Go(p, pc), UNCHANGED job,
             host' \in Hosts, branch' \in Branches, branch'.tip >= branch.tip, HostInv', HostPath,
             pc = "merge" => me.pc = "fresh"
      PROVE  Kept(p)
  <2>1. pc \in Calls \ (HeadPcs \cup {"advance"})
    BY DEF Calls, GatePcs, TriggerPcs, HeadPcs, FinalPcs
  <2>2. Stored /\ Limit' \in Nat /\ Limit' >= Limit
    BY <1>0, <1>2, StoredMoved, StoreTypes
  <2>3. Moved(p) /\ proc'[p] = [me EXCEPT !.pc = pc]
    BY <1>0, <1>2, <2>1, <2>2, GoKeeps
  <2>4. proc'[p].pc = pc /\ proc'[p].pull = me.pull /\ proc'[p].human = me.human
    BY <1>0, <2>3 DEF Local
  <2>5. Path(p) /\ TaskPath(p)
    BY <1>0, <1>2, <2>4 DEF Path, TaskPath, Passed, GatePcs
  <2> QED BY <2>2, <2>3, <2>5 DEF Kept
<1>a. host \in Hosts /\ branch \in Branches /\ branch.tip >= branch.tip /\ HostInv
  BY Limits DEF Base, TypeOK, StoreOK
<1>3. CASE Fresh(p)
  <2>1. CASE UNCHANGED <<host, branch>> /\ \E pc \in {"merge", "ready", "block"} : Go(p, pc)
    <3>1. HostInv' /\ HostPath
      BY <1>a, <2>1 DEF HostInv, HostPath
    <3> QED BY <1>0, <1>2, <1>3, <1>a, <2>1, <3>1 DEF Fresh
  <2>2. CASE /\ host.behind /\ host.st = "open" /\ branch.tip < plan.heads
             /\ host' = [host EXCEPT !.head = branch.tip + 1, !.behind = FALSE]
             /\ branch' = Pushed(branch.tip + 1, FALSE) /\ Go(p, "ready")
    <3> DEFINE h == branch.tip + 1
    <3>1. h \in Heads /\ h >= branch.tip
      <4>1. plan.heads \in Heads
        BY PlansAssumption DEF Base, TypeOK, StoreOK
      <4> QED BY <2>2, <4>1, Limits, Constants DEF Heads
    <3> HIDE DEF h
    <3>2. host' \in Hosts /\ host'.by = host.by /\ host'.st = "open" /\ host'.head = h
      BY <1>a, <2>2, <3>1 DEF Hosts, h
    <3>3. branch' \in Branches /\ branch'.tip = h /\ HostInv'
      BY <2>2, <3>1, <3>2, PushTypes DEF h
    <3> QED BY <1>2, <1>3, <2>2, <3>1, <3>2, <3>3 DEF Fresh, HostPath
  <2> QED BY <1>3, <2>1, <2>2 DEF Fresh
<1>4. CASE Merge(p)
  <2>0. UNCHANGED branch
    BY <1>4 DEF Merge
  <2>1. CASE /\ host.st = "open" /\ host.head = me.pull.head
             /\ host' = [host EXCEPT !.st = "merged", !.by = IF me.human THEN "human" ELSE "auto"]
             /\ Go(p, "record") /\ UNCHANGED job
    <3>1. host' \in Hosts /\ host'.head = host.head /\ host'.st = "merged"
          /\ (host'.by = "auto" => ~me.human)
      BY <1>a, <2>1 DEF Hosts
    <3>2. HostInv' /\ HostPath
      BY <1>4, <1>a, <2>0, <2>1, <3>1 DEF HostInv, HostPath, Merges, Merge
    <3> QED BY <1>2, <1>4, <1>a, <2>0, <2>1, <3>1, <3>2 DEF Merge
  <2> QED BY <1>1, <1>4, <2>0, <2>1 DEF Merge
<1> QED BY <1>3, <1>4

LEMMA GateEndKeeps == ASSUME Base, NEW p \in Procs, Ready(p) \/ Park(p) PROVE Kept(p)
<1> DEFINE me == proc[p]
<1>0. /\ me \in Local /\ me.pc \in {"ready", "park_switch", "park_miss"}
      /\ me.pc \in Calls /\ GateEnd(p)
      /\ UNCHANGED <<plan, host, ci, obs, mirror, branch, auto, ask, moves>>
      /\ task' \in TaskStates /\ parked' \in {"none", "switch", "miss"}
  BY Where DEF Ready, Park, Calls, GatePcs, TaskStates, Candidates, Waiting, Base, TypeOK, StoreOK
<1>1. SameRows /\ Moved(p) /\ Path(p)
  <2>1. CASE Return(p, "ok")
    BY <1>0, <2>1, ReturnKeeps
  <2>2. CASE Go(p, "baseline") /\ UNCHANGED job
    <3>1. "baseline" \in Calls \ (HeadPcs \cup {"advance"}) /\ Limit' \in Nat /\ Limit' >= Limit
      BY <1>0, LimitStill DEF Calls, TriggerPcs, HeadPcs, FinalPcs
    <3>2. Moved(p) /\ proc'[p] = [me EXCEPT !.pc = "baseline"]
      BY <1>0, <2>2, <3>1, GoKeeps
    <3>3. Path(p)
      BY <1>0, <3>2, GoPath DEF GatePcs
    <3> QED BY <2>2, <3>2, <3>3, StoreTypes
  <2> QED BY <1>0, <2>1, <2>2 DEF GateEnd
<1>2. TaskPath(p)
  BY <1>0 DEF TaskPath, GatePcs
<1>3. Stored
  BY <1>0, <1>1, StoredStill, StoreTypes
<1> QED BY <1>1, <1>2, <1>3 DEF Kept

LEMMA EngineKeeps == ASSUME Base, NEW p \in Procs, Step(p) PROVE Kept(p)
BY AdvanceKeeps, EndKeeps, FixKeeps, TurnKeeps, OpenedKeeps, StartRoundKeeps, FinalizeKeeps,
   AdoptKeeps, SaveKeeps, EnqueueKeeps, PullKeeps, VetKeeps, CheckoutKeeps, HostKeeps, GateEndKeeps
   DEF Step
-----------------------------------------------------------------------------
(* The poll's steps *)

LEMMA PollTo ==
    ASSUME Base, NEW nu \in Local, proc' = [proc EXCEPT ![Poll] = nu], Limit' = Limit,
           nu.head <= Limit, nu.pc # "idle" => nu.head >= 1, nu.pull.head <= Limit,
           nu.memo \subseteq Placed,
           nu.pc \in Listing \cup {"opened", "gate", "close", "mirror", "cleanup", "advance"},
           nu.pc \in {"opened", "gate", "close"} => nu.ret \in Rets \ {"readvance"},
           nu.pc = "gate" => task \in {"ready", "awaiting"},
           nu.pc \in {"mirror", "cleanup"} =>
               /\ proc[Poll].pc \in {"close", "mirror"} /\ nu.ret = proc[Poll].ret
               /\ nu.todo = proc[Poll].todo /\ nu.job = proc[Poll].job,
           nu.pc = "readvance" => nu.todo \subseteq Placed \cap Reviews,
           nu.pc = "advance" => /\ nu.ret = "readvance" /\ nu.job \in Placed \cap Reviews
                                /\ nu.todo \subseteq Placed \cap Reviews
    PROVE  Moved(Poll) /\ Path(Poll)
<1>1. Poll \in Procs /\ Poll # Fg
  BY DEF Procs, Daemon, Poll, Fg
<1>2. Well(plan, Limit, Placed, Poll, proc[Poll])
  BY <1>1, Where
<1>3. PollWell(Placed, nu)
  BY <1>1, <1>2 DEF Well, PollWell, Listing, Calls, GatePcs, TriggerPcs, FinalPcs, HeadPcs, Rets
<1>4. Well(plan, Limit', Placed, Poll, nu)
  BY <1>1, <1>3 DEF Well, Listing, FinalPcs, HeadPcs
<1>5. Moved(Poll) /\ proc'[Poll] = nu
  BY <1>1, <1>4 DEF Moved, Base, TypeOK
<1>6. Path(Poll)
  BY <1>5 DEF Path, Passed, Listing, GatePcs
<1> QED BY <1>5, <1>6

\* A poll withdraws queued reviews of other heads.
LEMMA SupersededKeeps ==
    ASSUME Base, NEW known, job' = Superseded(known), plan' = plan, Limit' = Limit
    PROVE  /\ job' \in [Jobs -> Row] /\ RowInv' /\ Sent' = Sent /\ Placed' = Placed /\ RowsKept
<1>1. /\ job \in [Jobs -> Row] /\ job' \in [Jobs -> Row]
      /\ \A j \in Jobs : job'[j] = job[j] \/ (job[j].st = "queued" /\ job'[j] = [job[j] EXCEPT !.st = "dropped"])
  <2>1. job \in [Jobs -> Row] /\ \A j \in Jobs : [job[j] EXCEPT !.st = "dropped"] \in Row
    BY DEF Base, TypeOK, StoreOK, Row
  <2> QED BY <2>1 DEF Superseded
<1>2. \A j \in Jobs : /\ job'[j].head = job[j].head /\ job'[j].dec = job[j].dec
                      /\ job'[j].adv = job[j].adv
                      /\ job'[j].st = job[j].st \/ (job[j].st = "queued" /\ job'[j].st = "dropped")
  BY <1>1 DEF Row
<1>3. \A j \in Jobs : job[j].st = "queued" => job[j].dec = "none" /\ job[j].adv # "due"
  BY <1>1 DEF Base, RowInv, Row
<1>4. Sent' = Sent /\ Placed' = Placed
  BY <1>2, JobsApart DEF Sent, Seen, Placed
<1>5. RowsKept
  BY <1>2, JobsApart DEF RowsKept
<1>6. RowInv'
  <2>1. \A j \in Sent : Agent(j) \in plan.reviewers /\ job'[j].head >= 1
    BY <1>2, JobsApart DEF Base, RowInv, Sent
  <2>2. \A j \in Jobs : job'[j].head <= Limit
    BY <1>2 DEF Base, RowInv
  <2>3. \A j \in Jobs : job'[j].dec # "none" \/ job'[j].adv = "due" => job'[j].st = "done"
    BY <1>2, <1>3 DEF Base, RowInv
  <2> QED BY <1>4, <2>1, <2>2, <2>3 DEF RowInv
<1> QED BY <1>1, <1>4, <1>5, <1>6

\* What the poll's steps share
LEMMA PollStored ==
    ASSUME Base, PollOnly, task' \in TaskStates, ask' \in BOOLEAN, mirror' \in Mirrors,
           UNCHANGED job \/ \E known : job' = Superseded(known)
    PROVE  Stored
<1>0. plan' = plan /\ Limit' = Limit /\ Limit' \in Nat /\ Limit' >= Limit /\ UNCHANGED branch
  BY LimitStill DEF PollOnly
<1>1. job' \in [Jobs -> Row] /\ RowInv' /\ Sent' = Sent /\ Placed' = Placed /\ RowsKept
  <2>1. CASE UNCHANGED job
    <3>1. SameRows
      BY <2>1, StoreTypes
    <3> QED BY <3>1, <1>0, SameRowsKept DEF SameRows
  <2>2. CASE \E known : job' = Superseded(known)
    BY <1>0, <2>2, SupersededKeeps
  <2> QED BY <2>1, <2>2
<1>2. StoreOK' /\ HostInv' /\ branch'.tip >= branch.tip
  BY <1>1, Limits DEF PollOnly, Base, TypeOK, StoreOK, HostInv
<1>3. HostPath /\ CIPath
  BY CIStill DEF PollOnly, HostPath
<1> QED BY <1>0, <1>1, <1>2, <1>3 DEF Stored, RowsPath

LEMMA SentPlaced == ASSUME Base PROVE Sent \subseteq Placed \cap Reviews
BY JobsApart DEF Sent, Placed, Base, RowInv

LEMMA HereWeAre ==
    ASSUME Base
    PROVE  /\ Poll \in Procs /\ Me \in Local /\ Me.head \in Nat /\ host.head \in Nat
           /\ host.head >= 1 /\ host.head \in SomeHead /\ host.head <= Limit /\ Limit \in Nat
           /\ Me.head <= Limit /\ Me.pull.head <= Limit /\ (Me.pc # "idle" => Me.head >= 1)
           /\ Me.memo \subseteq Placed /\ Me.memo \subseteq Reviews
           /\ (Me.pc = "readvance" => Me.todo \subseteq Placed \cap Reviews)
           /\ (Me.pc \in Calls => Me.ret \in Rets)
           /\ (PollOnly => Limit' = Limit)
<1>1. Poll \in Procs
  BY DEF Procs, Daemon
<1>2. Me \in Local /\ Well(plan, Limit, Placed, Poll, Me) /\ PollWell(Placed, Me)
  BY <1>1, Where DEF Me, Well
<1>3. Me.head \in Nat /\ host.head \in SomeHead
  BY <1>2, Constants, Limits DEF Local
<1>4. PollOnly => Limit' = Limit
  BY LimitStill DEF PollOnly
<1>5. Me.head <= Limit /\ Me.pull.head <= Limit
  BY <1>2 DEF Well
<1> QED BY <1>1, <1>2, <1>3, <1>4, <1>5, Limits DEF PollWell, Local

LEMMA PollStartKeeps == ASSUME Base, PollStart PROVE Kept(Poll)
<1> DEFINE nu == [Idle EXCEPT !.pc = IF host.st = "open" THEN "changed" ELSE "external",
                              !.open = host.st = "open", !.head = host.head]
<1>1. proc' = [proc EXCEPT ![Poll] = nu] /\ PollOnly /\ UNCHANGED <<mirror, job, ask>>
  BY DEF PollStart, Set
<1>2. task' \in TaskStates /\ (task' \in {"ready", "awaiting"} => task \in {"ready", "awaiting"})
  BY DEF PollStart, Base, TypeOK, StoreOK, TaskStates, Candidates, Waiting
<1>3. nu \in Local /\ nu.pc \in {"changed", "external"} /\ nu.head = host.head /\ nu.memo = {}
      /\ nu.pull.head = 0
  <2>1. (host.st = "open") \in BOOLEAN
    OBVIOUS
  <2> DEFINE o == host.st = "open"
             pc == IF host.st = "open" THEN "changed" ELSE "external"
  <2>2. o \in BOOLEAN /\ pc \in {"changed", "external"} /\ pc \in Listing \cup Calls
    BY DEF Listing
  <2>3. nu = [Idle EXCEPT !.pc = pc, !.open = o, !.head = host.head]
    OBVIOUS
  <2> HIDE DEF o, pc, nu
  <2>4. host.head \in SomeHead /\ Idle \in Local
    BY IdleWell, HereWeAre
  <2>5. nu \in Local
    BY <2>2, <2>3, <2>4 DEF Local
  <2>6. nu.pc = pc /\ nu.head = host.head /\ nu.memo = Idle.memo /\ nu.pull = Idle.pull
    BY <2>3, <2>4 DEF Local
  <2> QED BY <2>2, <2>5, <2>6 DEF Idle
<1>4. Moved(Poll) /\ Path(Poll)
  <2>1. nu.head <= Limit /\ nu.head >= 1 /\ nu.pull.head <= Limit /\ Limit' = Limit
    BY <1>1, <1>3, HereWeAre DEF PollOnly
  <2>2. nu.pc \in Listing /\ nu.pc # "readvance"
    BY <1>3 DEF Listing
  <2> HIDE DEF nu
  <2> QED BY <1>1, <1>3, <2>1, <2>2, PollTo
<1>5. Stored
  BY <1>1, <1>2, PollStored, StoreTypes
<1> QED BY <1>2, <1>4, <1>5 DEF Kept, TaskPath

LEMMA TriggerKeeps ==
    ASSUME Base, NEW me \in Local, NEW ret \in {"store", "promote"}, Trigger(me, ret), Limit' = Limit,
           me.head \in Nat, me.head >= 1, me.head <= Limit, me.pull.head <= Limit,
           me.memo \subseteq Placed
    PROVE  Moved(Poll) /\ Path(Poll) /\ job' = Superseded(me.memo)
<1> DEFINE nu == IF branch.lock THEN [me EXCEPT !.pc = "opened", !.from = "github", !.ret = ret]
                 ELSE [me EXCEPT !.pc = ret]
<1>1. proc' = [proc EXCEPT ![Poll] = nu] /\ job' = Superseded(me.memo)
  BY DEF Trigger, Set
<1>2. /\ nu \in Local /\ nu.pc \in {"opened", "store", "promote"} /\ nu.head = me.head
      /\ nu.pull = me.pull /\ nu.memo = me.memo /\ (nu.pc = "opened" => nu.ret = ret)
  BY DEF Local, Listing, Calls, TriggerPcs, Senders, Rets
<1>3. ret \in Rets \ {"readvance"}
  BY DEF Rets
<1>4. Moved(Poll) /\ Path(Poll)
  <2> HIDE DEF nu
  <2> QED BY <1>1, <1>2, <1>3, PollTo DEF Listing
<1> QED BY <1>1, <1>4

LEMMA ChangedKeeps == ASSUME Base, PullChanged PROVE Kept(Poll)
<1> DEFINE known == {j \in Reviews : Seen(j)}
           me == [Me EXCEPT !.memo = known]
<1>1. /\ PollOnly /\ UNCHANGED <<task, mirror, ask>>
      /\ \/ Trigger(me, "store")
         \/ proc' = [proc EXCEPT ![Poll] = [me EXCEPT !.pc = "drive"]] /\ UNCHANGED job
  BY DEF PullChanged, Set
<1>2. known \subseteq Placed /\ me \in Local /\ me.head = Me.head /\ me.pull = Me.pull /\ me.memo = known
  BY HereWeAre, SentPlaced DEF Sent, Local
<1>3. Moved(Poll) /\ Path(Poll) /\ (UNCHANGED job \/ \E k : job' = Superseded(k))
  <2>1. CASE Trigger(me, "store")
    <3>1. me.head \in Nat /\ me.head >= 1 /\ me.head <= Limit /\ me.pull.head <= Limit
          /\ me.memo \subseteq Placed /\ Limit' = Limit
      BY <1>1, <1>2, HereWeAre DEF PollOnly, PullChanged
    <3> HIDE DEF me, known
    <3> QED BY <1>2, <2>1, <3>1, TriggerKeeps
  <2>2. CASE proc' = [proc EXCEPT ![Poll] = [me EXCEPT !.pc = "drive"]] /\ UNCHANGED job
    <3> DEFINE nu == [me EXCEPT !.pc = "drive"]
    <3>1. nu \in Local /\ nu.pc = "drive" /\ nu.head = Me.head /\ nu.pull = Me.pull /\ nu.memo \subseteq Placed
      BY <1>2 DEF Local, Listing
    <3>2. nu.head <= Limit /\ nu.head >= 1 /\ nu.pull.head <= Limit /\ Limit' = Limit
      BY <1>1, <3>1, HereWeAre DEF PollOnly, PullChanged
    <3>3. nu.pc \in Listing /\ nu.pc \notin {"idle", "readvance"} /\ nu.pc \notin Calls
      BY <3>1 DEF Listing, Calls, GatePcs, TriggerPcs, FinalPcs
    <3>4. proc' = [proc EXCEPT ![Poll] = nu] /\ UNCHANGED job
      BY <2>2
    <3> HIDE DEF nu
    <3> QED BY <3>1, <3>2, <3>3, <3>4, PollTo DEF Calls, GatePcs, TriggerPcs, FinalPcs
  <2> QED BY <1>1, <2>1, <2>2
<1>4. Stored /\ TaskPath(Poll)
  BY <1>1, <1>3, PollStored, StoreTypes DEF TaskPath
<1> QED BY <1>3, <1>4 DEF Kept

\* The steps that go on to the next part of the poll, by way of the gate or not
LEMMA ListKeeps ==
    ASSUME Base, Store \/ Drive \/ Comments \/ Asked \/ Promote \/ External \/ RetryClosed
                 \/ ClosedReviewing
    PROVE  Kept(Poll)
<1>0. Me.pc \in Listing \ {"idle", "readvance"} /\ Limit' = Limit /\ UNCHANGED job /\ PollOnly
  BY HereWeAre DEF Store, Drive, Comments, Asked, Promote, External, RetryClosed, ClosedReviewing, PollOnly,
         Listing
<1>1. /\ Me \in Local /\ Me.head \in Nat /\ host.head \in Nat /\ host.head \in SomeHead /\ host.head <= Limit /\ Limit \in Nat
      /\ Me.head <= Limit /\ Me.pull.head <= Limit /\ Me.head >= 1 /\ Me.memo \subseteq Placed
  BY <1>0, HereWeAre
<1> DEFINE To(nu) == /\ nu \in Local /\ proc' = [proc EXCEPT ![Poll] = nu]
                     /\ nu.head = Me.head /\ nu.pull.head <= Limit /\ nu.memo \subseteq Me.memo
                     /\ nu.pc \in (Listing \ {"readvance"}) \cup {"gate", "close"}
                     /\ nu.pc \in {"gate", "close"} => nu.ret \in Rets \ {"readvance"}
                     /\ nu.pc = "gate" => task \in {"ready", "awaiting"}
           Done(pc) == [Me EXCEPT !.pc = pc]
           In(ret, human) == EnterGate(Me, human, ret)
           Shut(st, ret) == [Me EXCEPT !.pc = "close", !.ret = ret,
                                       !.pull = [st |-> st, head |-> host.head]]
<1>2. ASSUME NEW pc \in Listing \ {"idle", "readvance"}, proc' = [proc EXCEPT ![Poll] = Done(pc)]
      PROVE  \E nu : To(nu)
  <2>1. Done(pc) \in Local /\ Done(pc).head = Me.head /\ Done(pc).pull = Me.pull
        /\ Done(pc).memo = Me.memo /\ Done(pc).pc = pc
    BY <1>1, <1>2 DEF Local
  <2>2. pc \notin {"gate", "close"}
    BY <1>2 DEF Listing
  <2> QED BY <1>1, <1>2, <2>1, <2>2
<1>3. ASSUME NEW ret \in Rets \ {"readvance"}, NEW human \in BOOLEAN, task \in {"ready", "awaiting"},
             proc' = [proc EXCEPT ![Poll] = In(ret, human)]
      PROVE  \E nu : To(nu)
  <2>1. /\ In(ret, human) \in Local /\ In(ret, human).head = Me.head
        /\ In(ret, human).pull = Me.pull /\ In(ret, human).memo = Me.memo
        /\ In(ret, human).pc = "gate" /\ In(ret, human).ret = ret
    BY <1>1, <1>3 DEF EnterGate, Local, Calls, GatePcs
  <2> QED BY <1>1, <1>3, <2>1
<1>4. ASSUME NEW ret \in Rets \ {"readvance"}, NEW st \in {"open", "closed", "merged"},
             proc' = [proc EXCEPT ![Poll] = Shut(st, ret)]
      PROVE  \E nu : To(nu)
  <2>1. /\ Shut(st, ret) \in Local /\ Shut(st, ret).head = Me.head
        /\ Shut(st, ret).pull.head = host.head /\ Shut(st, ret).memo = Me.memo
        /\ Shut(st, ret).pc = "close" /\ Shut(st, ret).ret = ret
    BY <1>1, <1>4 DEF Local, Calls, Mirrors
  <2>2. Shut(st, ret).pull.head <= Limit
    BY <1>1, <2>1
  <2> DEFINE nu == Shut(st, ret)
  <2>3. To(nu)
    <3> HIDE DEF Shut
    <3> QED BY <1>1, <1>4, <2>1, <2>2
  <2> HIDE DEF To
  <2> QED BY <2>3
<1>5. ASSUME proc' = [proc EXCEPT ![Poll] = Idle] PROVE Moved(Poll) /\ Path(Poll)
  <2>1. Idle.pc = "idle" /\ Idle.head = 0 /\ Idle.pull.head = 0 /\ Idle.memo = {}
    BY DEF Idle
  <2>2. Idle.head <= Limit /\ Idle.pull.head <= Limit /\ Idle.pc \in Listing
    BY <1>1, <2>1 DEF Listing
  <2> QED BY <1>0, <1>5, <2>1, <2>2, IdleWell, PollTo
<1>6. \/ \E nu : To(nu)
      \/ proc' = [proc EXCEPT ![Poll] = Idle]
  <2> HIDE DEF To
  <2>r. /\ {"comments", "asked", "close", "closed", "retry", "idle"} \subseteq Rets \ {"readvance"}
        /\ {"drive", "comments", "asked", "review", "promote", "external", "retry", "closed"}
             \subseteq Listing \ {"idle", "readvance"}
        /\ host.st \in {"open", "closed", "merged"}
    BY DEF Rets, Listing, Base, TypeOK, StoreOK, Hosts
  <2>1. CASE Store
    BY <2>1, <1>2, <2>r DEF Store, Go, Set, Me
  <2>2. CASE Drive
    BY <2>2, <1>2, <1>3, <2>r DEF Drive, Set
  <2>3. CASE Comments
    BY <2>3, <1>2, <1>3, <2>r DEF Comments, Set
  <2>4. CASE Asked
    BY <2>4, <1>2, <2>r DEF Asked, Go, Set, Me
  <2>5. CASE Promote
    <3> DEFINE nu == [Me EXCEPT !.pc = "external", !.memo = {}]
    <3>1. nu \in Local /\ nu.head = Me.head /\ nu.pull = Me.pull /\ nu.memo = {} /\ nu.pc = "external"
      BY <1>1 DEF Local, Listing
    <3>2. proc' = [proc EXCEPT ![Poll] = nu]
      BY <2>5 DEF Promote, Set
    <3> HIDE DEF nu
    <3>3. To(nu)
      BY <1>1, <3>1, <3>2 DEF To, Listing
    <3> QED BY <3>3
  <2>6. CASE External
    BY <2>6, <1>2, <1>3, <1>4, <2>r DEF External, Set
  <2>7. CASE RetryClosed
    BY <2>7, <1>2, <1>3, <2>r DEF RetryClosed, Set
  <2>8. CASE ClosedReviewing
    BY <2>8, <1>4, <2>r DEF ClosedReviewing, Set
  <2> QED BY <2>1, <2>2, <2>3, <2>4, <2>5, <2>6, <2>7, <2>8
<1>7. Moved(Poll) /\ Path(Poll)
  <2>1. CASE \E nu : To(nu)
    <3>1. PICK nu : To(nu)
      BY <2>1
    <3>2. nu.pc \notin {"opened", "mirror", "cleanup", "readvance", "advance"}
          /\ nu.pc \in Listing \cup {"gate", "close"}
      BY <3>1 DEF Listing
    <3>3. nu.head <= Limit /\ nu.head >= 1 /\ nu.memo \subseteq Placed
      BY <1>1, <3>1
    <3> QED BY <1>0, <3>1, <3>2, <3>3, PollTo
  <2> QED BY <1>5, <1>6, <2>1
<1>8. /\ task' \in TaskStates /\ TaskPath(Poll) /\ ask' \in BOOLEAN
      /\ mirror' \in Mirrors
  <2>1. task' \in TaskStates /\ TaskPath(Poll)
    BY DEF Store, Drive, Comments, Asked, Promote, External, RetryClosed, ClosedReviewing,
           TaskPath, TaskStates, Candidates, Waiting, Base, TypeOK, StoreOK
  <2>2. UNCHANGED ask \/ ask' = FALSE
    BY DEF Store, Drive, Comments, Asked, Promote, External, RetryClosed, ClosedReviewing
  <2>3. UNCHANGED mirror \/ mirror' = [st |-> "open", head |-> Me.head]
    BY DEF Store, Drive, Comments, Asked, Promote, External, RetryClosed, ClosedReviewing
  <2>4. Me.head \in SomeHead
    BY <1>1 DEF Local
  <2>5. mirror' \in Mirrors
    BY <2>3, <2>4, StoreTypes DEF Mirrors
  <2> QED BY <2>1, <2>2, <2>5, StoreTypes
<1>9. Stored
  BY <1>0, <1>8, PollStored
<1> QED BY <1>7, <1>8, <1>9 DEF Kept

LEMMA ReconcileKeeps == ASSUME Base, Reconcile PROVE Kept(Poll)
<1> DEFINE now == {j \in Me.memo : job[j].head = Me.head}
           next == [Me EXCEPT !.pc = "promote"]
           again == [Me EXCEPT !.pc = "readvance", !.todo = now]
<1>1. /\ PollOnly /\ UNCHANGED <<task, mirror, ask>> /\ Limit' = Limit /\ Me.pc = "review"
      /\ \/ Trigger(Me, "promote")
         \/ proc' = [proc EXCEPT ![Poll] = next] /\ UNCHANGED job
         \/ proc' = [proc EXCEPT ![Poll] = again] /\ UNCHANGED job
  BY HereWeAre DEF Reconcile, Set, PollOnly
<1>2. /\ Me \in Local /\ Me.head \in Nat /\ Me.head >= 1 /\ Me.head <= Limit
      /\ Me.pull.head <= Limit /\ Me.memo \subseteq Placed /\ Me.memo \subseteq Reviews
  BY <1>1, HereWeAre
<1>3. Moved(Poll) /\ Path(Poll) /\ (UNCHANGED job \/ \E k : job' = Superseded(k))
  <2>1. CASE Trigger(Me, "promote")
    BY <1>1, <1>2, <2>1, TriggerKeeps
  <2>2. CASE proc' = [proc EXCEPT ![Poll] = next] /\ UNCHANGED job
    <3>1. next \in Local /\ next.pc = "promote" /\ next.head = Me.head /\ next.pull = Me.pull
          /\ next.memo = Me.memo
      BY <1>2 DEF Local, Listing
    <3>2. "promote" \in Listing
      BY DEF Listing
    <3> HIDE DEF next
    <3> QED BY <1>1, <1>2, <2>2, <3>1, <3>2, PollTo
  <2>3. CASE proc' = [proc EXCEPT ![Poll] = again] /\ UNCHANGED job
    <3>1. now \subseteq Placed \cap Reviews /\ now \in SUBSET (Reviewers \cup Reviews)
      BY <1>2
    <3> HIDE DEF now
    <3>2. again \in Local /\ again.pc = "readvance" /\ again.head = Me.head /\ again.pull = Me.pull
          /\ again.memo = Me.memo /\ again.todo = now
      BY <1>2, <3>1 DEF Local, Listing
    <3>3. "readvance" \in Listing
      BY DEF Listing
    <3> HIDE DEF again
    <3> QED BY <1>1, <1>2, <2>3, <3>1, <3>2, <3>3, PollTo
  <2> QED BY <1>1, <2>1, <2>2, <2>3
<1>4. Stored /\ TaskPath(Poll)
  BY <1>1, <1>3, PollStored, StoreTypes DEF TaskPath
<1> QED BY <1>3, <1>4 DEF Kept

LEMMA ReadvanceKeeps == ASSUME Base, Readvance PROVE Kept(Poll)
<1> DEFINE skip(j) == [Me EXCEPT !.todo = @ \ {j}]
           run(j) == [Me EXCEPT !.todo = @ \ {j}, !.pc = "advance", !.job = j, !.ret = "readvance"]
           next == Listed(Me, "promote")
<1>1. /\ PollOnly /\ UNCHANGED <<task, mirror, ask, job>> /\ Limit' = Limit /\ Me.pc = "readvance"
      /\ \/ proc' = [proc EXCEPT ![Poll] = next]
         \/ \E j \in Me.todo : proc' = [proc EXCEPT ![Poll] = skip(j)]
         \/ \E j \in Me.todo : proc' = [proc EXCEPT ![Poll] = run(j)]
  BY HereWeAre DEF Readvance, Set, PollOnly
<1>2. /\ Me \in Local /\ Me.head \in Nat /\ Me.head >= 1 /\ Me.head <= Limit
      /\ Me.pull.head <= Limit /\ Me.memo \subseteq Placed /\ Me.todo \subseteq Placed \cap Reviews
      /\ Me.head \in SomeHead /\ Me.open \in BOOLEAN /\ Me.memo \in SUBSET Reviews
      /\ Limit \in Nat
  BY <1>1, HereWeAre DEF Local
<1>3. Moved(Poll) /\ Path(Poll)
  <2>1. CASE proc' = [proc EXCEPT ![Poll] = next]
    <3>1. "promote" \in Listing
      BY DEF Listing
    <3>2. next \in Local
      BY <1>2, <3>1, IdleWell DEF Listed, Local
    <3>3. next.pc = "promote" /\ next.head = Me.head /\ next.pull.head = 0 /\ next.memo = Me.memo
      BY DEF Listed, Idle
    <3>4. next.pull.head <= Limit
      BY <1>2, <3>3
    <3> HIDE DEF next
    <3> QED BY <1>1, <1>2, <2>1, <3>1, <3>2, <3>3, <3>4, PollTo
  <2>2. ASSUME NEW j \in Me.todo, proc' = [proc EXCEPT ![Poll] = skip(j)]
        PROVE  Moved(Poll) /\ Path(Poll)
    <3>1. skip(j) \in Local /\ skip(j).pc = "readvance" /\ skip(j).head = Me.head
          /\ skip(j).pull = Me.pull /\ skip(j).memo = Me.memo /\ skip(j).todo \subseteq Placed \cap Reviews
      BY <1>1, <1>2 DEF Local
    <3>2. "readvance" \in Listing
      BY DEF Listing
    <3> HIDE DEF skip
    <3> QED BY <1>1, <1>2, <2>2, <3>1, <3>2, PollTo
  <2>3. ASSUME NEW j \in Me.todo, proc' = [proc EXCEPT ![Poll] = run(j)]
        PROVE  Moved(Poll) /\ Path(Poll)
    <3>1. j \in Placed \cap Reviews /\ j \in Jobs /\ "advance" \in Listing \cup Calls /\ "readvance" \in Rets
      BY <1>2, JobsApart DEF Calls, Rets
    <3>2. run(j) \in Local /\ run(j).pc = "advance" /\ run(j).head = Me.head /\ run(j).job = j
          /\ run(j).pull = Me.pull /\ run(j).memo = Me.memo /\ run(j).todo \subseteq Placed \cap Reviews
          /\ run(j).ret = "readvance"
      BY <1>2, <3>1 DEF Local
    <3> HIDE DEF run
    <3> QED BY <1>1, <1>2, <2>3, <3>1, <3>2, PollTo
  <2> QED BY <1>1, <2>1, <2>2, <2>3
<1>4. Stored /\ TaskPath(Poll)
  BY <1>1, PollStored, StoreTypes DEF TaskPath
<1> QED BY <1>3, <1>4 DEF Kept

LEMMA CloseKeeps == ASSUME Base, Close \/ CloseMirror \/ CloseCleanup PROVE Kept(Poll)
<1> DEFINE shut(b) == [Me EXCEPT !.pc = "mirror", !.base = b]
           on(pc) == [Me EXCEPT !.pc = pc]
<1>1. /\ UNCHANGED <<plan, host, ci, obs, parked, auto, ask, moves>>
      /\ Me.pc \in {"close", "mirror", "cleanup"} /\ Me.pc \in Calls
      /\ \/ Return(Poll, "ok")
         \/ /\ UNCHANGED job /\ Me.pc = "close"
            /\ \E b \in BOOLEAN : proc' = [proc EXCEPT ![Poll] = shut(b)]
         \/ /\ UNCHANGED job /\ \E pc \in {"mirror", "cleanup"} : proc' = [proc EXCEPT ![Poll] = on(pc)]
            /\ Me.pc \in {"close", "mirror"}
  <2>1. UNCHANGED <<plan, host, ci, obs, parked, auto, ask, moves>>
        /\ Me.pc \in {"close", "mirror", "cleanup"} /\ Me.pc \in Calls
    BY DEF Close, CloseMirror, CloseCleanup, PollOnly, Calls
  <2>2. CASE Close
    <3>1. (Me.pull.st = "merged" \/ task = "awaiting") \in BOOLEAN
      OBVIOUS
    <3> QED BY <2>1, <2>2, <3>1 DEF Close, Go, Set, Me
  <2>3. CASE CloseMirror \/ CloseCleanup
    BY <2>1, <2>3 DEF CloseMirror, CloseCleanup, Go, Set, Me
  <2> QED BY <2>1, <2>2, <2>3
<1>2. /\ Me \in Local /\ Me.head \in Nat /\ Me.head >= 1 /\ Me.head <= Limit /\ Poll \in Procs
      /\ Me.pull.head <= Limit /\ Me.memo \subseteq Placed /\ Me = proc[Poll]
  BY <1>1, HereWeAre DEF Calls, GatePcs, TriggerPcs, Me
<1>3. /\ task' \in TaskStates /\ TaskPath(Poll) /\ branch' \in Branches /\ branch'.tip = branch.tip
      /\ mirror' \in Mirrors /\ Limit' = Limit
  <2>1. task' \in TaskStates /\ TaskPath(Poll)
    BY DEF Close, CloseMirror, CloseCleanup, TaskPath, TaskStates, Candidates, Waiting, Base,
           TypeOK, StoreOK
  <2>2. branch' \in Branches /\ branch'.tip = branch.tip
    <3>1. \/ UNCHANGED branch
          \/ \E t \in {0, branch.tree} : branch' = [branch EXCEPT !.lock = FALSE, !.tree = t]
      BY DEF Close, CloseMirror, CloseCleanup, PollOnly
    <3>2. {0, branch.tree} \subseteq SomeHead
      BY BranchTypes, Constants DEF Branches
    <3> QED BY <3>1, <3>2, BranchTypes
  <2>3. UNCHANGED mirror \/ mirror' = Me.pull
    BY DEF Close, CloseMirror, CloseCleanup
  <2>4. mirror' \in Mirrors
    BY <1>2, <2>3, StoreTypes DEF Local
  <2>5. Limit' = Limit
    BY <1>1, <2>2, LimitStill
  <2> QED BY <2>1, <2>2, <2>4, <2>5, StoreTypes
<1>4. Moved(Poll) /\ Path(Poll) /\ SameRows
  <2>0. {"mirror", "cleanup"} \subseteq Calls
    BY DEF Calls
  <2>1. CASE Return(Poll, "ok")
    BY <1>1, <1>2, <1>3, <2>1, ReturnKeeps
  <2>2. ASSUME Me.pc = "close", NEW b \in BOOLEAN, proc' = [proc EXCEPT ![Poll] = shut(b)]
        PROVE  Moved(Poll) /\ Path(Poll)
    <3>1. shut(b) \in Local /\ shut(b).pc = "mirror" /\ shut(b).head = Me.head /\ shut(b).job = Me.job
          /\ shut(b).pull = Me.pull /\ shut(b).memo = Me.memo /\ shut(b).todo = Me.todo
          /\ shut(b).ret = Me.ret
      BY <1>2, <2>0 DEF Local
    <3> HIDE DEF shut
    <3> QED BY <1>1, <1>2, <1>3, <2>2, <3>1, PollTo
  <2>3. ASSUME Me.pc \in {"close", "mirror"}, NEW pc \in {"mirror", "cleanup"},
               proc' = [proc EXCEPT ![Poll] = on(pc)]
        PROVE  Moved(Poll) /\ Path(Poll)
    <3>1. on(pc) \in Local /\ on(pc).pc = pc /\ on(pc).head = Me.head /\ on(pc).job = Me.job
          /\ on(pc).pull = Me.pull /\ on(pc).memo = Me.memo /\ on(pc).todo = Me.todo
          /\ on(pc).ret = Me.ret
      BY <1>2, <2>0 DEF Local
    <3> HIDE DEF on
    <3> QED BY <1>1, <1>2, <1>3, <2>3, <3>1, PollTo
  <2> QED BY <1>1, <2>1, <2>2, <2>3, StoreTypes
<1>5. Stored
  BY <1>1, <1>3, <1>4, StoredStill, StoreTypes
<1> QED BY <1>3, <1>4, <1>5 DEF Kept

LEMMA PollKeeps == ASSUME Base, PollStart \/ PollStep PROVE Kept(Poll)
BY PollStartKeeps, ChangedKeeps, ListKeeps, ReconcileKeeps, ReadvanceKeeps, CloseKeeps DEF PollStep
-----------------------------------------------------------------------------
(* Workers, people, the host, CI and crashes *)

\* The preflight gives a job a head.
LEMMA PreflightHead ==
    ASSUME Base, NEW j \in Jobs, Seen(j), NEW h \in Preflight(j)
    PROVE  /\ j \in Placed /\ h \in SomeHead /\ h >= 1 /\ h <= Limit
           /\ plan.follow => h = job[j].head
<1>1. job[j] \in Row /\ job[j].head \in SomeHead /\ job[j].head \in Nat /\ job[j].head <= Limit
  BY Constants DEF Base, TypeOK, StoreOK, Row, RowInv
<1>2. branch.tree \in SomeHead
  BY BranchTypes DEF Branches
<1>3. CASE j \in Fixes
  <2>1. h = job[j].head /\ h # 0
    BY <1>3 DEF Preflight
  <2> QED BY <1>1, <2>1, Constants DEF Placed
<1>4. CASE j \notin Fixes
  <2>1. j \in Sent /\ j \in Placed /\ job[j].head >= 1
    BY <1>4, JobsApart, SentPlaced DEF Sent, Placed
  <2>2. CASE plan.follow
    <3>1. h = job[j].head
      BY <1>4, <2>2 DEF Preflight
    <3> QED BY <1>1, <2>1, <3>1
  <2>3. CASE ~plan.follow
    <3>1. h = branch.tree /\ (h = job[j].head \/ h # 0)
      BY <1>4, <2>3 DEF Preflight
    <3>2. Limit = Stray
      BY <2>3 DEF Limit
    <3>3. h \in SomeHead /\ h \in Nat /\ h <= Stray
      BY <1>2, <3>1, Constants
    <3>4. h >= 1
      <4>1. h = 0 => h = job[j].head
        BY <3>1
      <4> QED BY <2>1, <3>3, <4>1
    <3> QED BY <2>1, <2>3, <3>2, <3>3, <3>4
  <2> QED BY <2>2, <2>3
<1> QED BY <1>3, <1>4

LEMMA WorkerMoves ==
    ASSUME Base, NEW j \in Placed, Limit' = Limit,
           Set(Worker, [Idle EXCEPT !.pc = "advance", !.job = j])
    PROVE  Moved(Worker) /\ Path(Worker)
<1> DEFINE nu == [Idle EXCEPT !.pc = "advance", !.job = j]
<1>1. Worker \in Procs /\ Worker # Fg /\ Worker # Poll /\ j \in Jobs
  BY DEF Procs, Daemon, Worker, Poll, Fg, Placed
<1>2. nu \in Local
  <2>1. "advance" \in Listing \cup Calls
    BY DEF Calls
  <2> QED BY <1>1, <2>1, IdleWell DEF Local
<1>3. nu.pc = "advance" /\ nu.head = 0 /\ nu.pull.head = 0 /\ nu.job = j
  BY DEF Idle
<1>4. Well(plan, Limit', Placed, Worker, nu)
  <2> HIDE DEF nu
  <2> QED BY <1>1, <1>3, Limits DEF Well, HeadPcs, FinalPcs
<1>5. proc' = [proc EXCEPT ![Worker] = nu]
  BY DEF Set
<1>6. Moved(Worker) /\ proc'[Worker].pc = "advance"
  <2> HIDE DEF nu
  <2> QED BY <1>1, <1>2, <1>3, <1>4, <1>5 DEF Moved, Base, TypeOK
<1>7. Path(Worker)
  BY <1>6 DEF Path, Passed, GatePcs
<1> QED BY <1>6, <1>7

\* One row of a job changes: the job is dropped or done, or only gets a head.
LEMMA RowEnds ==
    ASSUME Base, NEW j \in Jobs, Seen(j), plan' = plan, branch' \in Branches,
           branch'.tip = branch.tip, moves' \subseteq Moves,
           UNCHANGED <<host, ci, obs, task, parked, mirror, auto, ask>>,
           NEW r \in Row, job' = [job EXCEPT ![j] = r],
           r.head >= 1 \/ r.head = job[j].head, r.head <= Limit,
           plan.follow => r.head = job[j].head, r.st # "none",
           r.dec # "none" \/ r.adv = "due" => r.st = "done",
           \/ r.st # "queued" /\ r.dec = job[j].dec
           \/ /\ job[j].st = "queued" /\ r.st = "done"
              /\ proc[Worker].pc = "idle" /\ Me.pc = "idle"
    PROVE  Stored
<1>1. /\ job' \in [Jobs -> Row] /\ job'[j] = r /\ \A k \in Jobs \ {j} : job'[k] = job[k]
      /\ Limit' = Limit
  BY LimitStill DEF Base, TypeOK, StoreOK
<1>2. Sent' = Sent /\ Placed \subseteq Placed'
  <2>1. \A k \in Jobs : Seen(k)' <=> Seen(k)
    BY <1>1 DEF Seen
  <2>2. \A k \in Placed : job'[k].head >= 1
    BY <1>1 DEF Placed
  <2> QED BY <2>1, <2>2, JobsApart DEF Sent, Placed
<1>3. RowInv'
  <2>1. \A k \in Sent : Agent(k) \in plan.reviewers /\ job'[k].head >= 1
    BY <1>1, JobsApart DEF Base, RowInv, Sent
  <2>2. \A k \in Jobs : job'[k].head <= Limit
    BY <1>1 DEF Base, RowInv
  <2>3. \A k \in Jobs : job'[k].dec # "none" \/ job'[k].adv = "due" => job'[k].st = "done"
    BY <1>1 DEF Base, RowInv
  <2> QED BY <1>1, <1>2, <2>1, <2>2, <2>3 DEF RowInv
<1>4. ASSUME plan.follow PROVE RowsPath
  <2>0. \A k \in Reviews : k \in Jobs
    BY JobsApart
  <2>1. CASE j \notin Reviews
    <3>1. \A k \in Reviews : job'[k] = job[k]
      BY <1>1, <2>0, <2>1
    <3> QED BY <3>1 DEF RowsKept, RowsPath
  <2>2. CASE j \in Reviews /\ r.st # "queued" /\ r.dec = job[j].dec
    BY <1>1, <1>4, <2>0, <2>2 DEF RowsKept, RowsPath, Seen
  <2>3. CASE j \in Reviews /\ job[j].st = "queued" /\ r.st = "done" /\ proc[Worker].pc = "idle"
             /\ Me.pc = "idle"
    <3>1. Decided(j)
      BY <1>1, <1>4, <2>0, <2>3 DEF Decided, Me
    <3> QED BY <2>3, <3>1 DEF RowsPath
  <2> QED BY <2>1, <2>2, <2>3
<1>5. StoreOK' /\ HostPath /\ CIPath /\ HostInv' /\ branch'.tip >= branch.tip
  BY <1>1, CIStill, Limits DEF Base, TypeOK, StoreOK, HostPath, HostInv
<1> QED BY <1>1, <1>2, <1>3, <1>4, <1>5 DEF Stored

LEMMA RetryKeeps == ASSUME Base, NEW j \in Jobs, Retry(j) PROVE Kept(Worker)
<1>1. /\ job[j].adv = "due" /\ Set(Worker, [Idle EXCEPT !.pc = "advance", !.job = j])
      /\ UNCHANGED <<plan, host, ci, obs, task, parked, mirror, branch, auto, ask, moves>>
  BY DEF Retry
<1>2. Seen(j) /\ job[j].st = "done" /\ job \in [Jobs -> Row] /\ job[j] \in Row
  BY <1>1 DEF Base, RowInv, Seen, TypeOK, StoreOK
<1>3. PICK h \in Preflight(j) : job' = [job EXCEPT ![j].head = h]
  BY DEF Retry
<1>4. j \in Placed /\ h \in SomeHead /\ h >= 1 /\ h <= Limit /\ (plan.follow => h = job[j].head)
  BY <1>2, PreflightHead
<1> DEFINE r == [job[j] EXCEPT !.head = h]
<1>5. /\ r \in Row /\ r.head = h /\ r.st = "done" /\ r.dec = job[j].dec
      /\ job' = [job EXCEPT ![j] = r]
  BY <1>2, <1>3, <1>4 DEF Row
<1>6. branch' \in Branches /\ branch'.tip = branch.tip /\ moves' \subseteq Moves /\ Limit' = Limit
  BY <1>1, StoreTypes, LimitStill
<1>7. Stored
  <2> HIDE DEF r
  <2> QED BY <1>1, <1>2, <1>4, <1>5, <1>6, RowEnds
<1>8. Moved(Worker) /\ Path(Worker)
  BY <1>1, <1>4, <1>6, WorkerMoves
<1> QED BY <1>1, <1>7, <1>8 DEF Kept, TaskPath

\* A job the preflight refuses
LEMMA DropStored ==
    ASSUME Base, NEW j \in Jobs, job[j].st = "queued", job' = [job EXCEPT ![j].st = "dropped"],
           UNCHANGED <<plan, host, ci, obs, task, parked, mirror, branch, auto, ask>>,
           moves' \subseteq Moves
    PROVE  Stored
<1> DEFINE r == [job[j] EXCEPT !.st = "dropped"]
<1>1. r \in Row /\ r.head = job[j].head /\ r.st = "dropped" /\ r.dec = job[j].dec
      /\ r.dec = "none" /\ r.adv # "due" /\ job' = [job EXCEPT ![j] = r] /\ r.head <= Limit
  BY DEF Base, TypeOK, StoreOK, Row, RowInv
<1>2. branch' \in Branches /\ branch'.tip = branch.tip /\ Seen(j)
  BY StoreTypes DEF Seen
<1> HIDE DEF r
<1> QED BY <1>1, <1>2, RowEnds

LEMMA WorkKeeps == ASSUME Base, NEW j \in Jobs, Work(j) PROVE Kept(Worker)
<1>1. /\ job[j].st = "queued" /\ Seen(j) /\ proc[Worker].pc = "idle" /\ Me.pc = "idle"
      /\ UNCHANGED <<plan, host, ci, obs, task, parked, mirror, auto, ask, moves>>
      /\ moves' \subseteq Moves /\ TaskPath(Worker)
  BY StoreTypes DEF Work, Seen, TaskPath
<1>2. CASE job' = [job EXCEPT ![j].st = "dropped"] /\ UNCHANGED <<branch, proc>>
  <2>1. Stored
    BY <1>1, <1>2, DropStored
  <2>2. Worker \in Procs /\ proc[Worker] \in Local /\ proc' = [proc EXCEPT ![Worker] = proc[Worker]]
        /\ Well(plan, Limit, Placed, Worker, proc[Worker]) /\ Limit' = Limit
    <3>1. Worker \in Procs
      BY DEF Procs, Daemon
    <3>2. proc' = [proc EXCEPT ![Worker] = proc[Worker]]
      BY <1>2, <3>1 DEF Base, TypeOK
    <3> QED BY <1>1, <1>2, <3>1, <3>2, Where, LimitStill
  <2>3. Moved(Worker)
    BY <2>2 DEF Moved
  <2>4. Path(Worker)
    BY <1>1, <1>2 DEF Path, Passed, GatePcs
  <2> QED BY <1>1, <2>1, <2>3, <2>4 DEF Kept
<1>3. ASSUME NEW h \in Preflight(j), NEW dec \in {"approved", "changes", "blocked", "implemented"},
             job' = [job EXCEPT ![j].st = "done", ![j].head = h, ![j].dec = dec, ![j].adv = "due"],
             NEW tree \in {branch.tree, Stray}, branch' = [branch EXCEPT !.tree = tree],
             Set(Worker, [Idle EXCEPT !.pc = "advance", !.job = j])
      PROVE  Kept(Worker)
  <2>1. j \in Placed /\ h \in SomeHead /\ h >= 1 /\ h <= Limit /\ (plan.follow => h = job[j].head)
    BY <1>1, PreflightHead
  <2> DEFINE r == [job[j] EXCEPT !.st = "done", !.head = h, !.dec = dec, !.adv = "due"]
  <2>2. r \in Row /\ r.head = h /\ r.st = "done" /\ job' = [job EXCEPT ![j] = r]
    <3>1. job \in [Jobs -> Row] /\ job[j] \in Row
      BY DEF Base, TypeOK, StoreOK
    <3>2. r \in Row /\ r.head = h /\ r.st = "done"
      BY <2>1, <3>1 DEF Row
    <3>3. job' = [job EXCEPT ![j] = r]
      BY <1>3, <3>1
    <3> QED BY <3>2, <3>3
  <2>3. branch' \in Branches /\ branch'.tip = branch.tip
    <3>1. tree \in SomeHead
      BY BranchTypes, Constants DEF Branches
    <3> QED BY <1>3, <3>1, BranchTypes
  <2>4. Stored
    <3> HIDE DEF r
    <3> QED BY <1>1, <2>1, <2>2, <2>3, RowEnds
  <2>5. Moved(Worker) /\ Path(Worker)
    BY <1>1, <1>3, <2>1, <2>3, LimitStill, WorkerMoves
  <2> QED BY <1>1, <2>4, <2>5 DEF Kept
<1>4. CASE \E h \in Preflight(j) : \E dec \in {"approved", "changes", "blocked", "implemented"},
                tree \in {branch.tree, Stray} :
            /\ job' = [job EXCEPT ![j].st = "done", ![j].head = h, ![j].dec = dec, ![j].adv = "due"]
            /\ branch' = [branch EXCEPT !.tree = tree]
            /\ Set(Worker, [Idle EXCEPT !.pc = "advance", !.job = j])
  BY <1>3, <1>4
<1>5. plan.verdicts \subseteq {"approved", "changes", "blocked"}
  BY PlansAssumption DEF Base, TypeOK, StoreOK
<1> QED BY <1>2, <1>4, <1>5 DEF Work

\* What people, the host and CI do leaves the actors and the task alone.
Aside == Stored /\ UNCHANGED <<proc, task>>

LEMMA DropAside == ASSUME Base, NEW j \in Reviews, Drop(j) PROVE Aside
<1>1. /\ job[j].st = "queued" /\ job' = [job EXCEPT ![j].st = "dropped"] /\ moves' \subseteq Moves
      /\ UNCHANGED <<plan, host, ci, obs, task, parked, mirror, branch, auto, ask, proc>>
  BY DEF Drop, Use, Outside, Base, TypeOK, StoreOK
<1>2. j \in Jobs
  BY JobsApart
<1> QED BY <1>1, <1>2, DropStored DEF Aside

LEMMA PeopleAside ==
    ASSUME Base, Push \/ PeopleMerge \/ ClosePull \/ Reopen \/ MoveBase \/ Ask \/ Flip
    PROVE  Aside
<1>1. /\ UNCHANGED <<plan, ci, obs, task, parked, mirror, job, proc>> /\ moves' \subseteq Moves
      /\ auto' \in BOOLEAN /\ ask' \in BOOLEAN
  BY DEF Push, PeopleMerge, ClosePull, Reopen, MoveBase, Ask, Flip, Use, Outside, Base, TypeOK,
         StoreOK
<1>2. /\ host \in Hosts /\ branch \in Branches /\ branch.tip >= branch.tip /\ plan.heads \in Heads
      /\ host.head \in Nat /\ branch.tip \in Nat /\ branch.tip \in Heads
  BY Limits, PlansAssumption DEF Base, TypeOK, StoreOK
<1>3. /\ host' \in Hosts /\ branch' \in Branches /\ branch'.tip >= branch.tip /\ HostInv'
      /\ host'.by \in {host.by, "people"}
  <2>1. CASE Push
    <3> DEFINE h == branch.tip + 1
    <3>1. h \in Heads /\ h >= branch.tip
      BY <1>2, <2>1, Constants DEF Push, Heads
    <3>2. PICK here \in BOOLEAN : branch' = Pushed(h, here)
      BY <2>1 DEF Push
    <3>3. host' = IF host.st = "open" THEN [host EXCEPT !.head = h] ELSE host
      BY <2>1 DEF Push
    <3> HIDE DEF h
    <3>4. host' \in Hosts /\ host'.by = host.by /\ host'.st = host.st
          /\ host'.head = IF host'.st = "open" THEN h ELSE host.head
      BY <1>2, <3>1, <3>3 DEF Hosts
    <3> QED BY <3>1, <3>2, <3>4, PushTypes
  <2>2. CASE PeopleMerge
    <3>1. branch' = branch /\ host' = [host EXCEPT !.st = "merged", !.by = "people"]
      BY <2>2 DEF PeopleMerge
    <3>2. host' \in Hosts /\ host'.by = "people" /\ host'.head = host.head /\ host'.st = "merged"
      BY <1>2, <3>1 DEF Hosts
    <3> QED BY <1>2, <3>1, <3>2 DEF Base, HostInv
  <2>3. CASE ClosePull
    <3>1. branch' = branch /\ host' = [host EXCEPT !.st = "closed"]
      BY <2>3 DEF ClosePull
    <3>2. host' \in Hosts /\ host'.by = host.by /\ host'.head = host.head /\ host'.st = "closed"
      BY <1>2, <3>1 DEF Hosts
    <3> QED BY <1>2, <3>1, <3>2 DEF Base, HostInv
  <2>4. CASE Reopen
    <3>1. branch' = branch /\ host' = [host EXCEPT !.st = "open", !.head = branch.tip]
      BY <2>4 DEF Reopen
    <3>2. host' \in Hosts /\ host'.by = host.by /\ host'.head = branch.tip /\ host'.st = "open"
      BY <1>2, <3>1 DEF Hosts
    <3> QED BY <1>2, <3>1, <3>2 DEF Base, HostInv
  <2>5. CASE MoveBase
    <3>1. branch' = branch /\ host' = [host EXCEPT !.behind = TRUE]
      BY <2>5 DEF MoveBase
    <3>2. host' \in Hosts /\ host'.by = host.by /\ host'.head = host.head /\ host'.st = host.st
      BY <1>2, <3>1 DEF Hosts
    <3> QED BY <1>2, <3>1, <3>2 DEF Base, HostInv
  <2>6. CASE Ask \/ Flip
    <3>1. branch' = branch /\ host' = host
      BY <2>6 DEF Ask, Flip
    <3> QED BY <1>2, <3>1 DEF Base, HostInv
  <2> QED BY <2>1, <2>2, <2>3, <2>4, <2>5, <2>6
<1>4. HostPath
  BY <1>3 DEF HostPath
<1>5. Stored
  BY <1>1, <1>3, <1>4, StoredMoved, StoreTypes
<1> QED BY <1>1, <1>5 DEF Aside

LEMMA CIAside == ASSUME Base, (\E h \in Heads : CIStart(h) \/ CIEnd(h)) \/ Clock PROVE Aside
<1>1. /\ UNCHANGED <<plan, host, task, parked, mirror, branch, job, auto, ask, moves, proc>>
  BY DEF CIStart, CIEnd, Clock, Outside
<1>2. plan.ci \subseteq {"green", "red"}
  BY PlansAssumption DEF Base, TypeOK, StoreOK
<1>0. ci \in [Heads -> {"none", "pending", "green", "red"}] /\ obs \in [head : SomeHead, over : BOOLEAN]
  BY DEF Base, TypeOK, StoreOK
<1>3. ci' \in [Heads -> {"none", "pending", "green", "red"}] /\ obs' \in [head : SomeHead, over : BOOLEAN]
  <2>1. ASSUME NEW h \in Heads, CIStart(h) \/ CIEnd(h)
        PROVE  obs' = obs /\ \E res \in {"pending", "green", "red"} : ci' = [ci EXCEPT ![h] = res]
    BY <1>2, <2>1 DEF CIStart, CIEnd, Outside
  <2>2. ASSUME NEW h \in Heads, CIStart(h) \/ CIEnd(h)
        PROVE  obs' = obs /\ ci' \in [Heads -> {"none", "pending", "green", "red"}]
    BY <1>0, <2>1, <2>2
  <2>3. CASE Clock
    BY <1>0, <2>3 DEF Clock
  <2> QED BY <1>0, <2>2, <2>3
<1>4. CIPath
  <2>0. ci \in [Heads -> {"none", "pending", "green", "red"}] /\ obs \in [head : SomeHead, over : BOOLEAN]
    BY <1>0
  <2>1. ASSUME NEW h \in Heads, CIStart(h) PROVE CIPath
    BY <2>0, <2>1 DEF CIStart, Outside, CIPath, CIPassed, Waited
  <2>2. ASSUME NEW h \in Heads, CIEnd(h) PROVE CIPath
    BY <2>0, <2>2 DEF CIEnd, Outside, CIPath, CIPassed, Waited
  <2>3. CASE Clock
    BY <2>0, <2>3 DEF Clock, CIPath, CIPassed, Waited
  <2> QED BY <2>1, <2>2, <2>3
<1>5. Stored
  BY <1>1, <1>3, <1>4, StoredStill, StoreTypes
<1> QED BY <1>1, <1>5 DEF Aside

Resets == Stored /\ UNCHANGED task /\ \E ps \in SUBSET Procs : proc' = [p \in Procs |-> IF p \in ps THEN Idle ELSE proc[p]]

LEMMA CrashResets == ASSUME Base, Crash(Daemon) \/ Crash({Fg}) PROVE Resets
<1>1. /\ UNCHANGED <<plan, host, ci, obs, task, parked, mirror, branch, job, auto, ask>>
      /\ moves' \subseteq Moves
  BY DEF Crash, Use, Base, TypeOK, StoreOK
<1>2. Stored
  BY <1>1, StoredStill, StoreTypes
<1>3. Daemon \in SUBSET Procs /\ {Fg} \in SUBSET Procs
  BY DEF Procs
<1> QED BY <1>1, <1>2, <1>3 DEF Resets, Crash

\* The daemon's actors start one at a time.
Alone(p) == p \in Daemon /\ proc[p].pc = "idle" => proc[Worker].pc = "idle" /\ proc[Poll].pc = "idle"

LEMMA StepAwake == ASSUME NEW p, Step(p) PROVE proc[p].pc # "idle"
BY DEF Step, Advance, Block, Changes, DispatchFix, Revisit, Finalize, Adopt, Save,
       Opened, StartRound, Enqueue,
       Reviewing, Baseline, Gate, Pull, Vet, Checkout, Fresh, Merge, Record, Unlock, Merged, Ready,
       Park

LEMMA PollAwake == PollStep => proc[Poll].pc # "idle"
BY DEF PollStep, PullChanged, Store, Drive, Comments, Asked, Reconcile, Readvance, Promote,
       External, RetryClosed, ClosedReviewing, Close, CloseMirror, CloseCleanup, Me

LEMMA NextIs ==
    ASSUME Base, Next
    PROVE  (\E p \in Procs : Kept(p) /\ Alone(p)) \/ Aside \/ Resets
<1>1. CASE PollStart \/ PollStep
  <2>1. Kept(Poll) /\ Poll \in Procs
    BY <1>1, PollKeeps, HereWeAre
  <2>2. Alone(Poll)
    BY <1>1, PollAwake DEF Alone, PollStart, Me
  <2> QED BY <2>1, <2>2
<1>2. CASE \E p \in Procs : Step(p)
  BY <1>2, EngineKeeps, StepAwake DEF Alone
<1>3. CASE \E j \in Jobs : Work(j) \/ Retry(j)
  <2>1. Kept(Worker) /\ Worker \in Procs
    BY <1>3, WorkKeeps, RetryKeeps DEF Procs, Daemon
  <2>2. Alone(Worker)
    BY <1>3 DEF Alone, Work, Retry, Me
  <2> QED BY <2>1, <2>2
<1>4. CASE People
  BY <1>4, DropAside, PeopleAside DEF People
<1>5. CASE (\E h \in Heads : CIStart(h) \/ CIEnd(h)) \/ Clock
  BY <1>5, CIAside
<1>6. CASE Crash(Daemon) \/ Crash({Fg})
  BY <1>6, CrashResets
<1> QED BY <1>1, <1>2, <1>3, <1>4, <1>5, <1>6 DEF Next

LEMMA BaseStep == ASSUME Base, [Next]_vars PROVE Base'
<1>1. CASE UNCHANGED vars
  <2>1. StoreOK' /\ HostInv' /\ RowInv' /\ proc' \in [Procs -> Local] /\ Placed' = Placed /\ Limit' = Limit
    BY <1>1 DEF vars, Base, TypeOK, StoreOK, HostInv, RowInv, Sent, Placed, Seen, Limit
  <2>2. ActorInv'
    BY <1>1, <2>1 DEF vars, Base, ActorInv
  <2> QED BY <2>1, <2>2 DEF Base, TypeOK
<1>2. ASSUME Stored, proc' \in [Procs -> Local],
             \A p \in Procs : proc'[p] = proc[p] \/ Well(plan, Limit', Placed, p, proc'[p])
      PROVE  Base'
  <2>1. /\ Limit \in Nat /\ Limit' \in Nat /\ Limit <= Limit' /\ plan' = plan
        /\ Placed \subseteq Placed'
    <3>1. branch.tip \in Nat /\ branch'.tip \in Nat /\ branch.tip <= branch'.tip
      BY <1>2, Limits, Constants DEF Stored, StoreOK, Branches
    <3>2. plan' = plan /\ Placed \subseteq Placed'
      BY <1>2 DEF Stored
    <3> QED BY <3>1, <3>2, Constants DEF Limit
  <2>2. ASSUME NEW p \in Procs PROVE Well(plan', Limit', Placed', p, proc'[p])
    <3>1. CASE proc'[p] = proc[p]
      <4>1. proc[p] \in Local /\ Well(plan, Limit, Placed, p, proc[p])
        BY Where
      <4>2. Well(plan, Limit', Placed', p, proc[p])
        BY <2>1, <4>1, WellGrows
      <4> QED BY <2>1, <3>1, <4>2
    <3>2. CASE Well(plan, Limit', Placed, p, proc'[p])
      <4>1. Limit' <= Limit' /\ proc'[p] \in Local
        BY <1>2, <2>1
      <4>2. Well(plan, Limit', Placed', p, proc'[p])
        BY <2>1, <3>2, <4>1, WellGrows
      <4> QED BY <2>1, <4>2
    <3> QED BY <1>2, <3>1, <3>2
  <2>3. ActorInv'
    BY <2>2 DEF ActorInv
  <2> QED BY <1>2, <2>3 DEF Base, TypeOK, Stored
<1>3. ASSUME NEW p \in Procs, Kept(p) PROVE Base'
  <2>1. PICK me \in Local : /\ proc' = [proc EXCEPT ![p] = me]
                            /\ Well(plan, Limit', Placed, p, me)
    BY <1>3 DEF Kept, Moved
  <2>2. proc' \in [Procs -> Local] /\ proc'[p] = me /\ \A q \in Procs \ {p} : proc'[q] = proc[q]
    BY <2>1 DEF Base, TypeOK
  <2> QED BY <1>2, <1>3, <2>1, <2>2 DEF Kept
<1>4. CASE Aside
  BY <1>2, <1>4 DEF Aside, Base, TypeOK
<1>5. CASE Resets
  <2>1. Limit' \in Nat
    <3>1. branch'.tip \in Nat
      BY <1>5, Constants DEF Resets, Stored, StoreOK, Branches
    <3> QED BY <3>1, Constants DEF Limit
  <2>2. PICK ps \in SUBSET Procs : proc' = [p \in Procs |-> IF p \in ps THEN Idle ELSE proc[p]]
    BY <1>5 DEF Resets
  <2>3. proc' \in [Procs -> Local] /\ \A p \in Procs : proc'[p] = proc[p] \/ proc'[p] = Idle
    BY <2>2, IdleWell DEF Base, TypeOK
  <2> QED BY <1>2, <1>5, <2>1, <2>3, IdleWell DEF Resets
<1> QED BY <1>1, <1>3, <1>4, <1>5, NextIs

LEMMA InitBase == Init => Base
<1> SUFFICES ASSUME Init PROVE Base
  OBVIOUS
<1> DEFINE done == [NoJob EXCEPT !.st = "done", !.from = "user", !.dec = "implemented", !.adv = "due"]
<1>1. /\ plan \in Plans
      /\ host = [st |-> "open", head |-> 1, behind |-> FALSE, by |-> "none", new |-> FALSE]
      /\ branch = [tip |-> 1, tree |-> 1, lock |-> TRUE]
      /\ job = [j \in Jobs |-> IF j # First THEN NoJob ELSE done]
  BY DEF Init
<1>2. /\ NoJob \in Row /\ NoJob.st = "none" /\ NoJob.head = 0 /\ NoJob.dec = "none" /\ NoJob.adv = "none"
      /\ done \in Row /\ done.st = "done" /\ done.head = 0
  BY Constants DEF NoJob, Row, Senders
<1>3. job \in [Jobs -> Row] /\ \A j \in Jobs : job[j] = NoJob \/ (j = First /\ job[j] = done)
  <2> HIDE DEF NoJob, done
  <2> QED BY <1>1, <1>2
<1>4. StoreOK
  <2>1. plan.auto \in BOOLEAN /\ plan.moves \subseteq Moves
    BY <1>1, PlansAssumption
  <2>2. host \in Hosts /\ branch \in Branches
    BY <1>1, Constants DEF Hosts, Branches
  <2>3. /\ ci \in [Heads -> {"none", "pending", "green", "red"}]
        /\ obs \in [head : SomeHead, over : BOOLEAN] /\ mirror \in Mirrors
    BY Constants DEF Init, Mirrors
  <2>4. /\ task \in TaskStates /\ parked \in {"none", "switch", "miss"}
        /\ auto \in BOOLEAN /\ ask \in BOOLEAN /\ moves \subseteq Moves
    BY <2>1 DEF Init, TaskStates
  <2> QED BY <1>1, <1>3, <2>2, <2>3, <2>4 DEF StoreOK
<1> DEFINE start == [Idle EXCEPT !.pc = "adopt", !.head = 1, !.from = "lead"]
<1>5. start \in Local /\ start.pc = "adopt" /\ start.job = First /\ start.head = 1 /\ start.pull.head = 0
  <2>1. "adopt" \in Listing \cup Calls /\ 1 \in SomeHead /\ "lead" \in Senders
    BY Constants DEF Calls, FinalPcs, Senders
  <2> QED BY <2>1, IdleWell DEF Local, Idle
<1>6. \A p \in Procs : proc[p] = Idle \/ (p # Poll /\ proc[p] = start)
  BY DEF Init, Worker, Fg, Poll
<1>7. proc \in [Procs -> Local]
  <2> HIDE DEF start
  <2>1. proc = [p \in Procs |-> proc[p]]
    BY DEF Init
  <2> QED BY <1>5, <1>6, <2>1, IdleWell
<1>8. Limit \in Nat /\ Limit >= 1
  <2>1. branch.tip = 1
    BY <1>1
  <2> QED BY <2>1, Constants DEF Limit, Stray
<1>9. Sent = {} /\ RowInv /\ HostInv
  <2>1. \A j \in Reviews : ~Seen(j)
    BY <1>2, <1>3, JobsApart DEF Seen
  <2>2. \A j \in Jobs : /\ job[j].head <= Limit
                        /\ job[j].dec # "none" \/ job[j].adv = "due" => job[j].st = "done"
    <3> HIDE DEF NoJob, done
    <3> QED BY <1>2, <1>3, <1>8
  <2> QED BY <1>1, <2>1, <2>2 DEF Sent, RowInv, HostInv
<1>10. ActorInv
  <2> SUFFICES ASSUME NEW p \in Procs PROVE Well(plan, Limit, Placed, p, proc[p])
    BY DEF ActorInv
  <2>1. CASE proc[p] = Idle
    BY <1>8, <2>1, IdleWell
  <2>2. CASE p # Poll /\ proc[p] = start
    <3> HIDE DEF start
    <3> QED BY <1>5, <1>8, <2>2, JobsApart DEF Well, FgWell, HeadPcs, FinalPcs
  <2> QED BY <1>6, <2>1, <2>2
<1> QED BY <1>4, <1>7, <1>9, <1>10 DEF Base, TypeOK

\* The rows and the actors are as the types say, and an actor's listing, its
\* calls and what it has read are in order.
THEOREM ReviewTypeCorrect == Spec => []TypeOK
<1>1. Init => Base
  BY InitBase
<1>2. Base /\ [Next]_vars => Base'
  BY BaseStep
<1>3. Base => TypeOK
  BY DEF Base
<1> QED BY <1>1, <1>2, <1>3, PTL DEF Spec

\* Who is at the gate, or past it, when somebody must review
LEMMA Gatekeeper ==
    ASSUME Base, DaemonInv, plan.reviewers # {}, NEW p \in Procs, proc[p].pc \in GatePcs
    PROVE  p \in Daemon /\ \A q \in Daemon \ {p} : proc[q].pc = "idle"
<1>1. proc[p].pc \in Calls \ (TriggerPcs \cup {"adopt", "save"}) /\ proc[p].pc # "idle"
  BY DEF GatePcs, TriggerPcs, Calls
<1>2. p \in Daemon
  BY <1>1, Where DEF Procs
<1> QED BY <1>1, <1>2 DEF DaemonInv, Daemon

LEMMA OtherIdle ==
    ASSUME DaemonInv, NEW p \in Daemon, proc[p].pc # "idle", NEW q \in Daemon, q # p
    PROVE  proc[q].pc = "idle"
BY DEF DaemonInv, Daemon

\* What a step leaves of the others
LEMMA OthersStay ==
    ASSUME Base, NEW p \in Procs, Kept(p)
    PROVE  proc'[p] \in Local /\ \A q \in Procs \ {p} : proc'[q] = proc[q]
BY DEF Kept, Moved, Base, TypeOK

LEMMA DaemonStep == ASSUME Base, DaemonInv, Next PROVE DaemonInv'
<1>1. ASSUME NEW p \in Procs, Kept(p), Alone(p) PROVE DaemonInv'
  <2>0. Worker \in Daemon /\ Poll \in Daemon /\ Worker # Poll /\ Daemon \subseteq Procs
        /\ Daemon = {Worker, Poll}
    BY DEF Daemon, Procs, Worker, Poll
  <2>1. \A q \in Procs \ {p} : proc'[q] = proc[q]
    BY <1>1, OthersStay
  <2>2. proc'[Worker].pc = "idle" \/ proc'[Poll].pc = "idle"
    BY <1>1, <2>0, <2>1 DEF Alone, DaemonInv
  <2>3. ASSUME NEW q \in Daemon, proc'[q].pc \in {"round", "enqueue"}, plan'.reviewers # {},
               task' \in {"ready", "awaiting"}
        PROVE  FALSE
    <3>1. plan' = plan /\ Path(p) /\ TaskPath(p)
      BY <1>1 DEF Kept, Stored
    <3>2. CASE q = p
      BY <1>1, <2>3, <3>1, <3>2 DEF Path, DaemonInv
    <3>3. CASE q # p
      <4>1. proc[q] = proc'[q] /\ task \notin {"ready", "awaiting"}
        BY <2>0, <2>1, <2>3, <3>1, <3>3 DEF DaemonInv
      <4>2. proc[p].pc \in GatePcs
        BY <2>3, <3>1, <4>1 DEF TaskPath
      <4>3. proc[q].pc = "idle"
        BY <1>1, <2>3, <3>1, <3>3, <4>2, Gatekeeper
      <4> QED BY <2>3, <4>1, <4>3
    <3> QED BY <3>2, <3>3
  <2> QED BY <2>2, <2>3 DEF DaemonInv
<1>2. CASE Aside
  BY <1>2 DEF Aside, Stored, DaemonInv
<1>3. CASE Resets
  <2>1. plan' = plan /\ task' = task
    BY <1>3 DEF Resets, Stored
  <2>2. \A q \in Daemon : proc'[q] = proc[q] \/ proc'[q].pc = "idle"
    BY <1>3 DEF Resets, Procs, Idle
  <2>3. Worker \in Daemon /\ Poll \in Daemon
    BY DEF Daemon
  <2> QED BY <2>1, <2>2, <2>3 DEF DaemonInv
<1> QED BY <1>1, <1>2, <1>3, NextIs
-----------------------------------------------------------------------------
(* Rounds of reviews *)

LEMMA RowHeads ==
    ASSUME Base, plan.follow
    PROVE  /\ branch.tip \in Nat /\ branch.tip >= 1
           /\ \A j \in Sent : /\ job[j].head \in Nat /\ job[j].head >= 1 /\ job[j].head <= branch.tip
                              /\ Round(j) \in Nat /\ Agent(j) \in plan.reviewers
           /\ \A j \in Reviews : job[j].dec # "none" => j \in Sent /\ job[j].st = "done"
           /\ \A j \in Reviews : job[j].st = "queued" => j \in Sent /\ job[j].dec = "none"
           /\ Rounds = {Round(j) : j \in Sent}
<1>1. branch.tip \in Nat /\ branch.tip >= 1
  BY Limits DEF Heads
<1>2. \A j \in Jobs : job[j].head \in Nat /\ job[j].head <= branch.tip
  BY Constants DEF Base, TypeOK, StoreOK, Row, RowInv, Limit
<1>3. \A j \in Sent : job[j].head >= 1 /\ Agent(j) \in plan.reviewers /\ j \in Jobs /\ Round(j) \in Nat
  BY JobsApart, Constants DEF Base, RowInv, Sent
<1>4. \A j \in Reviews : job[j].dec # "none" => j \in Sent /\ job[j].st = "done"
  BY JobsApart DEF Base, RowInv, Sent, Seen
<1>5. \A j \in Reviews : job[j].st = "queued" => j \in Sent /\ job[j].dec = "none"
  BY JobsApart DEF Base, RowInv, Sent, Seen
<1>6. Rounds = {Round(j) : j \in Sent}
  BY DEF Rounds, Sent
<1> QED BY <1>1, <1>2, <1>3, <1>4, <1>5, <1>6

\* The first round of the first head
LEMMA FirstRound ==
    ASSUME Base, plan.follow, RoundInv, branch.tip = 1, NEW n \in NextRound(1)
    PROVE  n = 1
<1>1. \A j \in Sent : Round(j) = 1 /\ job[j].head = 1
  BY RowHeads DEF RoundInv
<1>2. CASE Sent = {}
  <2>1. Rounds = {} /\ {Round(j) : j \in {k \in Reviews : Seen(k) /\ job[k].head = 1}} = {}
    BY <1>2 DEF Rounds, Sent
  <2>2. n = Cardinality({}) + 1
    BY <2>1 DEF NextRound
  <2> QED BY <2>2, FS_EmptySet
<1>3. CASE Sent # {}
  <2>1. /\ {Round(j) : j \in {k \in Reviews : Seen(k) /\ job[k].head = 1}} # {}
        /\ \A m \in {Round(j) : j \in {k \in Reviews : Seen(k) /\ job[k].head = 1}} : m = 1
    BY <1>1, <1>3 DEF Sent
  <2> QED BY <2>1 DEF NextRound
<1> QED BY <1>2, <1>3

\* A row keeps its head; one that is added is the foreground's, at head 1, or
\* the daemon's.
LEMMA RowsGrow ==
    ASSUME Base, plan.follow, Stored
    PROVE  \A j \in Sent : j \in Sent' /\ job'[j].head = job[j].head
<1>1. RowsPath /\ Sent \subseteq Sent'
  BY DEF Stored
<1>2. CASE RowsKept
  BY <1>1, <1>2 DEF RowsKept, Sent
<1>3. CASE \E p \in Procs : \E v \in Reviewers : Added(p, v)
  BY <1>1, <1>3 DEF Added, Sent
<1>4. CASE \E j \in Reviews : Decided(j)
  BY <1>1, <1>4 DEF Decided, Sent
<1> QED BY <1>1, <1>2, <1>3, <1>4 DEF RowsPath

LEMMA SentFrom ==
    ASSUME Base, Steady, Stored, NEW j \in Sent', j \notin Sent
    PROVE  \E p \in Procs : /\ proc[p].pc = "enqueue" /\ Round(j) = proc[p].n /\ j \in Reviews
                            /\ job'[j].head = proc[p].head /\ job'[j].dec = "none"
                            /\ p \notin Daemon => proc[p].head = 1
<1>1. j \in Reviews /\ job'[j].st # "none" /\ job[j].st = "none"
  BY DEF Sent, Seen
<1>2. ~RowsKept /\ \A k \in Reviews : ~Decided(k)
  BY <1>1 DEF RowsKept, Decided
<1>3. PICK p \in Procs, v \in Reviewers : Added(p, v)
  BY <1>2 DEF Stored, RowsPath, Steady
<1>4. j = <<"review", proc[p].n, v>>
  BY <1>1, <1>3 DEF Added
<1>5. Round(j) = proc[p].n
  BY <1>4 DEF Round
<1>6. p \notin Daemon => proc[p].head = 1
  <2>1. Well(plan, Limit, Placed, p, proc[p]) /\ proc[p].head \in Nat
    BY Where, Constants DEF Local
  <2> QED BY <1>3, <2>1 DEF Well, Added, Procs, HeadPcs, Steady
<1> QED BY <1>1, <1>3, <1>4, <1>5, <1>6 DEF Added

\* An actor at an enqueue was at it before or has just chosen its round.
LEMMA EnqueueFrom ==
    ASSUME Base, Next, NEW p \in Procs, proc'[p].pc = "enqueue"
    PROVE  \/ proc[p].pc = "enqueue" /\ proc'[p].n = proc[p].n /\ proc'[p].head = proc[p].head
           \/ /\ proc[p].pc = "round" /\ proc'[p].n \in NextRound(proc[p].head) /\ job' = job
              /\ proc'[p].head = proc[p].head
<1>1. ASSUME NEW q \in Procs, Kept(q)
      PROVE  \/ proc'[p] = proc[p]
             \/ p = q /\ Path(p)
  BY <1>1, OthersStay DEF Kept
<1>2. Aside \/ Resets => proc'[p] = proc[p] \/ proc'[p].pc = "idle"
  BY DEF Aside, Resets, Idle
<1>3. proc'[p] = proc[p] \/ Path(p)
  BY <1>1, <1>2, NextIs
<1> QED BY <1>3 DEF Path

LEMMA NextStored == ASSUME Base, Next PROVE Stored
BY NextIs DEF Kept, Aside, Resets

LEMMA RoundStep == ASSUME Base, Base', Steady, DaemonInv, RoundInv, Next PROVE RoundInv'
<1>0. /\ Stored /\ plan' = plan /\ branch'.tip >= branch.tip /\ branch.tip \in Nat /\ branch.tip >= 1
      /\ branch'.tip \in Nat /\ plan.follow
  <2>1. Stored
    BY NextStored
  <2>2. branch'.tip \in Nat
    BY <2>1, Constants DEF Stored, StoreOK, Branches
  <2> QED BY <2>1, <2>2, RowHeads DEF Stored, Steady
<1>1. ASSUME branch'.tip = 1, NEW j \in Sent' PROVE Round(j) = 1
  <2>1. branch.tip = 1
    BY <1>0, <1>1
  <2> QED BY <1>0, <1>1, <2>1, SentFrom DEF RoundInv
<1>2. ASSUME branch'.tip = 1, NEW p \in Procs, proc'[p].pc = "enqueue" PROVE proc'[p].n = 1
  <2>1. branch.tip = 1
    BY <1>0, <1>2
  <2>2. CASE proc[p].pc = "enqueue" /\ proc'[p].n = proc[p].n
    BY <2>1, <2>2 DEF RoundInv
  <2>3. CASE proc[p].pc = "round" /\ proc'[p].n \in NextRound(proc[p].head)
    <3>1. proc[p].head = 1
      <4>1. proc[p].head <= branch.tip /\ proc[p].head >= 1 /\ proc[p].head \in Nat
        BY <1>0, <2>3, Where, Constants DEF Well, Local, HeadPcs, Limit
      <4> QED BY <2>1, <4>1
    <3> QED BY <1>0, <2>1, <2>3, <3>1, FirstRound
  <2> QED BY <1>2, <2>2, <2>3, EnqueueFrom
<1>3. ASSUME NEW p \in Daemon, proc[p].pc = "enqueue", proc[p].head > 1, NEW j \in Sent',
             job'[j].head = proc[p].head
      PROVE  Round(j) = proc[p].n
  <2>1. CASE j \in Sent
    BY <1>0, <1>3, <2>1, RowsGrow DEF RoundInv
  <2>2. CASE j \notin Sent
    <3>1. PICK q \in Procs : /\ proc[q].pc = "enqueue" /\ Round(j) = proc[q].n
                             /\ job'[j].head = proc[q].head /\ (q \notin Daemon => proc[q].head = 1)
      BY <1>0, <2>2, SentFrom
    <3>2. q \in Daemon
      BY <1>3, <3>1
    <3>3. q = p
      BY <1>3, <3>1, <3>2, OtherIdle
    <3> QED BY <3>1, <3>3
  <2> QED BY <2>1, <2>2
<1>4. ASSUME NEW j \in Sent', NEW k \in Sent', job'[j].head = job'[k].head, job'[j].head > 1
      PROVE  Round(j) = Round(k)
  <2>1. CASE j \in Sent /\ k \in Sent
    BY <1>0, <1>4, <2>1, RowsGrow DEF RoundInv
  <2>2. ASSUME NEW i \in Sent', i \notin Sent, job'[i].head > 1, NEW l \in Sent',
               job'[l].head = job'[i].head
        PROVE  Round(l) = Round(i)
    <3>1. PICK q \in Procs : /\ proc[q].pc = "enqueue" /\ Round(i) = proc[q].n
                             /\ job'[i].head = proc[q].head /\ (q \notin Daemon => proc[q].head = 1)
      BY <1>0, <2>2, SentFrom
    <3>2. q \in Daemon
      BY <2>2, <3>1
    <3> QED BY <1>3, <2>2, <3>1, <3>2
  <2> QED BY <1>4, <2>1, <2>2
<1>5. ASSUME NEW p \in Daemon, proc'[p].pc = "enqueue", proc'[p].head > 1, NEW j \in Sent',
             job'[j].head = proc'[p].head
      PROVE  Round(j) = proc'[p].n
  <2>0. p \in Procs
    BY DEF Procs
  <2>1. CASE proc[p].pc = "enqueue" /\ proc'[p].n = proc[p].n /\ proc'[p].head = proc[p].head
    BY <1>3, <1>5, <2>1
  <2>2. CASE /\ proc[p].pc = "round" /\ proc'[p].n \in NextRound(proc[p].head) /\ job' = job
             /\ proc'[p].head = proc[p].head
    <3>1. j \in Sent /\ job[j].head = proc[p].head
      BY <1>5, <2>2 DEF Sent, Seen
    <3> DEFINE known == {Round(k) : k \in {l \in Reviews : Seen(l) /\ job[l].head = proc[p].head}}
    <3>2. Round(j) \in known
      BY <3>1 DEF Sent
    <3>3. proc'[p].n \in known
      BY <2>2, <3>2 DEF NextRound
    <3>4. PICK k \in Sent : job[k].head = proc[p].head /\ Round(k) = proc'[p].n
      BY <3>3 DEF Sent
    <3> QED BY <1>5, <2>2, <3>1, <3>4 DEF RoundInv
  <2> QED BY <1>5, <2>0, <2>1, <2>2, EnqueueFrom
<1> QED BY <1>1, <1>2, <1>4, <1>5 DEF RoundInv
-----------------------------------------------------------------------------
(* The gate *)

\* What GateInv says of the reviews once somebody may be at the gate
GateOK ==
    /\ branch.tip = 1 => Reported(1) # {}
    /\ \A j \in Reviews :
          job[j].st = "queued" /\ IsLatest(Round(j)) /\ job[j].head = branch.tip
              => Reported(Round(j)) # {}
    /\ Captured(branch.tip) => AllBy(branch.tip)

LEMMA OneLatest ==
    ASSUME Base, plan.follow, NEW m, NEW n, IsLatest(m), IsLatest(n)
    PROVE  m = n
<1>1. m \in Nat /\ n \in Nat
  BY RowHeads DEF IsLatest
<1>2. m <= n /\ n <= m
  BY DEF IsLatest
<1> QED BY <1>1, <1>2

\* An advancement goes to the gate when every reviewer has approved in the
\* latest round: what is reported of that round is approved.
LEMMA RouteOpens ==
    ASSUME Base, plan.follow, RoundInv, plan.reviewers # {}, NEW j \in Jobs, Route(j) = "gate"
    PROVE  GateOK
<1>1. /\ j \in Reviews /\ IsLatest(Round(j)) /\ \A v \in plan.reviewers : Approved(Round(j), v)
  BY JobsApart DEF Route
<1> DEFINE n == Round(j)
<1>2. \A k \in At(n) : job[k].dec = "approved" /\ job[k].st = "done"
  <2> SUFFICES ASSUME NEW k \in At(n) PROVE job[k].dec = "approved" /\ job[k].st = "done"
    OBVIOUS
  <2>1. k \in Sent /\ Round(k) = n
    BY DEF At, Sent
  <2>2. k = <<"review", n, Agent(k)>> /\ Agent(k) \in plan.reviewers
    BY <2>1, JobsApart, RowHeads DEF At
  <2>3. job[k].dec = "approved"
    BY <1>1, <2>2 DEF Approved
  <2> QED BY <2>1, <2>3, RowHeads DEF At
<1>3. Reported(n) # {}
  <2>1. PICK v \in plan.reviewers : Approved(n, v)
    BY <1>1
  <2> QED BY <2>1 DEF Approved, Reported
<1>4. branch.tip = 1 => Reported(1) # {}
  BY <1>1, <1>3, RowHeads DEF RoundInv, IsLatest
<1>5. ASSUME NEW k \in Reviews, job[k].st = "queued", IsLatest(Round(k)) PROVE FALSE
  <2>1. Round(k) = n
    BY <1>1, <1>5, OneLatest
  <2>2. k \in At(n)
    BY <1>5, <2>1 DEF At, Seen
  <2> QED BY <1>2, <1>5, <2>2
<1>6. ASSUME Captured(branch.tip), NEW v \in plan.reviewers PROVE ApprovedBy(v, branch.tip)
  <2>1. PICK m \in Rounds : IsLatest(m) /\ \A k \in Reported(m) : job[k].head = branch.tip
    BY <1>6 DEF Captured, Reported
  <2>2. m = n
    BY <1>1, <2>1, OneLatest
  <2> DEFINE k == <<"review", n, v>>
  <2>3. k \in At(n) /\ job[k].dec = "approved" /\ k \in Reviews
    BY <1>1 DEF Approved, At
  <2>4. job[k].head = branch.tip
    BY <2>1, <2>2, <2>3 DEF Reported
  <2>5. Agent(k) = v
    BY DEF Agent
  <2> HIDE DEF k
  <2> QED BY <2>3, <2>4, <2>5 DEF ApprovedBy
<1> QED BY <1>4, <1>5, <1>6 DEF GateOK, AllBy

\* Somebody may be at the gate only if somebody could be before, or an
\* advancement has just gone there.
LEMMA GateFrom ==
    ASSUME Base, DaemonInv, Next, Ripe', plan.reviewers # {}
    PROVE  \/ Ripe
           \/ \E p \in Daemon : proc[p].pc = "advance" /\ Route(proc[p].job) = "gate"
<1>1. ASSUME NEW p \in Procs, Kept(p)
      PROVE  \/ Ripe
             \/ p \in Daemon /\ proc[p].pc = "advance" /\ Route(proc[p].job) = "gate"
  <2>1. Path(p) /\ TaskPath(p) /\ \A q \in Procs \ {p} : proc'[q] = proc[q]
    BY <1>1, OthersStay DEF Kept
  <2>2. CASE task' \in {"ready", "awaiting"}
    BY <1>1, <2>1, <2>2, Gatekeeper DEF TaskPath, Ripe
  <2>3. ASSUME NEW q \in Daemon, proc'[q].pc \in GatePcs
        PROVE  \/ Ripe
               \/ p \in Daemon /\ proc[p].pc = "advance" /\ Route(proc[p].job) = "gate"
    <3>1. CASE q # p
      BY <2>1, <2>3, <3>1 DEF Ripe, Procs
    <3>2. CASE q = p
      BY <2>1, <2>3, <3>2 DEF Path, Ripe
    <3> QED BY <3>1, <3>2
  <2> QED BY <2>2, <2>3 DEF Ripe
<1>2. CASE Aside
  BY <1>2 DEF Aside, Ripe
<1>3. CASE Resets
  <2>1. \A q \in Daemon : proc'[q] = proc[q] \/ proc'[q].pc \notin GatePcs
    BY <1>3 DEF Resets, Procs, Idle, GatePcs
  <2> QED BY <1>3, <2>1 DEF Resets, Ripe
<1> QED BY <1>1, <1>2, <1>3, NextIs

LEMMA GateOpens ==
    ASSUME Base, plan.follow, DaemonInv, RoundInv, GateInv, Next, Ripe', plan.reviewers # {}
    PROVE  GateOK
<1>1. CASE Ripe
  BY <1>1 DEF GateInv, GateOK
<1>2. ASSUME NEW p \in Daemon, Route(proc[p].job) = "gate" PROVE GateOK
  <2>1. proc[p].job \in Jobs
    BY Where DEF Local, Procs
  <2> QED BY <1>2, <2>1, RouteOpens
<1> QED BY <1>1, <1>2, GateFrom

\* While somebody may be at the gate the daemon starts no round.
LEMMA NoneEnqueues ==
    ASSUME Base, Steady, DaemonInv, Next, Ripe', plan.reviewers # {}, task' = task,
           NEW p \in Procs, proc[p].pc = "enqueue"
    PROVE  p \notin Daemon /\ proc[p].head = 1
<1>1. ASSUME p \in Daemon PROVE FALSE
  <2>1. task \notin {"ready", "awaiting"} /\ proc[p].pc # "idle" /\ proc[p].pc \notin GatePcs
    BY <1>1 DEF DaemonInv, GatePcs
  <2>2. \A q \in Daemon : q = p \/ proc[q].pc = "idle"
    BY <1>1, <2>1, OtherIdle
  <2> QED BY <2>1, <2>2, GateFrom DEF Ripe, GatePcs
<1>2. Well(plan, Limit, Placed, p, proc[p]) /\ proc[p].head \in Nat
  BY Where, Constants DEF Local
<1> QED BY <1>1, <1>2 DEF Well, HeadPcs, Procs, Steady

\* An approval stays.
LEMMA ApprovedStay ==
    ASSUME Base, plan.follow, Stored, NEW v, NEW h, ApprovedBy(v, h)
    PROVE  ApprovedBy(v, h)'
<1>1. PICK j \in Reviews : Agent(j) = v /\ job[j].head = h /\ job[j].dec = "approved"
  BY DEF ApprovedBy
<1>2. Seen(j) /\ job[j].st = "done"
  BY <1>1, RowHeads DEF Sent
<1>3. job'[j].head = h /\ job'[j].dec = "approved"
  <2>1. CASE RowsKept
    BY <1>1, <2>1 DEF RowsKept
  <2>2. CASE \E p \in Procs : \E w \in Reviewers : Added(p, w)
    BY <1>1, <1>2, <2>2 DEF Added
  <2>3. CASE \E k \in Reviews : Decided(k)
    BY <1>1, <1>2, <2>3 DEF Decided
  <2> QED BY <2>1, <2>2, <2>3 DEF Stored, RowsPath
<1> QED BY <1>1, <1>3 DEF ApprovedBy

LEMMA AllStay ==
    ASSUME Base, plan.follow, Stored, NEW h, AllBy(h)
    PROVE  AllBy(h)'
BY ApprovedStay DEF AllBy, Stored

\* The rounds after a step
LEMMA LatestBack ==
    ASSUME Base, Base', plan.follow, Stored, NEW n \in Rounds, IsLatest(n)'
    PROVE  IsLatest(n)
<1>1. Rounds \subseteq Rounds'
  <2>1. Rounds' = {Round(j) : j \in Sent'}
    BY DEF Rounds, Sent
  <2> QED BY <2>1, RowHeads DEF Stored
<1> QED BY <1>1 DEF IsLatest

\* Nothing is known of a head that the host has just got.
LEMMA NewHead ==
    ASSUME Base, Base', plan.follow, Stored, branch'.tip # branch.tip
    PROVE  GateOK'
<1>1. branch.tip \in Nat /\ branch'.tip \in Nat /\ branch'.tip > branch.tip /\ branch.tip >= 1
  <2>1. branch'.tip \in Nat
    BY Constants DEF Stored, StoreOK, Branches
  <2> QED BY <2>1, RowHeads DEF Stored
<1>2. RowsKept
  BY DEF Stored, RowsPath, Added, Decided
<1>3. \A j \in Reviews : job'[j].st = "queued" \/ job'[j].dec # "none" => job'[j].head # branch'.tip
  <2> SUFFICES ASSUME NEW j \in Reviews, job'[j].st = "queued" \/ job'[j].dec # "none"
               PROVE  job'[j].head # branch'.tip
    OBVIOUS
  <2>1. j \in Sent
    BY <1>2, RowHeads DEF RowsKept, Sent
  <2> QED BY <1>1, <1>2, <2>1, RowHeads DEF RowsKept
<1>4. ~Captured(branch.tip)'
  <2>1. ASSUME Captured(branch.tip)' PROVE FALSE
    <3>1. \E j \in Reviews : job'[j].dec # "none" /\ job'[j].head = branch'.tip
      BY <2>1 DEF Captured, At
    <3> QED BY <1>3, <3>1
  <2> QED BY <2>1
<1> QED BY <1>1, <1>3, <1>4 DEF GateOK

LEMMA GateKeptRows ==
    ASSUME Base, Base', plan.follow, Stored, branch'.tip = branch.tip, RowsKept, GateOK
    PROVE  GateOK'
<1>1. Rounds' = Rounds
  BY DEF Rounds, Seen, RowsKept
<1>2. \A n : (IsLatest(n)' <=> IsLatest(n)) /\ At(n)' = At(n)
  BY <1>1 DEF IsLatest, At, Seen, RowsKept
<1>3. \A n : Reported(n)' = Reported(n)
  BY <1>2 DEF Reported, At, RowsKept
<1>4. Captured(branch.tip)' => Captured(branch.tip)
  <2>1. ASSUME Captured(branch.tip)' PROVE Captured(branch.tip)
    <3>1. PICK n \in Rounds' : /\ IsLatest(n)' /\ Reported(n)' # {}
                               /\ \A j \in Reported(n)' : job'[j].head = branch'.tip
                                                          /\ job'[j].dec = "approved"
      BY <2>1 DEF Captured, Reported
    <3>2. \A j \in Reported(n) : job[j].head = branch.tip /\ job[j].dec = "approved"
      BY <1>3, <3>1 DEF Reported, At, RowsKept
    <3> QED BY <1>1, <1>2, <1>3, <3>1, <3>2 DEF Captured, Reported
  <2> QED BY <2>1
<1>5. Captured(branch.tip)' => AllBy(branch.tip)'
  <2> SUFFICES ASSUME Captured(branch.tip)', NEW h, h = branch.tip PROVE AllBy(h)'
    BY DEF AllBy, ApprovedBy
  <2> QED BY <1>4, AllStay DEF GateOK
<1>6. branch'.tip = 1 => Reported(1)' # {}
  BY <1>3 DEF GateOK
<1>7. ASSUME NEW j \in Reviews, job'[j].st = "queued", IsLatest(Round(j))', job'[j].head = branch'.tip
      PROVE  Reported(Round(j))' # {}
  BY <1>2, <1>3, <1>7 DEF GateOK, RowsKept
<1> QED BY <1>5, <1>6, <1>7 DEF GateOK

\* A result that comes while the task is at the gate is not the first of its
\* round.
LEMMA GateDecided ==
    ASSUME Base, Base', plan.follow, Stored, branch'.tip = branch.tip, NEW i \in Reviews, Decided(i), GateOK
    PROVE  GateOK'
<1>1. /\ job[i].st = "queued" /\ job'[i].st = "done" /\ job'[i].head = job[i].head
      /\ job[i].dec = "none" /\ i \in Sent /\ \A k \in Reviews \ {i} : job'[k] = job[k]
  BY RowHeads DEF Decided
<1>2. \A j \in Reviews : (job'[j].st = "none" <=> job[j].st = "none") /\ job'[j].head = job[j].head
  BY <1>1 DEF Sent, Seen
<1>3. Rounds' = Rounds
  BY <1>2 DEF Rounds, Seen
<1>4. \A n : (IsLatest(n)' <=> IsLatest(n)) /\ At(n)' = At(n)
  BY <1>2, <1>3 DEF IsLatest, At, Seen
<1>5. \A n : Reported(n) \subseteq Reported(n)' /\ Reported(n)' \subseteq Reported(n) \cup {i}
  BY <1>1, <1>4 DEF Reported, At
<1>6. ASSUME Captured(branch.tip)' PROVE Captured(branch.tip)
  <2>1. PICK n \in Rounds' : /\ IsLatest(n)' /\ Reported(n)' # {}
                             /\ \A j \in Reported(n)' : job'[j].head = branch'.tip
                                                        /\ job'[j].dec = "approved"
    BY <1>6 DEF Captured, Reported
  <2>2. Reported(n) # {}
    <3>1. ASSUME Reported(n) = {} PROVE FALSE
      <4>1. i \in Reported(n)'
        BY <1>5, <2>1, <3>1
      <4>2. Round(i) = n /\ job[i].head = branch.tip
        BY <1>1, <2>1, <4>1 DEF Reported, At
      <4> QED BY <1>1, <1>4, <2>1, <3>1, <4>2 DEF GateOK
    <3> QED BY <3>1
  <2>3. \A j \in Reported(n) : job[j].head = branch.tip /\ job[j].dec = "approved"
    BY <1>1, <1>2, <1>5, <2>1 DEF Reported, At
  <2> QED BY <1>3, <1>4, <2>1, <2>2, <2>3 DEF Captured, Reported
<1>7. Captured(branch.tip)' => AllBy(branch.tip)'
  <2> SUFFICES ASSUME Captured(branch.tip)', NEW h, h = branch.tip PROVE AllBy(h)'
    BY DEF AllBy, ApprovedBy
  <2> QED BY <1>6, AllStay DEF GateOK
<1>8. branch'.tip = 1 => Reported(1)' # {}
  BY <1>5 DEF GateOK
<1>9. ASSUME NEW j \in Reviews, job'[j].st = "queued", IsLatest(Round(j))', job'[j].head = branch'.tip
      PROVE  Reported(Round(j))' # {}
  <2>1. j # i /\ job[j].st = "queued" /\ job[j].head = branch.tip
    BY <1>1, <1>9
  <2>2. Reported(Round(j)) # {}
    BY <1>4, <1>9, <2>1 DEF GateOK
  <2> QED BY <1>5, <2>2
<1> QED BY <1>7, <1>8, <1>9 DEF GateOK

\* A late review of the first head, by the foreground process, changes nothing.
LEMMA GateAdded ==
    ASSUME Base, Base', plan.follow, RoundInv', Stored, branch'.tip = branch.tip, NEW p \in Procs,
           NEW v \in Reviewers, Added(p, v), proc[p].head = 1, GateOK
    PROVE  GateOK'
<1> DEFINE i == <<"review", proc[p].n, v>>
<1>1. /\ i \in Reviews /\ job[i].st = "none" /\ job'[i].st = "queued" /\ job'[i].head = 1
      /\ job'[i].dec = "none" /\ \A k \in Reviews \ {i} : job'[k] = job[k]
  BY DEF Added, Seen
<1>0. job[i].dec = "none"
  BY <1>1, RowHeads DEF Sent, Seen
<1> HIDE DEF i
<1>2. \A n : Reported(n)' = Reported(n) /\ \A j \in Reported(n) : job'[j] = job[j]
  BY <1>0, <1>1 DEF Reported, At, Seen
<1>3. ASSUME Captured(branch.tip)' PROVE Captured(branch.tip)
  <2>1. PICK n \in Rounds' : /\ IsLatest(n)' /\ Reported(n)' # {}
                             /\ \A j \in Reported(n)' : job'[j].head = branch'.tip
                                                        /\ job'[j].dec = "approved"
    BY <1>3 DEF Captured, Reported
  <2>2. Reported(n) # {} /\ \A j \in Reported(n) : job[j].head = branch.tip /\ job[j].dec = "approved"
    BY <1>2, <2>1
  <2>3. n \in Rounds
    BY <2>2 DEF Reported, At, Rounds
  <2>4. IsLatest(n)
    BY <2>1, <2>3, LatestBack
  <2> QED BY <2>2, <2>3, <2>4 DEF Captured, Reported
<1>4. Captured(branch.tip)' => AllBy(branch.tip)'
  <2> SUFFICES ASSUME Captured(branch.tip)', NEW h, h = branch.tip PROVE AllBy(h)'
    BY DEF AllBy, ApprovedBy
  <2> QED BY <1>3, AllStay DEF GateOK
<1>5. branch'.tip = 1 => Reported(1)' # {}
  BY <1>2 DEF GateOK
<1>6. ASSUME NEW j \in Reviews, job'[j].st = "queued", IsLatest(Round(j))', job'[j].head = branch'.tip
      PROVE  Reported(Round(j))' # {}
  <2>1. CASE branch'.tip = 1
    <3>1. j \in Sent'
      BY <1>6 DEF Sent, Seen
    <3>2. Round(j) = 1
      BY <2>1, <3>1 DEF RoundInv
    <3> QED BY <1>5, <2>1, <3>2
  <2>2. CASE branch'.tip # 1
    <3>1. j # i /\ job[j].st = "queued" /\ job[j].head = branch.tip
      BY <1>1, <1>6, <2>2
    <3>2. Round(j) \in Rounds
      BY <3>1 DEF Rounds, Seen
    <3>3. IsLatest(Round(j))
      BY <1>6, <3>2, LatestBack
    <3> QED BY <1>2, <3>1, <3>3 DEF GateOK
  <2> QED BY <2>1, <2>2
<1> QED BY <1>4, <1>5, <1>6 DEF GateOK

LEMMA GateStep ==
    ASSUME Base, Base', Steady, DaemonInv, RoundInv, RoundInv', GateInv, Next
    PROVE  GateInv'
<1> SUFFICES ASSUME Ripe', plan'.reviewers # {} PROVE GateOK'
  BY DEF GateInv, GateOK
<1>1. Stored /\ plan' = plan /\ plan.follow
  BY NextStored DEF Stored, Steady
<1>2. GateOK
  BY <1>1, GateOpens
<1>3. CASE branch'.tip # branch.tip
  BY <1>1, <1>3, NewHead
<1>4. CASE branch'.tip = branch.tip /\ RowsKept
  BY <1>1, <1>2, <1>4, GateKeptRows
<1>5. ASSUME branch'.tip = branch.tip, NEW i \in Reviews, Decided(i) PROVE GateOK'
  BY <1>1, <1>2, <1>5, GateDecided
<1>6. ASSUME branch'.tip = branch.tip, NEW p \in Procs, NEW v \in Reviewers, Added(p, v)
      PROVE  GateOK'
  <2>1. proc[p].head = 1
    BY <1>1, <1>6, NoneEnqueues DEF Added
  <2> QED BY <1>1, <1>2, <1>6, <2>1, GateAdded
<1> QED BY <1>1, <1>3, <1>4, <1>5, <1>6 DEF Stored, RowsPath
-----------------------------------------------------------------------------
(* The merge *)

\* What CI has passed stays passed while the daemon is at the gate.
LEMMA CIStays ==
    ASSUME Base, Stored, NEW h, CIPassed(h), \A p \in Procs : proc[p].pc # "vet"
    PROVE  CIPassed(h)'
BY DEF Stored, CIPath

LEMMA PassedAtGate ==
    ASSUME NEW p, Passed(proc[p])
    PROVE  proc[p].pc \in GatePcs /\ proc[p].pc # "vet"
BY DEF Passed, GatePcs

\* Somebody past the checks was so before or has just passed them.
LEMMA PassedFrom ==
    ASSUME Base, Next, NEW q \in Procs, Passed(proc'[q])
    PROVE  /\ proc'[q].pull = proc[q].pull
           /\ \/ Passed(proc[q])
              \/ /\ proc[q].pc = "vet" /\ Captured(proc[q].pull.head)
                 /\ (proc[q].pull.head \in Heads => CIPassed(proc[q].pull.head))
                 /\ UNCHANGED <<branch, obs, ci>>
<1>1. ASSUME NEW p \in Procs, Kept(p)
      PROVE  proc'[q] = proc[q] \/ Path(q)
  BY <1>1, OthersStay DEF Kept
<1>2. Aside \/ Resets => proc'[q] = proc[q] \/ proc'[q] = Idle
  BY DEF Aside, Resets
<1>3. ~Passed(Idle)
  BY DEF Passed, Idle
<1>4. proc'[q] = proc[q] \/ Path(q)
  BY <1>1, <1>2, <1>3, NextIs
<1> QED BY <1>4 DEF Path

LEMMA VetStep ==
    ASSUME Base, Steady, DaemonInv, GateInv, VetInv, Next
    PROVE  VetInv'
<1>1. Stored /\ plan' = plan /\ branch'.tip >= branch.tip /\ branch.tip \in Nat /\ branch'.tip \in Nat
      /\ branch.tip \in Heads /\ plan.follow
  <2>1. Stored
    BY NextStored
  <2> QED BY <2>1, Constants, Limits DEF Stored, StoreOK, Branches, Steady
<1> SUFFICES ASSUME NEW q \in Procs, Passed(proc'[q]), proc'[q].pull.head = branch'.tip
             PROVE  plan.reviewers # {} /\ AllBy(branch.tip)' /\ CIPassed(branch.tip)'
  BY <1>1 DEF VetInv, Passed
<1>2. /\ proc'[q].pull = proc[q].pull
      /\ \/ Passed(proc[q])
         \/ /\ proc[q].pc = "vet" /\ Captured(proc[q].pull.head)
            /\ (proc[q].pull.head \in Heads => CIPassed(proc[q].pull.head)) /\ UNCHANGED <<branch, obs, ci>>
  BY PassedFrom
<1>3. PICK h \in Nat : h = branch.tip /\ h = branch'.tip /\ h = proc[q].pull.head
  <2>1. proc[q].pull.head <= branch.tip /\ proc[q].pull.head \in Nat
    BY <1>1, Where, Constants DEF Well, Local, Mirrors, Limit
  <2> QED BY <1>1, <1>2, <2>1
<1>4. plan.reviewers # {} /\ AllBy(h) /\ CIPassed(h)'
  <2>1. CASE Passed(proc[q])
    <3>1. plan.reviewers # {} /\ AllBy(h) /\ CIPassed(h)
      BY <1>3, <2>1 DEF VetInv
    <3>2. \A p \in Procs : proc[p].pc # "vet"
      <4>1. proc[q].pc \in GatePcs /\ proc[q].pc # "vet" /\ proc[q].pc # "idle"
        BY <2>1, PassedAtGate DEF GatePcs
      <4>2. ASSUME NEW p \in Procs, proc[p].pc = "vet" PROVE FALSE
        <5>1. p \in Daemon /\ q \in Daemon /\ q # p
          BY <3>1, <4>1, <4>2, Gatekeeper DEF GatePcs
        <5> QED BY <4>1, <4>2, <5>1, OtherIdle
      <4> QED BY <4>2
    <3> QED BY <1>1, <3>1, <3>2, CIStays
  <2>2. CASE /\ proc[q].pc = "vet" /\ Captured(proc[q].pull.head)
             /\ (proc[q].pull.head \in Heads => CIPassed(proc[q].pull.head)) /\ UNCHANGED <<branch, obs, ci>>
    <3>1. plan.reviewers # {}
      <4>1. Rounds # {}
        BY <2>2 DEF Captured
      <4> QED BY <1>1, <4>1, RowHeads
    <3>2. Ripe
      BY <2>2, <3>1, Gatekeeper DEF Ripe, GatePcs
    <3>3. AllBy(h)
      BY <1>3, <2>2, <3>1, <3>2 DEF GateInv
    <3>4. CIPassed(h)'
      BY <1>1, <1>3, <2>2 DEF CIPassed, Waited
    <3> QED BY <3>1, <3>3, <3>4
  <2> QED BY <1>2, <2>1, <2>2
<1>5. AllBy(h)'
  BY <1>1, <1>4, AllStay
<1> QED BY <1>3, <1>4, <1>5 DEF AllBy, ApprovedBy, CIPassed, Waited

LEMMA InitDeep == Init => DaemonInv /\ RoundInv /\ GateInv /\ VetInv
<1> SUFFICES ASSUME Init PROVE DaemonInv /\ RoundInv /\ GateInv /\ VetInv
  OBVIOUS
<1>1. /\ \A p \in Procs : proc[p].pc \in {"idle", "adopt"}
      /\ proc[Worker].pc = "idle" \/ proc[Poll].pc = "idle"
  BY DEF Init, Idle, Procs, Daemon, Worker, Poll, Fg
<1>2. Sent = {}
  <2>1. \A j \in Reviews : job[j].st = "none"
    BY JobsApart DEF Init, NoJob
  <2> QED BY <2>1 DEF Sent, Seen
<1>3. task = "implementing"
  BY DEF Init
<1>4. \A p \in Procs : ~Passed(proc[p]) /\ proc[p].pc \notin GatePcs
  BY <1>1 DEF Passed, GatePcs
<1>5. ~Ripe
  BY <1>3, <1>4 DEF Ripe, Procs
<1> QED BY <1>1, <1>2, <1>3, <1>4, <1>5 DEF DaemonInv, RoundInv, GateInv, VetInv, Procs

LEMMA Invariance == IInv /\ Steady /\ [Next]_vars => IInv'
<1> SUFFICES ASSUME IInv, Steady, [Next]_vars PROVE IInv'
  OBVIOUS
<1>1. Base'
  BY BaseStep DEF IInv
<1>2. CASE Next
  <2>1. DaemonInv'
    BY <1>2, DaemonStep DEF IInv
  <2>2. RoundInv'
    BY <1>1, <1>2, RoundStep DEF IInv
  <2>3. GateInv'
    BY <1>1, <1>2, <2>2, GateStep DEF IInv
  <2>4. VetInv'
    BY <1>2, VetStep DEF IInv
  <2> QED BY <1>1, <2>1, <2>2, <2>3, <2>4 DEF IInv
<1>3. CASE UNCHANGED vars
  <2>1. DaemonInv' /\ RoundInv'
    BY <1>3 DEF vars, IInv, DaemonInv, RoundInv, Sent, Seen
  <2>2. GateInv'
    BY <1>3 DEF vars, IInv, GateInv, Ripe, Reported, At, Seen, IsLatest, Rounds, Captured,
                AllBy, ApprovedBy
  <2>3. VetInv'
    BY <1>3 DEF vars, IInv, VetInv, Passed, AllBy, ApprovedBy, CIPassed, Waited
  <2> QED BY <1>1, <2>1, <2>2, <2>3 DEF IInv
<1> QED BY <1>2, <1>3

\* Who has approved the head of the branch has not objected to it: the reviews of
\* that head are those of one round.
LEMMA NoneObjects ==
    ASSUME Base, plan.follow, RoundInv, AllBy(branch.tip), NEW j \in Reviews,
           job[j].head = branch.tip
    PROVE  ~Objected(j)
<1> SUFFICES ASSUME job[j].dec \in {"changes", "blocked"} PROVE FALSE
  BY DEF Objected
<1>1. j \in Sent /\ Agent(j) \in plan.reviewers
  BY RowHeads
<1>2. PICK k \in Reviews : Agent(k) = Agent(j) /\ job[k].head = branch.tip /\ job[k].dec = "approved"
  BY <1>1 DEF AllBy, ApprovedBy
<1>3. k \in Sent
  BY <1>2, RowHeads
<1>4. Round(j) = Round(k)
  <2>1. branch.tip \in Nat /\ branch.tip >= 1
    BY RowHeads
  <2>2. CASE branch.tip = 1
    BY <1>1, <1>3, <2>2 DEF RoundInv
  <2>3. CASE branch.tip > 1
    BY <1>1, <1>2, <1>3, <2>3 DEF RoundInv
  <2> QED BY <2>1, <2>2, <2>3
<1>5. j = k
  BY <1>2, <1>4, JobsApart
<1> QED BY <1>2, <1>5

LEMMA MergeStep ==
    ASSUME IInv, Steady, Next, host'.by = "auto", host.by # "auto"
    PROVE  Vetted(host.head)
<1>1. Base /\ RoundInv /\ plan.follow
  BY DEF IInv, Steady
<1>2. PICK p \in Procs : Merges(p)
  BY <1>1, NextStored DEF Stored, HostPath
<1>3. host.head = branch.tip /\ Passed(proc[p]) /\ proc[p].pull.head = branch.tip
  BY <1>1, <1>2 DEF Merges, Passed, Base, HostInv
<1>4. plan.reviewers # {} /\ AllBy(branch.tip) /\ CIPassed(branch.tip)
  BY <1>3 DEF IInv, VetInv
<1>5. \A j \in Reviews : job[j].head = branch.tip => ~Objected(j)
  BY <1>1, <1>4, NoneObjects
<1>6. ci[branch.tip] \notin {"red", "pending"}
  BY <1>4 DEF CIPassed
<1> QED BY <1>3, <1>4, <1>5, <1>6 DEF Vetted, AllApproved, AllBy

\* merge_gate.go:128: however the steps of the poll, the workers, a foreground
\* process, people and CI interleave, a merge that nobody asked for is one of a
\* head that every required reviewer has approved and none has objected to, and
\* that CI has not failed; as long as no review is moved to what the worktree
\* holds by then (resyncReviewHead) and the foreground process goes on with the
\* head it has pushed.
THEOREM MergesVetted == Spec /\ []Steady => VettedMerge
<1>1. Init => IInv
  BY InitBase, InitDeep DEF IInv
<1>2. IInv /\ Steady /\ [Next]_vars => IInv'
  BY Invariance
<1>3. IInv /\ Steady /\ [Next]_vars
         => [host'.by = "auto" /\ host.by # "auto" => Vetted(host.head)]_vars
  BY MergeStep
<1> QED BY <1>1, <1>2, <1>3, PTL DEF Spec, VettedMerge
=============================================================================
