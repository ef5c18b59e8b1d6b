------------------------ MODULE DelegationRestProofs ------------------------
(***************************************************************************)
(* A tree of Delegation comes to rest only when its coordinator is decided *)
(* or a human is asked (NeverStranded), for any number of legs, attempts,  *)
(* rounds and crashes and every plan of Rests.                             *)
(*                                                                         *)
(* The inductive invariant says who keeps a tree going.  Attended: each    *)
(* job is advanced by one worker at a time and its marker stays pending    *)
(* until the advancement is over.  Continues and Asked: what the events,   *)
(* the rounds and the actors on their way to an end stand for.  Progress:  *)
(* while P is undecided, a leg runs or an advancement is going to list the *)
(* children; each dependent that may be queued is seen to by someone; and  *)
(* a leg that failed for a human is come back to.  Progress is about the   *)
(* listings the advancements act on: one that finds nothing to do may end  *)
(* only because what has changed since it was read is seen to by another.  *)
(***************************************************************************)
EXTENDS DelegationProofs

-----------------------------------------------------------------------------
(* The plans for which it holds                                             *)

NoHuman(q) == \A l \in Legs : q.policy[l] # "escalate_human"

\* An orchestrate stage, which has no task to block, does not retry where a
\* worktree may be refused; where the daemon may die, no leg ends without a
\* result and the plan is not turned down by an event of its own; and where a
\* failure goes to a human, legs do not ask, nothing blocks the task and the
\* legs for humans end with a result.
Rests(q) ==
    /\ q.orchestrate /\ q.alloc => \A l \in Legs : q.retry[l] = 0
    /\ MaxCrashes > 0 => q.mortal = {} /\ q.refused \in {"no", "depth", "width"}
    /\ \/ NoHuman(q)
       \/ /\ q.asks = {} /\ ~q.alloc
          /\ \A l \in Legs : q.policy[l] # "block_parent" /\ q.rule[l] \in {"summary", "verify"}
          /\ \A l \in q.mortal : q.policy[l] # "escalate_human"
-----------------------------------------------------------------------------
(* Who advances which job                                                   *)

Workers == Jobs \cup {Tick}
Humans == {Poller, Chat}
Of(x, j) == ~At(x, "idle") /\ p[x].job = j

\* The tick will advance j again.
Awaits(j) == Pending(j) /\ \A x \in Workers : ~Of(x, j)

HumanPCs == {"rs_row", "gate", "answer", "cont", "contev", "fin", "finq", "finev", "finev2",
             "rs_task", "rs_done", "block", "blocked"}
ParentPCs == {"adv", "ask", "askreq", "dispatch", "spawn", "cont", "correct", "contev", "fin",
              "finq", "finev", "finev2", "block", "blocked", "mark"}
ChildPCs == {"attach", "adv", "ask", "askreq", "events", "retry", "deps", "reread", "pause",
             "pausereq", "gate", "cont", "contev", "fin", "finq", "finev", "finev2", "after",
             "block", "blocked", "mark"}

\* An advancement of j, where it may be
Placed(j, r) ==
    IF j = P THEN /\ r.pc \in ParentPCs /\ ~r.late
                  /\ r.pc \notin {"adv", "ask", "askreq", "dispatch", "mark"} => r.ret = "mark"
    ELSE r.pc \in ChildPCs /\ r.ret = "after"

\* Each job is advanced by one worker at a time; its marker stays pending until
\* the end of the advancement, but for the late ones.
Attended ==
    /\ \A x \in Workers : ~At(x, "idle") => Placed(p[x].job, p[x])
    /\ \A x \in Workers : /\ p[x].late \/ At(x, "attach") =>
                                x \in Children /\ x[1] \in plan.mortal /\ Failed(row[x])
                          /\ ~At(x, "idle") /\ ~At(x, "attach") /\ ~p[x].late => Pending(p[x].job)
    /\ \A x \in Jobs : ~At(x, "idle") => p[x].job = x
    /\ ~At(Tick, "idle") => At(p[Tick].job, "idle")
    /\ \A c \in Children : mark[c] # "none" \/ ~At(c, "idle") => Settled(row[c])
    /\ \A x \in Humans : ~At(x, "idle") => p[x].pc \in HumanPCs /\ p[x].ret = "rs_task"

\* There is a continuation
Continued == cont.kind # "none"
Continues ==
    /\ cont = NoCont \/ Continued
    /\ evCont \/ evFin => Continued
    /\ \A x \in Actors : /\ p[x].pc \in {"cont", "correct", "fin", "finq"} => p[x].want.kind # "none"
                         /\ p[x].pc \in {"contev", "finev", "finev2"} => Continued
    /\ evRefused => /\ MaxCrashes = 0
                    /\ \/ Continued
                       \/ \E x \in Workers : /\ p[x].job = P
                                             /\ p[x].pc \in {"cont", "correct", "fin", "finq"}

\* Questions and rounds
Asked ==
    /\ \A c \in Children : row[c] = "asking" => plan.asks # {}
    /\ \A x \in Workers : p[x].pc \in {"ask", "askreq"} => Asks(p[x].job)
    /\ \A x \in Workers : p[x].pc \in {"pause", "pausereq"} => ~NoHuman(plan)
    /\ reqs = <<>> => \A j \in Jobs : Asks(j) =>
          Pending(j) /\ \A x \in Workers : Of(x, j) => p[x].pc \in {"adv", "ask", "askreq"}
    /\ NoHuman(plan) =>
          /\ \A i \in 1..Len(reqs) : reqs[i].kind = "ask"
          /\ resolved > 0 => Continued
          /\ \A x \in Humans : /\ p[x].pc \notin {"rs_row", "gate"}
                               /\ p[x].pc \in {"rs_task", "rs_done"} => Continued
    /\ ~NoHuman(plan) => /\ task # "blocked"
                         /\ \A x \in Actors : p[x].pc \notin {"block", "blocked"}
-----------------------------------------------------------------------------
(* What keeps a tree going                                                  *)

\* P is not decided and no job of the tree has a question.  Once false, for good.
Undecided == ~Decided /\ \A j \in Jobs : ~Asks(j)

\* P's own advancement, which spawns the legs
ParentWorks ==
    \/ \E x \in Workers : /\ p[x].job = P
                          /\ \/ p[x].pc \in {"adv", "dispatch", "spawn", "cont", "correct", "fin", "finq"}
                             \/ At(x, "block") /\ ~plan.orchestrate
    \/ Awaits(P)

\* A dependent that a listing lets an advancement queue
Queueable(v, m) == plan.deps[m] # {} /\ v[m].st = "absent" /\ DepsSatisfied(v, m)

\* An advancement that will list the children, or has just listed them, or
\* goes to an end that decides P or leaves it to a human
Works(r) ==
    \/ r.pc \in {"attach", "adv", "retry", "deps", "reread", "gate", "cont", "fin", "finq"}
    \/ r.pc = "block" /\ ~plan.orchestrate
    \/ /\ r.pc = "events"
       /\ r.kids = View \/ (~r.late /\ (Stopping(r.kids) # {} \/ \E m \in Legs : Queueable(r.kids, m)))
    \/ r.pc \in {"pause", "pausereq"} /\ ~r.late

ChildWorks ==
    \/ \E c \in Children : row[c] = "active"
    \/ \E x \in Workers : p[x].job \in Children /\ Works(p[x])
    \/ \E c \in Children : Awaits(c)

Going == IF ToSpawn # {} THEN ParentWorks ELSE ChildWorks

\* A dependent that may be queued, and an advancement that sees to it
Ready(m) == Queueable(View, m)
Takes(r, m) ==
    /\ r.job \in Children /\ ~r.late
    /\ \/ r.pc \in {"adv", "retry", "gate", "cont", "fin", "finq", "pause", "pausereq"}
       \/ r.pc = "block" /\ ~plan.orchestrate
       \/ r.pc = "events" /\ Queueable(r.kids, m)
       \/ r.pc = "deps" /\ m \in Dependents(r)
       \/ r.pc = "reread" /\ ~r.esc /\ \A t \in r.tried : m > t
Taken(m) == (\E x \in Workers : Takes(p[x], m)) \/ \E c \in Children : Awaits(c)

\* A leg that has failed for a human: its own advancement comes back to it.
ForHuman(l) == plan.policy[l] = "escalate_human" /\ Failed(View[l].st)
Returns(l) ==
    LET c == <<l, View[l].k>>
    IN /\ Pending(c)
       /\ \A x \in Workers : Of(x, c) =>
             /\ ~p[x].late
             /\ \/ p[x].pc \in {"adv", "retry", "pause", "pausereq"}
                \/ At(x, "events") /\ p[x].kids[l] = View[l]

Progress ==
    Undecided => /\ Going
                 /\ \A m \in Legs : Ready(m) => Taken(m)
                 /\ \A l \in Legs : ForHuman(l) => Returns(l)

RestInv == Attended /\ Continues /\ Asked /\ Progress
-----------------------------------------------------------------------------
(* The advancements under way                                               *)

LEMMA ActorSets ==
    /\ P \in Jobs /\ P \notin Children /\ Jobs = Children \cup {P} /\ Children \subseteq Jobs
    /\ Tick \notin Jobs /\ Workers \cap Humans = {} /\ Actors = Workers \cup Humans
    /\ Jobs \subseteq Workers /\ Tick \in Workers /\ Poller # Chat /\ Poller # Tick /\ Chat # Tick
    /\ Children \subseteq Workers /\ P \in Workers
<1>1. \A c \in Children : c[1] > 0 /\ c[1] \in Nat
  BY DelegationAssumption DEF Children, Legs
<1>2. P \notin Children /\ Tick \notin Children /\ Poller \notin Children /\ Chat \notin Children
  BY <1>1 DEF P, Tick, Poller, Chat
<1>3. P # Tick /\ P # Poller /\ P # Chat /\ Tick # Poller /\ Tick # Chat /\ Poller # Chat
  BY DEF P, Tick, Poller, Chat
<1> HIDE DEF P, Tick, Poller, Chat, Children
<1> QED BY <1>2, <1>3 DEF Jobs, Workers, Humans, Actors

\* Two workers advance different jobs.
LEMMA OneEach ==
    ASSUME Attended, NEW x \in Workers, NEW y \in Workers, x # y,
           ~At(x, "idle"), ~At(y, "idle")
    PROVE  p[x].job # p[y].job
BY ActorSets DEF Attended, Workers

\* What actor x may go on as
Follows(x, r) ==
    \/ r = Idle
    \/ /\ r.job = p[x].job /\ r.late = p[x].late /\ r.pc \notin {"idle", "attach"}
       /\ x \in Workers => Placed(r.job, r)
       /\ x \in Humans => r.pc \in HumanPCs /\ r.ret = "rs_task"

\* What an actor is, by where it is
LEMMA ActorKinds ==
    ASSUME TypeOK, Attended, NEW x \in Actors, ~At(x, "idle")
    PROVE  /\ p[x] \in Activity /\ p[x].job \in Jobs
           /\ \/ x \in Workers /\ x \notin Humans /\ p[x].job = P
                 /\ p[x].pc \in ParentPCs /\ ~p[x].late
                 /\ (p[x].pc \notin {"adv", "ask", "askreq", "dispatch", "mark"} => p[x].ret = "mark")
              \/ x \in Workers /\ x \notin Humans /\ p[x].job # P /\ p[x].job \in Children
                 /\ p[x].pc \in ChildPCs /\ p[x].ret = "after"
              \/ x \in Humans /\ x \notin Workers /\ p[x].pc \in HumanPCs /\ p[x].ret = "rs_task"
<1>1. p[x] \in Activity
  BY DEF TypeOK
<1>2. p[x].job \in Jobs
  BY <1>1 DEF Activity
<1>3. x \in Workers \/ x \in Humans
  BY ActorSets
<1> QED BY <1>1, <1>2, <1>3, ActorSets DEF Attended, Placed

LEMMA QuitIs ==
    ASSUME NEW me, NEW pc
    PROVE  /\ Quit(me, pc).pc = pc /\ Quit(me, pc).job = me.job /\ Quit(me, pc).late = me.late
           /\ Quit(me, pc).ret = me.ret /\ Quit(me, pc).want = NoCont
BY DEF Quit, Idle

LEMMA FinalizingIs ==
    ASSUME NEW me, NEW why
    PROVE  /\ Finalizing(me, why).pc = "fin" /\ Finalizing(me, why).job = me.job
           /\ Finalizing(me, why).late = me.late /\ Finalizing(me, why).ret = me.ret
           /\ Finalizing(me, why).want = Finalize(why)
<1> DEFINE w == Finalize(why)
<1> HIDE DEF w
<1>1. /\ [Quit(me, "fin") EXCEPT !.want = w].pc = "fin"
      /\ [Quit(me, "fin") EXCEPT !.want = w].job = me.job
      /\ [Quit(me, "fin") EXCEPT !.want = w].late = me.late
      /\ [Quit(me, "fin") EXCEPT !.want = w].ret = me.ret
      /\ [Quit(me, "fin") EXCEPT !.want = w].want = w
  BY DEF Quit, Idle
<1> QED BY <1>1 DEF Finalizing, w

\* Where blocking, or finalizing instead, leads
LEMMA BlockingIs ==
    ASSUME NEW me, NEW why
    PROVE  \E r : /\ r = BlockingOrFinalizing(me, why)
                  /\ r.job = me.job /\ r.late = me.late /\ r.ret = me.ret
                  /\ \/ r.pc = "block" /\ ~plan.orchestrate /\ r.want = NoCont
                     \/ r.pc = "fin" /\ r.want = Finalize(why)
BY QuitIs, FinalizingIs DEF BlockingOrFinalizing, Blocking

\* Every step of an actor takes it on as it is, or ends what it does.
LEMMA EngineFollows ==
    ASSUME TypeOK, Attended, NEW x \in Actors, Engine(x)
    PROVE  /\ ~At(x, "idle") /\ ~At(x, "attach")
           /\ p' = p \/ \E r : Follows(x, r) /\ Goto(x, r)
<1> DEFINE me == p[x]
           isP == x \in Workers /\ me.job = P
           isC == x \in Workers /\ me.job # P
           isH == x \in Humans
           Goes == p' = p \/ \E r : Follows(x, r) /\ Goto(x, r)
<1>a. ~At(x, "idle") /\ ~At(x, "attach")
  BY DEF Engine, AdvanceJob, Ask, AskRequest, AfterAdvance, Dispatch, Spawn, Events, Retry, Pause,
         PauseRequest, RequestRound, Deps, Reread, Gate, AnswerGate, Continue, Correct,
         EnqueueContinuation, ContinueEvent, FinalizeGuard, FinalizeEnqueue, FinalizeEvent,
         ResumeRow, ResumeTask, ResumeDone, Block, MarkDone, MarkBlocked, At
<1>b. /\ me \in Activity /\ me.job \in Jobs
      /\ isP => /\ me.pc \in ParentPCs /\ ~isC /\ ~isH
                /\ me.pc \notin {"adv", "ask", "askreq", "dispatch", "mark"} => me.ret = "mark"
      /\ isC => me.pc \in ChildPCs /\ me.ret = "after" /\ ~isP /\ ~isH
      /\ isH => me.pc \in HumanPCs /\ me.ret = "rs_task" /\ ~isP /\ ~isC
      /\ isP \/ isC \/ isH
      /\ isP => ~me.late
  <2>1. x \in Workers \/ x \in Humans
    BY ActorSets
  <2>2. /\ p[x] \in Activity /\ p[x].job \in Jobs
        /\ \/ x \in Workers /\ x \notin Humans /\ p[x].job = P
              /\ p[x].pc \in ParentPCs /\ ~p[x].late
              /\ (p[x].pc \notin {"adv", "ask", "askreq", "dispatch", "mark"} => p[x].ret = "mark")
           \/ x \in Workers /\ x \notin Humans /\ p[x].job # P /\ p[x].job \in Children
              /\ p[x].pc \in ChildPCs /\ p[x].ret = "after"
           \/ x \in Humans /\ x \notin Workers /\ p[x].pc \in HumanPCs /\ p[x].ret = "rs_task"
    BY <1>a, ActorKinds
  <2> QED BY <2>1, <2>2
<1>c. ASSUME NEW r, Goto(x, r), r.job = me.job, r.late = me.late, r.ret = me.ret,
             isP => /\ r.pc \in ParentPCs
                    /\ me.ret = "mark" \/ r.pc \in {"adv", "ask", "askreq", "dispatch", "mark"},
             isC => r.pc \in ChildPCs \ {"attach"},
             isH => r.pc \in HumanPCs
      PROVE  Goes
  <2>1. r.pc \notin {"idle", "attach"}
    BY <1>b, <1>c DEF ParentPCs, ChildPCs, HumanPCs
  <2>2. x \in Workers => Placed(r.job, r)
    BY <1>b, <1>c DEF Placed
  <2> QED BY <1>b, <1>c, <2>1, <2>2 DEF Follows
<1>d. Await(x) \/ Fail(x) => Goes
  BY DEF Await, Fail, Follows
<1>e. ASSUME NEW pc, Step(x, pc),
             isP => /\ pc \in ParentPCs
                    /\ me.ret = "mark" \/ pc \in {"adv", "ask", "askreq", "dispatch", "mark"},
             isC => pc \in ChildPCs \ {"attach"},
             isH => pc \in HumanPCs
      PROVE  Goes
  <2> DEFINE r == [me EXCEPT !.pc = pc]
  <2>1. r.job = me.job /\ r.late = me.late /\ r.ret = me.ret /\ r.pc = pc
    BY <1>b DEF Activity
  <2>2. Goto(x, r)
    BY <1>e DEF Step
  <2> HIDE DEF r
  <2> QED BY <1>c, <1>e, <2>1, <2>2
<1>f. ASSUME NEW me2, me2.job = me.job, me2.late = me.late, me2.ret = me.ret, NEW why,
             isP => me.ret = "mark",
             Goto(x, BlockingOrFinalizing(me2, why)) \/ Goto(x, Finalizing(me2, why))
      PROVE  Goes
  <2>1. \E r : /\ Goto(x, r) /\ r.job = me.job /\ r.late = me.late /\ r.ret = me.ret
               /\ r.pc \in {"block", "fin"}
    BY <1>f, BlockingIs, FinalizingIs
  <2> QED BY <2>1, <1>c, <1>f DEF ParentPCs, ChildPCs, HumanPCs
<1>g. ASSUME NEW me2, me2.job = me.job, me2.late = me.late, me2.ret = me.ret, NEW pc,
             Goto(x, Quit(me2, pc)),
             isP => me.ret = "mark" /\ pc \in ParentPCs,
             isC => pc \in ChildPCs \ {"attach"},
             isH => pc \in HumanPCs
      PROVE  Goes
  <2>1. \E r : /\ Goto(x, r) /\ r.job = me.job /\ r.late = me.late /\ r.ret = me.ret
               /\ r.pc = pc
    BY <1>g, QuitIs
  <2> QED BY <2>1, <1>c, <1>g
<1>h. ASSUME NEW me2 \in Activity, me2.job = me.job, me2.late = me.late, me2.ret = me.ret, isC,
             Goto(x, DepsOrGate(me2))
      PROVE  Goes
  <2>1. CASE Goto(x, Quit(me2, "after"))
    BY <1>b, <1>g, <1>h, <2>1 DEF ChildPCs
  <2>2. ASSUME NEW r, r = [me2 EXCEPT !.pc = "deps"] \/ r = [me2 EXCEPT !.pc = "gate", !.tried = {}],
               Goto(x, r)
        PROVE  Goes
    <3>1. r.job = me.job /\ r.late = me.late /\ r.ret = me.ret /\ r.pc \in {"deps", "gate"}
      BY <1>h, <2>2 DEF Activity
    <3> QED BY <1>b, <1>c, <1>h, <2>2, <3>1 DEF ChildPCs
  <2> QED BY <1>h, <2>1, <2>2 DEF DepsOrGate
<1>k. me.pc \notin ParentPCs \cup HumanPCs => isC
  BY <1>b
<1>m. me.pc \notin ParentPCs \cup ChildPCs => isH
  BY <1>b
<1>n. me.pc \in {"dispatch", "spawn", "correct"} => isP
  BY <1>b DEF ChildPCs, HumanPCs
<1>o. me.pc \in {"adv", "ask", "askreq"} => ~isH
  BY <1>b DEF HumanPCs
<1>p. me.pc \in {"spawn", "cont", "correct", "contev", "fin", "finq", "finev", "finev2", "block",
                 "blocked"} /\ isP => me.ret = "mark"
  BY <1>b
<1> HIDE DEF Goes, isP, isC, isH
<1>1. ASSUME AdvanceJob(x) PROVE Goes
  <2>1. me.pc = "adv" /\ ~isH
    BY <1>1, <1>o DEF AdvanceJob, At
  <2>2. PICK r : /\ Goto(x, r)
                 /\ \/ r = [me EXCEPT !.pc = "ask"]
                    \/ isP /\ r = [me EXCEPT !.pc = "dispatch"]
                    \/ isC /\ r = [me EXCEPT !.pc = "events", !.kids = View]
    BY <1>1, <1>b, <2>1 DEF AdvanceJob, isP, isC, isH
  <2>3. /\ r.job = me.job /\ r.late = me.late /\ r.ret = me.ret
        /\ r.pc = "ask" \/ (isP /\ r.pc = "dispatch") \/ (isC /\ r.pc = "events")
    BY <1>b, <2>2 DEF Activity
  <2> QED BY <1>b, <1>c, <2>1, <2>2, <2>3 DEF ParentPCs, ChildPCs
<1>2. ASSUME Ask(x) PROVE Goes
  <2>1. me.pc = "ask" /\ ~isH
    BY <1>2, <1>o DEF Ask, At
  <2>2. Await(x) \/ Step(x, "mark") \/ Step(x, "askreq")
    BY <1>2 DEF Ask
  <2> QED BY <2>1, <2>2, <1>d, <1>e DEF ParentPCs, ChildPCs
<1>3. ASSUME AskRequest(x) \/ PauseRequest(x) PROVE Goes
  BY <1>3, <1>d DEF AskRequest, PauseRequest, RequestRound
<1>4. ASSUME AfterAdvance(x) PROVE Goes
  <2>1. me.pc = "after" /\ isC /\ (Step(x, "block") \/ Step(x, "mark"))
    BY <1>4, <1>k DEF AfterAdvance, At, ParentPCs, HumanPCs
  <2> QED BY <2>1, <1>b, <1>e DEF ChildPCs
<1>5. ASSUME Dispatch(x) PROVE Goes
  <2>1. me.pc = "dispatch" /\ isP
    BY <1>5, <1>n DEF Dispatch, At
  <2> DEFINE dd == [me EXCEPT !.ret = "mark"]
             cc == [dd EXCEPT !.pc = IF plan.refused = "loop" THEN "correct" ELSE "cont",
                              !.want = Request("corrective", plan.refused, NoView)]
  <2>2. dd.job = me.job /\ dd.late = me.late /\ dd.ret = "mark" /\ dd \in Activity
    BY <1>b DEF Activity
  <2>3. PICK r : /\ Goto(x, r)
                 /\ \/ r = Finalizing(dd, Backstop) \/ r = Finalizing(dd, plan.refused)
                    \/ r = [dd EXCEPT !.pc = "spawn"] \/ r = [dd EXCEPT !.pc = "mark"]
                    \/ r = cc
    BY <1>5 DEF Dispatch
  <2>4. r.job = me.job /\ r.late = me.late /\ r.ret = "mark"
        /\ r.pc \in {"fin", "spawn", "mark", "correct", "cont"}
    <3>1. CASE r = Finalizing(dd, Backstop) \/ r = Finalizing(dd, plan.refused)
      <4> HIDE DEF dd
      <4> QED BY <2>2, <3>1, FinalizingIs
    <3>2. CASE r = [dd EXCEPT !.pc = "spawn"] \/ r = [dd EXCEPT !.pc = "mark"]
      <4> HIDE DEF dd
      <4> QED BY <2>2, <3>2 DEF Activity
    <3>3. CASE r = cc
      <4> DEFINE w == Request("corrective", plan.refused, NoView)
      <4>1. r = [dd EXCEPT !.pc = IF plan.refused = "loop" THEN "correct" ELSE "cont", !.want = w]
        BY <3>3
      <4> HIDE DEF dd, w
      <4> QED BY <2>2, <4>1 DEF Activity
    <3> QED BY <2>3, <3>1, <3>2, <3>3
  <2>5. Placed(r.job, r) /\ x \in Workers /\ x \notin Humans /\ r.pc \notin {"idle", "attach"}
    <3>1. me.job = P /\ ~me.late /\ x \in Workers /\ x \notin Humans
      BY <2>1, <1>b DEF isP, isH
    <3> QED BY <2>4, <3>1 DEF Placed, ParentPCs
  <2> QED BY <2>3, <2>4, <2>5 DEF Goes, Follows
<1>6. ASSUME Spawn(x) PROVE Goes
  <2>1. me.pc = "spawn" /\ isP /\ me.ret = "mark"
    BY <1>6, <1>n, <1>p DEF Spawn, At
  <2>2. p' = p \/ Step(x, "mark") \/ Goto(x, BlockingOrFinalizing(me, "alloc"))
    BY <1>6 DEF Spawn
  <2>3. CASE p' = p
    BY <2>3 DEF Goes
  <2>4. ~isC /\ ~isH
    BY <2>1, <1>b
  <2> QED BY <2>1, <2>2, <2>3, <2>4, <1>e, <1>f DEF ParentPCs
<1>7. ASSUME Events(x) PROVE Goes
  <2>1. me.pc = "events" /\ isC
    BY <1>7, <1>k DEF Events, At, ParentPCs, HumanPCs
  <2> DEFINE e == Escalates(me.kids)
  <2>2. e \in BOOLEAN
    BY DEF Escalates
  <2>3. \/ Goto(x, [me EXCEPT !.pc = "retry"])
        \/ Goto(x, DepsOrGate([me EXCEPT !.esc = e, !.tried = {}]))
        \/ \E l : Goto(x, [Quit(me, "pause") EXCEPT !.leg = l])
        \/ Goto(x, BlockingOrFinalizing(me, "block_parent"))
    BY <1>7 DEF Events
  <2> HIDE DEF e
  <2>4. CASE Goto(x, [me EXCEPT !.pc = "retry"])
    BY <2>1, <2>4, <1>b, <1>e DEF Step, ChildPCs
  <2>5. CASE Goto(x, DepsOrGate([me EXCEPT !.esc = e, !.tried = {}]))
    <3> DEFINE me2 == [me EXCEPT !.esc = e, !.tried = {}]
    <3>1. me2 \in Activity /\ me2.job = me.job /\ me2.late = me.late /\ me2.ret = me.ret
      BY <1>b, <2>2 DEF Activity
    <3> HIDE DEF me2
    <3>2. Goto(x, DepsOrGate(me2))
      BY <2>5 DEF me2
    <3> QED BY <2>1, <3>1, <3>2, <1>h
  <2>6. ASSUME NEW l, Goto(x, [Quit(me, "pause") EXCEPT !.leg = l]) PROVE Goes
    <3> DEFINE r == [Quit(me, "pause") EXCEPT !.leg = l]
    <3>1. r.job = me.job /\ r.late = me.late /\ r.ret = me.ret /\ r.pc = "pause"
      BY DEF Quit, Idle
    <3>2. Goto(x, r)
      BY <2>6
    <3> HIDE DEF r
    <3> QED BY <2>1, <3>1, <3>2, <1>b, <1>c DEF ChildPCs
  <2>7. CASE Goto(x, BlockingOrFinalizing(me, "block_parent"))
    BY <2>1, <2>7, <1>b, <1>f
  <2> QED BY <2>3, <2>4, <2>5, <2>6, <2>7
<1>8. ASSUME Retry(x) PROVE Goes
  <2>1. me.pc = "retry" /\ isC
    BY <1>8, <1>k DEF Retry, At, ParentPCs, HumanPCs
  <2>2. PICK r : /\ Goto(x, r)
                 /\ \/ \E l : r = [me EXCEPT !.tried = @ \cup {l}]
                    \/ r = Quit(me, "block")
                    \/ r = [me EXCEPT !.pc = "events", !.kids = View]
    BY <1>8 DEF Retry, Blocking
  <2>3. r.job = me.job /\ r.late = me.late /\ r.ret = me.ret /\ r.pc \in {"retry", "block", "events"}
    <3>1. ASSUME NEW l, r = [me EXCEPT !.tried = @ \cup {l}]
          PROVE  r.job = me.job /\ r.late = me.late /\ r.ret = me.ret /\ r.pc = me.pc
      BY <3>1, <1>b DEF Activity
    <3>2. CASE r = [me EXCEPT !.pc = "events", !.kids = View]
      BY <3>2, <1>b DEF Activity
    <3>3. CASE r = Quit(me, "block")
      BY <3>3, QuitIs
    <3> QED BY <2>1, <2>2, <3>1, <3>2, <3>3
  <2> QED BY <2>1, <2>2, <2>3, <1>b, <1>c DEF ChildPCs
<1>9. ASSUME Pause(x) PROVE Goes
  <2>1. me.pc = "pause" /\ isC /\ (Await(x) \/ Step(x, "pausereq"))
    BY <1>9, <1>k DEF Pause, At, ParentPCs, HumanPCs
  <2> QED BY <2>1, <1>b, <1>d, <1>e DEF ChildPCs
<1>10. ASSUME Deps(x) PROVE Goes
  <2>1. me.pc = "deps" /\ isC
    BY <1>10, <1>k DEF Deps, At, ParentPCs, HumanPCs
  <2>2. \/ \E l : Goto(x, [me EXCEPT !.pc = "reread", !.tried = @ \cup {l}])
        \/ Goto(x, BlockingOrFinalizing(me, "alloc"))
    BY <1>10 DEF Deps
  <2>3. ASSUME NEW r, NEW l, r = [me EXCEPT !.pc = "reread", !.tried = @ \cup {l}], Goto(x, r)
        PROVE  Goes
    <3>1. r.job = me.job /\ r.late = me.late /\ r.ret = me.ret /\ r.pc = "reread"
      BY <2>3, <1>b DEF Activity
    <3> QED BY <2>1, <2>3, <3>1, <1>b, <1>c DEF ChildPCs
  <2> QED BY <2>1, <2>2, <2>3, <1>b, <1>f
<1>11. ASSUME Reread(x) PROVE Goes
  <2>1. me.pc = "reread" /\ isC
    BY <1>11, <1>k DEF Reread, At, ParentPCs, HumanPCs
  <2> DEFINE me2 == [me EXCEPT !.kids = View]
  <2>2. me2 \in Activity /\ me2.job = me.job /\ me2.late = me.late /\ me2.ret = me.ret
    BY <1>b, ViewType DEF Activity
  <2>3. Goto(x, DepsOrGate(me2))
    BY <1>11 DEF Reread
  <2> HIDE DEF me2
  <2> QED BY <2>1, <2>2, <2>3, <1>h
<1>12. ASSUME Gate(x) PROVE Goes
  <2>1. me.pc = "gate" /\ ~isP
    BY <1>12, <1>b DEF Gate, At, ParentPCs
  <2>2. PICK r : /\ Goto(x, r)
                 /\ \/ r = Quit(me, me.ret)
                    \/ \E why : r = BlockingOrFinalizing(me, why) \/ r = Finalizing(me, why)
                    \/ \E w : r = [Quit(me, "cont") EXCEPT !.want = w]
    BY <1>12 DEF Gate
  <2>3. CASE r = Quit(me, me.ret)
    BY <2>1, <2>2, <2>3, <1>b, <1>g DEF ChildPCs, HumanPCs
  <2>4. ASSUME NEW why, r = BlockingOrFinalizing(me, why) \/ r = Finalizing(me, why) PROVE Goes
    BY <2>1, <2>2, <2>4, <1>f
  <2>5. ASSUME NEW w, r = [Quit(me, "cont") EXCEPT !.want = w] PROVE Goes
    <3>1. r.job = me.job /\ r.late = me.late /\ r.ret = me.ret /\ r.pc = "cont"
      BY <2>5 DEF Quit, Idle
    <3> QED BY <2>1, <2>2, <3>1, <1>b, <1>c DEF ChildPCs, HumanPCs
  <2> QED BY <2>2, <2>3, <2>4, <2>5
<1>13. ASSUME AnswerGate(x) PROVE Goes
  <2>1. me.pc = "answer" /\ isH
    BY <1>13, <1>m DEF AnswerGate, At, ParentPCs, ChildPCs
  <2>2. PICK r : /\ Goto(x, r)
                 /\ \/ r = [me EXCEPT !.pc = me.ret]
                    \/ \E w : r = [me EXCEPT !.pc = "cont", !.want = w]
    BY <1>13 DEF AnswerGate
  <2>3. r.job = me.job /\ r.late = me.late /\ r.ret = me.ret /\ r.pc \in {"rs_task", "cont"}
    BY <2>1, <2>2, <1>b DEF Activity
  <2> QED BY <2>1, <2>2, <2>3, <1>b, <1>c DEF HumanPCs
<1>14. ASSUME Continue(x) \/ Correct(x) \/ FinalizeEnqueue(x) PROVE Goes
  <2>1. \/ me.pc = "cont" /\ (Goto(x, Quit(me, "contev")) \/ Fail(x))
        \/ me.pc = "correct" /\ (Goto(x, Quit(me, "mark")) \/ Fail(x))
        \/ me.pc = "finq" /\ (Goto(x, Quit(me, "finev")) \/ Fail(x))
    BY <1>14 DEF Continue, Correct, FinalizeEnqueue, EnqueueContinuation, At
  <2>2. me.pc = "correct" => ~isC /\ ~isH
    BY <1>b, <1>n
  <2> QED BY <2>1, <2>2, <1>d, <1>g, <1>p DEF ParentPCs, ChildPCs, HumanPCs
<1>15. ASSUME ContinueEvent(x) \/ FinalizeGuard(x) \/ FinalizeEvent(x) PROVE Goes
  <2>1. /\ me.pc \in {"contev", "finev", "fin", "finev2"}
        /\ Step(x, me.ret) \/ Step(x, "finev2") \/ Step(x, "finq")
    BY <1>15 DEF ContinueEvent, FinalizeGuard, FinalizeEvent, At
  <2>2. CASE Step(x, me.ret)
    BY <2>1, <2>2, <1>b, <1>e, <1>p DEF ParentPCs, ChildPCs, HumanPCs
  <2>3. CASE Step(x, "finev2") \/ Step(x, "finq")
    BY <2>1, <2>3, <1>b, <1>e, <1>p DEF ParentPCs, ChildPCs, HumanPCs
  <2> QED BY <2>1, <2>2, <2>3
<1>16. ASSUME ResumeRow(x) \/ ResumeTask(x) PROVE Goes
  <2>1. /\ me.pc \in {"rs_row", "rs_task"} /\ isH
        /\ Goto(x, Quit(me, "rs_task")) \/ Fail(x) \/ Goto(x, Quit(me, "block")) \/ Step(x, "rs_done")
    BY <1>16, <1>m DEF ResumeRow, ResumeTask, At, ParentPCs, ChildPCs, Blocking
  <2> QED BY <2>1, <1>b, <1>d, <1>e, <1>g DEF HumanPCs
<1>17. ASSUME Block(x) PROVE Goes
  BY <1>17, <1>e, <1>p DEF Block, At, ParentPCs, ChildPCs, HumanPCs
<1>18. ASSUME ResumeDone(x) \/ MarkDone(x) \/ MarkBlocked(x) PROVE Goes
  BY <1>18 DEF ResumeDone, MarkDone, MarkBlocked, Goes, Follows
<1>19. Goes
  BY <1>1, <1>2, <1>3, <1>4, <1>5, <1>6, <1>7, <1>8, <1>9, <1>10, <1>11, <1>12, <1>13, <1>14,
     <1>15, <1>16, <1>17, <1>18 DEF Engine
<1> QED BY <1>a, <1>19 DEF Goes

\* Only a worker that ends an advancement writes its marker.
LEMMA EngineMarks ==
    ASSUME TypeOK, Attended, NEW x \in Actors, Engine(x)
    PROVE  \/ mark' = mark
           \/ /\ x \in Workers /\ Goto(x, Idle)
              /\ \E m \in Marks \ {"none"} : mark' = [mark EXCEPT ![p[x].job] = m]
<1> DEFINE Written == /\ x \in Workers /\ Goto(x, Idle)
                      /\ \E m \in Marks \ {"none"} : mark' = [mark EXCEPT ![p[x].job] = m]
<1>a. ~At(x, "idle")
  BY EngineFollows
<1>b. x \in Workers \/ (x \in Humans /\ p[x].pc # "mark")
  BY <1>a, ActorKinds DEF HumanPCs
<1>1. ASSUME Fail(x) PROVE mark' = mark \/ Written
  <2>1. x \in Humans => mark' = mark
    BY <1>1 DEF Fail, Humans
  <2>2. "retry" \in Marks \ {"none"}
    BY DEF Marks
  <2> QED BY <1>1, <1>b, <2>1, <2>2 DEF Fail
<1>2. ASSUME MarkDone(x) PROVE Written
  BY <1>2, <1>b DEF MarkDone, At, Marks
<1>3. ASSUME MarkBlocked(x) PROVE mark' = mark \/ Written
  <2>1. x \in Humans => mark' = mark
    BY <1>3 DEF MarkBlocked, Humans
  <2>2. "blocked" \in Marks \ {"none"}
    BY DEF Marks
  <2> QED BY <1>3, <1>b, <2>1, <2>2 DEF MarkBlocked
<1>4. ASSUME Engine(x), ~Fail(x), ~MarkDone(x), ~MarkBlocked(x) PROVE mark' = mark
  BY <1>4 DEF Engine, AdvanceJob, Ask, AskRequest, AfterAdvance, Dispatch, Spawn, Events, Retry,
              Pause, PauseRequest, RequestRound, Deps, Reread, Gate, AnswerGate, Continue, Correct,
              EnqueueContinuation, ContinueEvent, FinalizeGuard, FinalizeEnqueue, FinalizeEvent,
              ResumeRow, ResumeTask, ResumeDone, Block, Await
<1> QED BY <1>1, <1>2, <1>3, <1>4

\* Rows that have settled stay settled, as they failed or succeeded.
LEMMA SettledStays ==
    ASSUME TypeOK, RowMoves, NEW c \in Children
    PROVE  /\ Settled(row[c]) => Settled(row'[c])
           /\ Failed(row[c]) => Failed(row'[c])
           /\ Succeeded(row[c]) => row'[c] = row[c]
BY DEF RowMoves, Settled, Succeeded, Failed

LEMMA EngineAttended ==
    ASSUME TypeOK, Know, Attended, NEW x \in Actors, Engine(x)
    PROVE  Attended'
<1>a. /\ ~At(x, "idle") /\ ~At(x, "attach")
      /\ p' = p \/ \E r : Follows(x, r) /\ Goto(x, r)
  BY EngineFollows
<1>b. /\ \/ mark' = mark
         \/ /\ x \in Workers /\ Goto(x, Idle)
            /\ \E m \in Marks \ {"none"} : mark' = [mark EXCEPT ![p[x].job] = m]
      /\ plan' = plan /\ RowMoves
  BY EngineMarks, EngineStore, GrowsMoves DEF StoreStep
<1>c. p \in [Actors -> Activity] /\ mark \in [Jobs -> Marks] /\ p[x].job \in Jobs
  BY DEF TypeOK, Marks, Activity
<1>d. Idle.pc = "idle" /\ Idle.late = FALSE
  BY DEF Idle
<1>e. \A y \in Actors : \/ p'[y] = p[y]
                        \/ y = x /\ p'[y] = Idle
                        \/ y = x /\ Follows(x, p'[y]) /\ p'[y] # Idle
  BY <1>a, <1>c DEF Goto
<1>f. \A y \in Actors : ~At(y, "idle")' => /\ ~At(y, "idle") /\ p'[y].job = p[y].job
                                           /\ p'[y].late = p[y].late
                                           /\ At(y, "attach")' => At(y, "attach")
  BY <1>a, <1>d, <1>e DEF At, Follows
<1>1. ASSUME NEW y \in Workers, ~At(y, "idle")' PROVE Placed(p[y].job, p[y])'
  <2>1. y \in Actors
    BY ActorSets
  <2>2. Placed(p'[y].job, p'[y])
    BY <1>1, <1>d, <1>e, <1>f, <2>1 DEF Attended, Follows, At
  <2> QED BY <2>2 DEF Placed
<1>2. ASSUME NEW y \in Workers
      PROVE  /\ p'[y].late \/ At(y, "attach")' =>
                     y \in Children /\ y[1] \in plan'.mortal /\ Failed(row'[y])
             /\ ~At(y, "idle")' /\ ~At(y, "attach")' /\ ~p'[y].late => Pending(p[y].job)'
  <2>1. y \in Actors
    BY ActorSets
  <2>2. ASSUME p'[y].late \/ At(y, "attach")'
        PROVE  y \in Children /\ y[1] \in plan'.mortal /\ Failed(row'[y])
    <3>1. p[y].late \/ At(y, "attach")
      BY <1>a, <1>d, <1>e, <2>1, <2>2 DEF At, Follows
    <3> QED BY <3>1, <1>b, SettledStays DEF Attended
  <2>3. ASSUME ~At(y, "idle")', ~At(y, "attach")', ~p'[y].late PROVE Pending(p[y].job)'
    <3>1. ~At(y, "idle") /\ ~p[y].late /\ p'[y].job = p[y].job
      BY <1>f, <2>1, <2>3
    <3>2. ~At(y, "attach")
      BY <1>a, <1>e, <2>1, <2>3 DEF At
    <3>3. mark[p[y].job] \in {"started", "retry"} /\ p[y].job \in Jobs
      BY <1>c, <2>1, <3>1, <3>2 DEF Attended, Pending, Activity
    <3>4. mark'[p[y].job] = mark[p[y].job]
      <4>1. CASE mark' = mark
        BY <4>1
      <4>2. CASE y = x
        BY <4>2, <1>b, <1>c, <1>d, <2>1, <2>3 DEF Goto, At
      <4>3. CASE x \in Workers /\ y # x
        BY <4>3, <1>a, <1>b, <1>c, <3>1, <3>3, OneEach
      <4> QED BY <1>b, <4>1, <4>2, <4>3
    <3> QED BY <3>1, <3>3, <3>4 DEF Pending
  <2> QED BY <2>2, <2>3
<1>3. \A y \in Jobs : ~At(y, "idle")' => p'[y].job = y
  BY <1>f, ActorSets DEF Attended
<1>4. ~At(Tick, "idle")' => At(p[Tick].job, "idle")'
  <2> SUFFICES ASSUME ~At(Tick, "idle")' PROVE At(p[Tick].job, "idle")'
    OBVIOUS
  <2>1. Tick \in Actors /\ ~At(Tick, "idle") /\ p'[Tick].job = p[Tick].job /\ p[Tick].job \in Jobs
    BY <1>c, <1>f, ActorSets DEF Activity
  <2>2. At(p[Tick].job, "idle") /\ p[Tick].job \in Actors
    BY <2>1, ActorSets DEF Attended
  <2>3. p'[p[Tick].job] = p[p[Tick].job]
    BY <1>a, <1>e, <2>2
  <2> QED BY <2>1, <2>2, <2>3 DEF At
<1>5. ASSUME NEW c \in Children, mark'[c] # "none" \/ ~At(c, "idle")' PROVE Settled(row'[c])
  <2>1. c \in Actors /\ c \in Jobs
    BY ActorSets
  <2>2. CASE mark[c] # "none" \/ ~At(c, "idle")
    BY <2>2, <1>b, SettledStays DEF Attended
  <2>3. CASE mark[c] = "none" /\ At(c, "idle")
    <3>1. x \in Workers /\ p[x].job = c
      BY <1>5, <1>b, <1>c, <1>f, <2>1, <2>3
    <3>2. x = Tick
      BY <1>a, <2>1, <2>3, <3>1 DEF Attended, Workers
    <3>3. Pending(c)
      BY <1>a, <3>1, <3>2, ActorSets DEF Attended
    <3> QED BY <2>3, <3>3 DEF Pending
  <2> QED BY <2>2, <2>3
<1>6. \A y \in Humans : ~At(y, "idle")' => p'[y].pc \in HumanPCs /\ p'[y].ret = "rs_task"
  BY <1>d, <1>e, <1>f, ActorSets DEF Attended, Follows, At
<1> QED BY <1>1, <1>2, <1>3, <1>4, <1>5, <1>6 DEF Attended

LEMMA AdvancingIs ==
    ASSUME NEW c
    PROVE  /\ Advancing(c, FALSE).pc = "adv" /\ Advancing(c, FALSE).job = c
           /\ ~Advancing(c, FALSE).late /\ Advancing(c, FALSE).ret = "after"
           /\ Advancing(c, TRUE).pc = "adv" /\ Advancing(c, TRUE).job = c
           /\ Advancing(c, TRUE).late /\ Advancing(c, TRUE).ret = "after"
           /\ Advancing(c, FALSE).want = NoCont /\ Advancing(c, TRUE).want = NoCont
           /\ Advancing(c, FALSE) \notin {Idle} /\ Advancing(c, TRUE) \notin {Idle}
<1>1. /\ [Idle EXCEPT !.pc = "adv", !.job = c, !.late = FALSE].pc = "adv"
      /\ [Idle EXCEPT !.pc = "adv", !.job = c, !.late = FALSE].job = c
      /\ [Idle EXCEPT !.pc = "adv", !.job = c, !.late = FALSE].late = FALSE
      /\ [Idle EXCEPT !.pc = "adv", !.job = c, !.late = FALSE].ret = "after"
      /\ [Idle EXCEPT !.pc = "adv", !.job = c, !.late = FALSE].want = NoCont
  BY DEF Idle
<1>2. /\ [Idle EXCEPT !.pc = "adv", !.job = c, !.late = TRUE].pc = "adv"
      /\ [Idle EXCEPT !.pc = "adv", !.job = c, !.late = TRUE].job = c
      /\ [Idle EXCEPT !.pc = "adv", !.job = c, !.late = TRUE].late = TRUE
      /\ [Idle EXCEPT !.pc = "adv", !.job = c, !.late = TRUE].ret = "after"
      /\ [Idle EXCEPT !.pc = "adv", !.job = c, !.late = TRUE].want = NoCont
  BY DEF Idle
<1>3. Idle.pc = "idle"
  BY DEF Idle
<1> HIDE DEF Idle
<1> QED BY <1>1, <1>2, <1>3 DEF Advancing

\* What a run and its attachment do
LEMMA RunIs ==
    ASSUME TypeOK, Know, Attended, NEW c \in Children, Run(c) \/ Attach(c)
    PROVE  /\ plan' = plan /\ RowMoves /\ Settled(row'[c])
           /\ \E st \in States : row' = [row EXCEPT ![c] = st]
           /\ (row[c] = "active" /\ At(c, "idle")) \/ (row[c] = "dead" /\ At(c, "attach"))
           /\ \A y \in Actors : y # c => p'[y] = p[y]
           /\ p'[c].job = c /\ p'[c].ret = "after" /\ p'[c].pc \in {"adv", "attach"}
           /\ \/ Deliver(c) /\ ~p'[c].late /\ p'[c].pc = "adv"
              \/ /\ p'[c].late \/ p'[c].pc = "attach"
                 /\ c[1] \in plan.mortal /\ Failed(row'[c])
           /\ mark' = mark \/ mark' = [mark EXCEPT ![c] = "started"]
           /\ Deliver(c) => mark' = [mark EXCEPT ![c] = "started"]
           /\ \A y \in Workers : y # c /\ ~At(y, "idle") => p[y].job # c
           /\ UNCHANGED <<cont, evCont, evFin, evRefused, reqs, resolved, task, crashes>>
<1>a. /\ p \in [Actors -> Activity] /\ mark \in [Jobs -> Marks] /\ row \in [Children -> States]
      /\ c \in Actors /\ c \in Jobs /\ c \in Workers /\ c \notin Humans /\ c # P
  BY ActorSets DEF TypeOK, Marks
<1>b. plan' = plan /\ RowMoves
  BY RunKeeps DEF StoreStep
<1>c. \E r : /\ p' = [p EXCEPT ![c] = r] /\ r.job = c /\ r.ret = "after"
             /\ r.pc \in {"adv", "attach"}
             /\ \/ Deliver(c) /\ ~r.late /\ r.pc = "adv"
                \/ /\ r.late \/ r.pc = "attach"
                   /\ c[1] \in plan.mortal /\ Failed(row'[c])
  <2>1. ASSUME Deliver(c)
        PROVE  p' = [p EXCEPT ![c] = Advancing(c, FALSE)]
    BY <2>1 DEF Deliver, Goto
  <2>2. ASSUME TimeOut(c)
        PROVE  p' = [p EXCEPT ![c] = Advancing(c, TRUE)] /\ c[1] \in plan.mortal /\ Failed(row'[c])
    BY <2>2, <1>a DEF TimeOut, Goto, Failed
  <2>3. ASSUME DeliveryFail(c)
        PROVE  /\ p' = [p EXCEPT ![c] = [Idle EXCEPT !.pc = "attach", !.job = c]]
               /\ c[1] \in plan.mortal /\ Failed(row'[c])
    BY <2>3, <1>a DEF DeliveryFail, Goto, Failed
  <2>4. ASSUME Attach(c)
        PROVE  p' = [p EXCEPT ![c] = Advancing(c, TRUE)] /\ c[1] \in plan.mortal /\ Failed(row'[c])
    BY <2>4, <1>a DEF Attach, Goto, Failed, Attended
  <2>5. /\ [Idle EXCEPT !.pc = "attach", !.job = c].pc = "attach"
        /\ [Idle EXCEPT !.pc = "attach", !.job = c].job = c
        /\ [Idle EXCEPT !.pc = "attach", !.job = c].ret = "after"
    BY DEF Idle
  <2> HIDE DEF Advancing, Idle, Deliver
  <2>6. CASE Deliver(c)
    <3> DEFINE r == Advancing(c, FALSE)
    <3>1. /\ p' = [p EXCEPT ![c] = r] /\ r.job = c /\ r.ret = "after" /\ ~r.late /\ r.pc = "adv"
      BY <2>1, <2>6, AdvancingIs
    <3> HIDE DEF r
    <3> QED BY <3>1, <2>6
  <2>7. CASE TimeOut(c) \/ Attach(c)
    <3> DEFINE r == Advancing(c, TRUE)
    <3>1. /\ p' = [p EXCEPT ![c] = r] /\ r.job = c /\ r.ret = "after" /\ r.late /\ r.pc = "adv"
      BY <2>2, <2>4, <2>7, AdvancingIs
    <3> HIDE DEF r
    <3> QED BY <3>1, <2>2, <2>4, <2>7
  <2>8. CASE DeliveryFail(c)
    BY <2>3, <2>5, <2>8
  <2> QED BY <2>6, <2>7, <2>8 DEF Run
<1>d. \/ mark' = mark
      \/ mark' = [mark EXCEPT ![c] = "started"]
  BY DEF Run, Deliver, TimeOut, DeliveryFail, Attach
<1>e. (Deliver(c) => mark' = [mark EXCEPT ![c] = "started"]) /\ Settled(row'[c])
  <2>1. \E st \in {"approved", "changes", "asking", "failed", "dead"} : row' = [row EXCEPT ![c] = st]
    BY DEF Run, Deliver, TimeOut, DeliveryFail, Attach, Decisions
  <2>2. Settled(row'[c])
    BY <2>1, <1>a DEF Settled, Succeeded, Failed
  <2> QED BY <2>2 DEF Deliver
<1>f. \A y \in Actors : y # c => p'[y] = p[y]
  BY <1>a, <1>c
<1>g. /\ p'[c].job = c /\ p'[c].ret = "after" /\ p'[c].pc \in {"adv", "attach"}
      /\ \/ Deliver(c) /\ ~p'[c].late /\ p'[c].pc = "adv"
         \/ /\ p'[c].late \/ p'[c].pc = "attach"
            /\ c[1] \in plan.mortal /\ Failed(row'[c])
  BY <1>a, <1>c
<1>h. ~At(Tick, "idle") => p[Tick].job # c
  <2> SUFFICES ASSUME ~At(Tick, "idle"), p[Tick].job = c PROVE FALSE
    OBVIOUS
  <2>1. At(c, "idle") /\ Pending(c)
    BY ActorSets DEF Attended
  <2>2. Settled(row[c])
    BY <2>1 DEF Attended, Pending
  <2> QED BY <2>1, <2>2 DEF Run, Deliver, TimeOut, DeliveryFail, Attach, At, Settled, Succeeded, Failed
<1>k. ASSUME NEW y \in Workers, y # c, ~At(y, "idle") PROVE p[y].job # c
  BY <1>h, <1>k DEF Attended, Workers
<1>l. \E st \in States : row' = [row EXCEPT ![c] = st]
  <2>1. \E st \in {"approved", "changes", "asking", "failed", "dead"} : row' = [row EXCEPT ![c] = st]
    BY DEF Run, Deliver, TimeOut, DeliveryFail, Attach, Decisions
  <2> QED BY <2>1 DEF States
<1>m. (row[c] = "active" /\ At(c, "idle")) \/ (row[c] = "dead" /\ At(c, "attach"))
  BY DEF Run, Deliver, TimeOut, DeliveryFail, Attach, Know
<1>n. UNCHANGED <<cont, evCont, evFin, evRefused, reqs, resolved, task, crashes>>
  BY DEF Run, Deliver, TimeOut, DeliveryFail, Attach, still
<1> QED BY <1>b, <1>d, <1>e, <1>f, <1>g, <1>k, <1>l, <1>m, <1>n

LEMMA RunAttended ==
    ASSUME TypeOK, Know, Attended, NEW c \in Children, Run(c) \/ Attach(c)
    PROVE  Attended'
<1>a. /\ p \in [Actors -> Activity] /\ mark \in [Jobs -> Marks] /\ row \in [Children -> States]
      /\ c \in Actors /\ c \in Jobs /\ c \in Workers /\ c \notin Humans /\ c # P
  BY ActorSets DEF TypeOK, Marks
<1>b. plan' = plan /\ RowMoves
  BY RunIs
<1>d. mark' = mark \/ mark' = [mark EXCEPT ![c] = "started"]
  BY RunIs
<1>e. (Deliver(c) => mark' = [mark EXCEPT ![c] = "started"]) /\ Settled(row'[c])
  BY RunIs
<1>f. \A y \in Actors : y # c => p'[y] = p[y]
  BY RunIs
<1>g. /\ p'[c].job = c /\ p'[c].ret = "after" /\ p'[c].pc \in {"adv", "attach"}
      /\ \/ Deliver(c) /\ ~p'[c].late /\ p'[c].pc = "adv"
         \/ /\ p'[c].late \/ p'[c].pc = "attach"
            /\ c[1] \in plan.mortal /\ Failed(row'[c])
  BY RunIs
<1>h. ~At(Tick, "idle") => p[Tick].job # c
  BY RunIs, ActorSets
<1>1. ASSUME NEW y \in Workers, ~At(y, "idle")' PROVE Placed(p[y].job, p[y])'
  <2>1. CASE y = c
    <3>1. Placed(c, p'[c])
      BY <1>a, <1>g DEF Placed, ChildPCs
    <3> QED BY <1>g, <2>1, <3>1 DEF Placed
  <2>2. CASE y # c
    <3>1. Placed(p[y].job, p[y]) /\ p'[y] = p[y]
      BY <1>1, <1>f, <2>2, ActorSets DEF Attended, At
    <3> QED BY <3>1 DEF Placed
  <2> QED BY <2>1, <2>2
<1>2. ASSUME NEW y \in Workers
      PROVE  /\ p'[y].late \/ At(y, "attach")' =>
                     y \in Children /\ y[1] \in plan'.mortal /\ Failed(row'[y])
             /\ ~At(y, "idle")' /\ ~At(y, "attach")' /\ ~p'[y].late => Pending(p[y].job)'
  <2>1. CASE y = c
    BY <1>a, <1>b, <1>e, <1>g, <2>1 DEF At, Pending
  <2>2. CASE y # c
    <3>1. p'[y] = p[y] /\ y \in Actors
      BY <1>f, <2>2, ActorSets
    <3>2. p[y].late \/ At(y, "attach") =>
                     y \in Children /\ y[1] \in plan'.mortal /\ Failed(row'[y])
      BY <1>b, SettledStays DEF Attended
    <3>3. ASSUME ~At(y, "idle"), ~At(y, "attach"), ~p[y].late PROVE Pending(p[y].job)'
      <4>1. Pending(p[y].job) /\ p[y].job \in Jobs
        BY <1>a, <3>1, <3>3 DEF Attended, Activity
      <4>2. mark'[p[y].job] \in {"started", "retry"}
        BY <4>1, <1>a, <1>d DEF Pending
      <4> QED BY <3>1, <4>2 DEF Pending
    <3> QED BY <3>1, <3>2, <3>3 DEF At
  <2> QED BY <2>1, <2>2
<1>3. \A y \in Jobs : ~At(y, "idle")' => p'[y].job = y
  BY <1>f, <1>g, ActorSets DEF Attended, At
<1>4. ~At(Tick, "idle")' => At(p[Tick].job, "idle")'
  <2> SUFFICES ASSUME ~At(Tick, "idle")' PROVE At(p[Tick].job, "idle")'
    OBVIOUS
  <2>1. Tick # c /\ Tick \in Actors
    BY <1>a, ActorSets
  <2>2. p'[Tick] = p[Tick] /\ ~At(Tick, "idle") /\ p[Tick].job \in Jobs
    BY <2>1, <1>a, <1>f DEF At, Activity
  <2>3. p[Tick].job # c /\ p[Tick].job \in Actors
    BY <1>h, <2>2, ActorSets
  <2> QED BY <2>2, <2>3, <1>f DEF Attended, At
<1>5. ASSUME NEW d \in Children, mark'[d] # "none" \/ ~At(d, "idle")' PROVE Settled(row'[d])
  <2>1. CASE d = c
    BY <1>e, <2>1
  <2>2. CASE d # c
    <3>1. mark'[d] = mark[d] /\ p'[d] = p[d]
      BY <1>a, <1>d, <1>f, <2>2, ActorSets
    <3>2. Settled(row[d])
      BY <1>5, <3>1 DEF Attended, At
    <3> QED BY <3>2, <1>b, SettledStays
  <2> QED BY <2>1, <2>2
<1>6. \A y \in Humans : ~At(y, "idle")' => p'[y].pc \in HumanPCs /\ p'[y].ret = "rs_task"
  BY <1>a, <1>f, ActorSets DEF Attended, At
<1> QED BY <1>1, <1>2, <1>3, <1>4, <1>5, <1>6 DEF Attended

\* An actor that was idle takes something up, and nothing else changes.
LEMMA TakenUpAttended ==
    ASSUME TypeOK, Attended, UNCHANGED <<plan, row, mark>>, NEW x \in Humans \cup {Tick}, NEW r,
           Goto(x, r), ~r.late, r.pc \notin {"idle", "attach"},
           \/ /\ x = Tick /\ r.job \in Jobs /\ Placed(r.job, r) /\ Pending(r.job)
              /\ At(r.job, "idle")
           \/ x \in Humans /\ r.pc \in HumanPCs /\ r.ret = "rs_task"
    PROVE  Attended'
<1>1. x \in Actors /\ p \in [Actors -> Activity]
  BY ActorSets DEF TypeOK
<1>2. p'[x] = r /\ \A y \in Actors : y # x => p'[y] = p[y]
  BY <1>1 DEF Goto
<1>3. \A y \in Jobs : y \in Actors /\ y # x
  BY ActorSets
<1>4. x # Tick => p'[Tick] = p[Tick] /\ p[Tick].job \in Jobs
  BY <1>1, <1>2, ActorSets DEF Activity
<1>5. \A y \in Workers : ~At(y, "idle")' => Placed(p[y].job, p[y])'
  BY <1>2, ActorSets DEF Attended, At, Placed
<1>6. ASSUME NEW y \in Workers
      PROVE  /\ p'[y].late \/ At(y, "attach")' =>
                     y \in Children /\ y[1] \in plan'.mortal /\ Failed(row'[y])
             /\ ~At(y, "idle")' /\ ~At(y, "attach")' /\ ~p'[y].late => Pending(p[y].job)'
  <2>1. CASE y = x
    BY <1>2, <2>1, ActorSets DEF At, Pending
  <2>2. CASE y # x
    BY <1>2, <2>2, ActorSets DEF Attended, At, Pending, Failed
  <2> QED BY <2>1, <2>2
<1>7. \A y \in Jobs : ~At(y, "idle")' => p'[y].job = y
  BY <1>2, <1>3 DEF Attended, At
<1>8. ~At(Tick, "idle")' => At(p[Tick].job, "idle")'
  BY <1>2, <1>3, <1>4, ActorSets DEF Attended, At
<1>9. \A c \in Children : mark'[c] # "none" \/ ~At(c, "idle")' => Settled(row'[c])
  BY <1>2, <1>3, ActorSets DEF Attended, At
<1>10. \A y \in Humans : ~At(y, "idle")' => p'[y].pc \in HumanPCs /\ p'[y].ret = "rs_task"
  BY <1>2, ActorSets DEF Attended, At
<1> QED BY <1>5, <1>6, <1>7, <1>8, <1>9, <1>10 DEF Attended

\* What a human's command, or the TTL, starts with
LEMMA HumanStarts ==
    ASSUME TypeOK, NEW x \in Humans,
           \/ \E verb \in Verbs, t \in Texts : Human(x, verb, t)
           \/ x = Poller /\ Expire
    PROVE  /\ UNCHANGED <<plan, tripped, crashes, store, mark>> /\ At(x, "idle") /\ Open
           /\ \E r : /\ Goto(x, r) /\ ~r.late /\ r.ret = "rs_task" /\ r.job = P
                     /\ \/ r.pc = "rs_row" \/ r.pc = "gate" \/ r.pc = "answer"
                        \/ r.pc = "fin" /\ r.want \in {Finalize("abort"), Finalize("ttl")}
                     /\ r.pc \in {"rs_row", "gate"} => Round.kind # "ask"
<1> DEFINE me == Resolving
<1>1. me.job = P /\ ~me.late /\ me.ret = "rs_task" /\ me \in Activity
  <2>1. Idle \in Activity /\ Idle.job = P /\ ~Idle.late
    BY IdleType DEF Idle
  <2> HIDE DEF Idle
  <2> QED BY <2>1 DEF Resolving, Activity
<1> HIDE DEF me
<1> DEFINE rRow(l, t) == [me EXCEPT !.pc = "rs_row", !.leg = l, !.said = t]
           rGate(v) == [me EXCEPT !.pc = "gate", !.kids = v]
           rFin(w) == [me EXCEPT !.pc = "fin", !.want = w]
           rAns == [me EXCEPT !.pc = "answer"]
<1>2. /\ \A l, t : LET r == rRow(l, t) IN r.pc = "rs_row" /\ r.job = P /\ ~r.late /\ r.ret = "rs_task"
      /\ \A v : LET r == rGate(v) IN r.pc = "gate" /\ r.job = P /\ ~r.late /\ r.ret = "rs_task"
      /\ \A w : LET r == rFin(w) IN r.pc = "fin" /\ r.job = P /\ ~r.late /\ r.ret = "rs_task"
                                   /\ r.want = w
      /\ rAns.pc = "answer" /\ rAns.job = P /\ ~rAns.late /\ rAns.ret = "rs_task"
  BY <1>1 DEF Activity
<1> HIDE DEF rRow, rGate, rFin, rAns
<1>3. ASSUME NEW verb \in Verbs, NEW t \in Texts, Human(x, verb, t)
      PROVE  /\ UNCHANGED <<plan, tripped, crashes, store, mark>> /\ At(x, "idle") /\ Open
             /\ (verb = "answer") <=> (Round.kind = "ask")
             /\ verb = "retry" => Goto(x, rRow(Round.leg, t))
             /\ verb = "continue" => Goto(x, rGate(View))
             /\ verb = "abort" => Goto(x, rFin(Finalize("abort")))
             /\ verb = "answer" => Goto(x, rAns)
  <2> HIDE DEF Round, Resolving, Finalize, Goto, View
  <2> QED BY <1>3 DEF Human, me, still, rRow, rGate, rFin, rAns
<1>4. \A verb \in Verbs : verb \in {"retry", "continue", "abort", "answer"}
  BY DelegationAssumption
<1>5. ASSUME NEW verb \in Verbs, NEW t \in Texts, Human(x, verb, t)
      PROVE  \E r : /\ Goto(x, r) /\ ~r.late /\ r.ret = "rs_task" /\ r.job = P
                    /\ \/ r.pc = "rs_row" \/ r.pc = "gate" \/ r.pc = "answer"
                       \/ r.pc = "fin" /\ r.want \in {Finalize("abort"), Finalize("ttl")}
                    /\ r.pc \in {"rs_row", "gate"} => Round.kind # "ask"
  <2> HIDE DEF Round
  <2>1. CASE verb = "retry"
    BY <1>2, <1>3, <1>5, <2>1
  <2>2. CASE verb = "continue"
    BY <1>2, <1>3, <1>5, <2>2
  <2>3. CASE verb = "abort"
    BY <1>2, <1>3, <1>5, <2>3
  <2>4. CASE verb = "answer"
    BY <1>2, <1>3, <1>5, <2>4
  <2> QED BY <1>4, <2>1, <2>2, <2>3, <2>4
<1>6. ASSUME x = Poller, Expire
      PROVE  /\ UNCHANGED <<plan, tripped, crashes, store, mark>> /\ At(x, "idle") /\ Open
             /\ Goto(x, rFin(Finalize("ttl")))
  BY <1>6 DEF Expire, me, still, rFin
<1> QED BY <1>2, <1>3, <1>5, <1>6

LEMMA AttendedNext ==
    ASSUME TypeOK, Know, Attended, [Next]_vars
    PROVE  Attended'
<1>1. ASSUME NEW x \in Actors, Engine(x) PROVE Attended'
  BY <1>1, EngineAttended
<1>2. ASSUME NEW c \in Children, Run(c) \/ Attach(c) PROVE Attended'
  BY <1>2, RunAttended
<1>3. ASSUME NEW j \in Jobs, TickRetry(j) PROVE Attended'
  <2> DEFINE r == Advancing(j, FALSE)
  <2>1. /\ UNCHANGED <<plan, row, mark>> /\ Goto(Tick, r) /\ Pending(j) /\ At(j, "idle")
    BY <1>3 DEF TickRetry, still, store
  <2>2. ~r.late /\ r.pc = "adv" /\ r.job = j /\ r.ret = "after"
    BY AdvancingIs
  <2> HIDE DEF r
  <2>3. Placed(j, r)
    BY <2>2 DEF Placed, ParentPCs, ChildPCs
  <2> QED BY <2>1, <2>2, <2>3, TakenUpAttended
<1>4. ASSUME NEW x \in Humans,
             \/ \E verb \in Verbs, t \in Texts : Human(x, verb, t)
             \/ x = Poller /\ Expire
      PROVE  Attended'
  <2>1. PICK r : /\ Goto(x, r) /\ ~r.late /\ r.ret = "rs_task"
                 /\ r.pc \in {"rs_row", "gate", "answer", "fin"}
    BY <1>4, HumanStarts
  <2>2. UNCHANGED <<plan, row, mark>>
    BY <1>4, HumanStarts DEF store
  <2> QED BY <2>1, <2>2, TakenUpAttended DEF HumanPCs
<1>5. CASE Crash
  <2>1. /\ UNCHANGED <<plan, row, mark>>
        /\ p' = [x \in Actors |-> IF x = Chat THEN p[x] ELSE Idle]
    BY <1>5 DEF Crash, store
  <2>2. Idle.pc = "idle" /\ ~Idle.late
    BY DEF Idle
  <2>3. \A y \in Workers : p'[y] = Idle
    BY <2>1, ActorSets DEF Humans
  <2>4. \A y \in Humans : p'[y] = p[y] \/ p'[y] = Idle
    BY <2>1, ActorSets
  <2> HIDE DEF Idle
  <2>5. \A y \in Jobs \cup {Tick} : p'[y] = Idle
    BY <2>3, ActorSets
  <2> QED BY <2>1, <2>2, <2>3, <2>4, <2>5, ActorSets DEF Attended, At
<1>6. CASE Trip \/ UNCHANGED vars
  <2>1. UNCHANGED <<plan, row, mark, p>>
    BY <1>6 DEF Trip, vars, store
  <2> QED BY <2>1 DEF Attended, Placed, At, Pending
<1> QED BY <1>1, <1>2, <1>3, <1>4, <1>5, <1>6 DEF Next, Humans

LEMMA AttendedInit == Init => Attended
<1> SUFFICES ASSUME Init PROVE Attended
  OBVIOUS
<1>1. /\ p = [x \in Actors |-> IF x = P THEN Advancing(P, FALSE) ELSE Idle]
      /\ mark = [j \in Jobs |-> IF j = P THEN "started" ELSE "none"]
  BY DEF Init
<1>2. Idle.pc = "idle" /\ ~Idle.late
  BY DEF Idle
<1>3. /\ Advancing(P, FALSE).pc = "adv" /\ Advancing(P, FALSE).job = P
      /\ ~Advancing(P, FALSE).late
  BY AdvancingIs
<1>4. Placed(P, Advancing(P, FALSE))
  BY <1>3 DEF Placed, ParentPCs
<1>5. P \in Actors /\ P \in Jobs /\ mark[P] = "started" /\ p[P] = Advancing(P, FALSE)
  BY <1>1, ActorSets
<1>6. \A y \in Actors : y # P => p[y] = Idle
  BY <1>1
<1>7. \A c \in Children : mark[c] = "none" /\ c # P /\ c \in Actors
  BY <1>1, ActorSets
<1> HIDE DEF Idle, Advancing
<1>8. \A y \in Workers : ~At(y, "idle") => y = P
  BY <1>2, <1>6, ActorSets DEF At
<1>9. \A y \in Workers : ~p[y].late /\ ~At(y, "attach")
  BY <1>2, <1>3, <1>5, <1>6, ActorSets DEF At
<1>10. \A y \in Humans : At(y, "idle")
  BY <1>2, <1>6, ActorSets DEF At
<1>11. At(Tick, "idle") /\ \A c \in Children : At(c, "idle")
  BY <1>2, <1>6, ActorSets DEF At
<1>12. Pending(P) /\ p[P].job = P
  BY <1>3, <1>5 DEF Pending
<1> QED BY <1>4, <1>5, <1>7, <1>8, <1>9, <1>10, <1>11, <1>12, ActorSets DEF Attended
-----------------------------------------------------------------------------
(* Continuations and questions                                              *)

Wants == {"cont", "correct", "fin", "finq"}

\* What actor x may go on as, for Continues and Asked
Good(x, r) ==
    /\ r.pc \in Wants => r.want.kind # "none"
    /\ r.pc \in {"contev", "finev", "finev2"} => Continued'
    /\ r.pc \in {"ask", "askreq"} => Asks(r.job)
    /\ r.pc \in {"pause", "pausereq"} => ~NoHuman(plan)
    /\ x \in Humans /\ NoHuman(plan) => /\ r.pc \notin {"rs_row", "gate"}
                                        /\ r.pc \in {"rs_task", "rs_done"} => Continued'
    /\ ~NoHuman(plan) => r.pc \notin {"block", "blocked"}
    /\ p[x].pc \in Wants => Continued' \/ (r.pc = "finq" /\ r.job = p[x].job)
    /\ reqs' = <<>> /\ p[x].pc \in {"adv", "ask", "askreq"} /\ Asks(p[x].job) =>
          r.pc \in {"ask", "askreq"}
Goes(x) == \E r : Goto(x, r) /\ Good(x, r)

\* What its step may write
Stores(x) ==
    /\ cont' = cont \/ Continued'
    /\ evCont' \/ evFin' => evCont \/ evFin \/ Continued'
    /\ evRefused' => \/ evRefused
                     \/ /\ MaxCrashes = 0 /\ x \in Workers
                        /\ \E r : Goto(x, r) /\ r.job = P /\ r.pc \in Wants
    /\ reqs' = reqs \/ \E rd : reqs' = Append(reqs, rd) /\ (NoHuman(plan) => rd.kind = "ask")
    /\ resolved' = resolved \/ (NoHuman(plan) => Continued')
    /\ task' = "blocked" => task = "blocked" \/ NoHuman(plan)

Known == TypeOK /\ Know /\ Attended /\ Continues /\ Asked /\ Rests(plan)

LEMMA FinalizeKind ==
    /\ \A kind, why, kids : Request(kind, why, kids).kind = kind
    /\ \A why : Finalize(why).kind = "finalize"
BY DEF Request, Finalize

\* Going where there is nothing to show
LEMMA GoodAt ==
    ASSUME NEW x \in Actors, NEW r,
           p[x].pc \notin Wants \cup {"adv", "ask", "askreq"},
           \/ r.pc \in {"idle", "dispatch", "spawn", "events", "retry", "deps", "reread", "mark",
                        "after", "answer"}
           \/ r.pc \in Wants /\ r.want.kind # "none"
           \/ r.pc = "block" /\ NoHuman(plan)
    PROVE  Good(x, r)
BY DEF Good, Wants

LEMMA HumanPlans ==
    ASSUME Known, ~NoHuman(plan)
    PROVE  /\ plan.asks = {} /\ ~plan.alloc
           /\ \A l \in Legs : plan.policy[l] # "block_parent"
           /\ \A l \in plan.mortal : plan.policy[l] # "escalate_human"
           /\ \A v : ~GateFails(v)
           /\ \A j \in Jobs : ~Asks(j)
<1>1. /\ plan.asks = {} /\ ~plan.alloc
      /\ \A l \in Legs : plan.policy[l] # "block_parent" /\ plan.rule[l] \in {"summary", "verify"}
      /\ \A l \in plan.mortal : plan.policy[l] # "escalate_human"
  BY DEF Known, Rests
<1>2. \A v : ~GateFails(v)
  BY <1>1 DEF GateFails, HasRule
<1>3. \A j \in Jobs : ~Asks(j)
  BY <1>1, ActorSets DEF Known, Asked, Asks
<1> QED BY <1>1, <1>2, <1>3

\* Blocking, or finalizing instead, where it may happen
LEMMA GoodBlocking ==
    ASSUME NEW x \in Actors, p[x].pc \notin Wants \cup {"adv", "ask", "askreq"},
           NEW me, NEW why, NoHuman(plan), Goto(x, BlockingOrFinalizing(me, why))
    PROVE  Goes(x)
<1>1. PICK r : Goto(x, r) /\ \/ r.pc = "block"
                             \/ r.pc = "fin" /\ r.want.kind # "none"
  BY BlockingIs, FinalizeKind
<1>2. Good(x, r)
  BY <1>1, GoodAt DEF Wants
<1> QED BY <1>1, <1>2 DEF Goes

LEMMA GoodFinalizing ==
    ASSUME NEW x \in Actors, p[x].pc \notin Wants \cup {"adv", "ask", "askreq"},
           NEW me, NEW why, Goto(x, Finalizing(me, why))
    PROVE  Goes(x)
<1>1. PICK r : Goto(x, r) /\ r.pc = "fin" /\ r.want.kind # "none"
  BY FinalizingIs, FinalizeKind
<1>2. Good(x, r)
  BY <1>1, GoodAt DEF Wants
<1> QED BY <1>1, <1>2 DEF Goes

LEMMA GoodDeps ==
    ASSUME NEW x \in Actors, p[x].pc \notin Wants \cup {"adv", "ask", "askreq"}, x \in Workers,
           NEW me \in Activity, Goto(x, DepsOrGate(me))
    PROVE  Goes(x)
<1>1. PICK r : Goto(x, r) /\ r.pc \in {"deps", "gate", "after"}
  <2>1. CASE Goto(x, Quit(me, "after"))
    BY <2>1, QuitIs
  <2>2. CASE Goto(x, [me EXCEPT !.pc = "deps"])
    BY <2>2 DEF Activity
  <2>3. CASE Goto(x, [me EXCEPT !.pc = "gate", !.tried = {}])
    <3>1. [me EXCEPT !.pc = "gate", !.tried = {}].pc = "gate"
      BY DEF Activity
    <3> QED BY <2>3, <3>1
  <2> QED BY <2>1, <2>2, <2>3 DEF DepsOrGate
<1>2. Good(x, r)
  BY <1>1, ActorSets DEF Good, Wants
<1> QED BY <1>1, <1>2 DEF Goes

LEMMA AdvanceGoes ==
    ASSUME Known, NEW x \in Actors, AdvanceJob(x) \/ Ask(x) \/ AskRequest(x)
    PROVE  Goes(x)
<1>a. /\ p[x].pc \in {"adv", "ask", "askreq"} /\ p[x] \in Activity /\ p[x].job \in Jobs
      /\ x \in Workers /\ x \notin Humans /\ ~At(x, "idle")
  <2>1. p[x].pc \in {"adv", "ask", "askreq"}
    BY DEF AdvanceJob, Ask, AskRequest, RequestRound, At
  <2> QED BY <2>1, ActorKinds DEF At, HumanPCs, Known
<1>b. Idle.pc = "idle"
  BY DEF Idle
<1>1. CASE AdvanceJob(x)
  <2>1. PICK r : /\ Goto(x, r)
                 /\ \/ r = [p[x] EXCEPT !.pc = "ask"] /\ Asks(p[x].job)
                    \/ r = [p[x] EXCEPT !.pc = "dispatch"] /\ ~Asks(p[x].job)
                    \/ r = [p[x] EXCEPT !.pc = "events", !.kids = View] /\ ~Asks(p[x].job)
    BY <1>1 DEF AdvanceJob
  <2>2. \/ r.pc = "ask" /\ r.job = p[x].job /\ Asks(p[x].job)
        \/ r.pc \in {"dispatch", "events"} /\ ~Asks(p[x].job)
    BY <1>a, <2>1 DEF Activity
  <2>3. Good(x, r)
    BY <1>a, <2>2 DEF Good, Wants
  <2> QED BY <2>1, <2>3 DEF Goes
<1>2. CASE Ask(x)
  <2>1. CASE Await(x) /\ Open
    <3>1. reqs' # <<>>
      BY <1>2, <2>1 DEF Open, Ask, Known, TypeOK
    <3>2. Good(x, Idle)
      BY <1>a, <1>b, <3>1 DEF Good, Wants
    <3> QED BY <2>1, <3>2 DEF Goes, Await
  <2>2. CASE Step(x, "mark") /\ reqs # <<>>
    <3> DEFINE r == [p[x] EXCEPT !.pc = "mark"]
    <3>1. Goto(x, r) /\ r.pc = "mark" /\ reqs' # <<>>
      BY <1>2, <1>a, <2>2 DEF Step, Ask, Activity
    <3> HIDE DEF r
    <3>2. Good(x, r)
      BY <1>a, <3>1 DEF Good, Wants
    <3> QED BY <3>1, <3>2 DEF Goes
  <2>3. CASE Step(x, "askreq")
    <3> DEFINE r == [p[x] EXCEPT !.pc = "askreq"]
    <3>1. Goto(x, r) /\ r.pc = "askreq" /\ r.job = p[x].job
      BY <1>a, <2>3 DEF Step, Activity
    <3>2. Asks(p[x].job)
      BY <1>2, <1>a DEF Ask, At, Known, Asked
    <3> HIDE DEF r
    <3>3. Good(x, r)
      BY <1>a, <3>1, <3>2 DEF Good, Wants
    <3> QED BY <3>1, <3>3 DEF Goes
  <2> QED BY <1>2, <2>1, <2>2, <2>3 DEF Ask
<1>3. CASE AskRequest(x)
  <2>1. reqs' # <<>> /\ Goto(x, Idle)
    BY <1>3 DEF AskRequest, RequestRound, Await, Known, TypeOK
  <2>2. Good(x, Idle)
    BY <1>a, <1>b, <2>1 DEF Good, Wants
  <2> QED BY <2>1, <2>2 DEF Goes
<1> QED BY <1>1, <1>2, <1>3

LEMMA ParentGoes ==
    ASSUME Known, NEW x \in Actors, Dispatch(x) \/ Spawn(x)
    PROVE  Goes(x)
<1>a. p[x].pc \in {"dispatch", "spawn"} /\ p[x] \in Activity
  BY DEF Dispatch, Spawn, At, Known, TypeOK
<1>b. p[x].pc \notin Wants \cup {"adv", "ask", "askreq"}
  BY <1>a DEF Wants
<1>1. CASE Dispatch(x)
  <2> DEFINE dd == [p[x] EXCEPT !.ret = "mark"]
             w == Request("corrective", plan.refused, NoView)
             cc == [dd EXCEPT !.pc = IF plan.refused = "loop" THEN "correct" ELSE "cont", !.want = w]
  <2>1. dd \in Activity /\ w.kind = "corrective"
    BY <1>a, FinalizeKind DEF Activity
  <2>2. \/ \E why : Goto(x, Finalizing(dd, why))
        \/ Goto(x, [dd EXCEPT !.pc = "spawn"]) \/ Goto(x, [dd EXCEPT !.pc = "mark"])
        \/ Goto(x, cc)
    BY <1>1 DEF Dispatch
  <2>3. /\ [dd EXCEPT !.pc = "spawn"].pc = "spawn" /\ [dd EXCEPT !.pc = "mark"].pc = "mark"
        /\ cc.pc \in {"correct", "cont"} /\ cc.want.kind # "none"
    <3> HIDE DEF w, dd
    <3> QED BY <2>1 DEF Activity, cc
  <2> HIDE DEF dd, cc
  <2>4. Good(x, [dd EXCEPT !.pc = "spawn"]) /\ Good(x, [dd EXCEPT !.pc = "mark"]) /\ Good(x, cc)
    BY <1>b, <2>3, GoodAt DEF Wants
  <2> QED BY <1>b, <2>2, <2>4, GoodFinalizing DEF Goes
<1>2. CASE Spawn(x)
  <2>1. \/ Step(x, "mark") \/ p' = p \/ (plan.alloc /\ Goto(x, BlockingOrFinalizing(p[x], "alloc")))
    BY <1>2 DEF Spawn
  <2>2. CASE Step(x, "mark")
    <3> DEFINE r == [p[x] EXCEPT !.pc = "mark"]
    <3>1. Goto(x, r) /\ r.pc = "mark"
      BY <1>a, <2>2 DEF Step, Activity
    <3> HIDE DEF r
    <3> QED BY <1>b, <3>1, GoodAt DEF Goes
  <2>3. CASE p' = p
    <3>1. Goto(x, p[x]) /\ p[x].pc = "spawn"
      BY <1>2, <2>3 DEF Goto, Known, TypeOK, Spawn, At
    <3> QED BY <1>b, <3>1, GoodAt DEF Goes
  <2>4. CASE plan.alloc /\ Goto(x, BlockingOrFinalizing(p[x], "alloc"))
    <3>1. NoHuman(plan)
      BY <2>4, HumanPlans
    <3> QED BY <1>b, <2>4, <3>1, GoodBlocking
  <2> QED BY <2>1, <2>2, <2>3, <2>4
<1> QED BY <1>1, <1>2

LEMMA PassGoes ==
    ASSUME Known, NEW x \in Actors,
           Events(x) \/ Retry(x) \/ Pause(x) \/ PauseRequest(x) \/ Deps(x) \/ Reread(x)
    PROVE  Goes(x)
<1>a. /\ p[x].pc \in {"events", "retry", "pause", "pausereq", "deps", "reread"}
      /\ p[x] \in Activity /\ x \in Workers /\ x \notin Humans
  <2>1. p[x].pc \in {"events", "retry", "pause", "pausereq", "deps", "reread"}
    BY DEF Events, Retry, Pause, PauseRequest, RequestRound, Deps, Reread, At
  <2> QED BY <2>1, ActorKinds DEF At, HumanPCs, Known
<1>b. p[x].pc \notin Wants \cup {"adv", "ask", "askreq"}
  BY <1>a DEF Wants
<1>c. Idle.pc = "idle" /\ Good(x, Idle)
  <2>1. Idle.pc = "idle"
    BY DEF Idle
  <2> QED BY <1>b, <2>1, GoodAt
<1> DEFINE me == p[x]
<1>1. CASE Events(x)
  <2> DEFINE e == Escalates(me.kids)
  <2>1. \/ Goto(x, [me EXCEPT !.pc = "retry"])
        \/ Goto(x, DepsOrGate([me EXCEPT !.esc = e, !.tried = {}]))
        \/ \E l \in Legs : plan.policy[l] = "escalate_human" /\ Goto(x, [Quit(me, "pause") EXCEPT !.leg = l])
        \/ /\ \E l \in Legs : plan.policy[l] = "block_parent"
           /\ Goto(x, BlockingOrFinalizing(me, "block_parent"))
    BY <1>1 DEF Events, First, Stopping
  <2>2. e \in BOOLEAN
    BY DEF Escalates
  <2> HIDE DEF e
  <2>3. CASE Goto(x, [me EXCEPT !.pc = "retry"])
    <3>1. [me EXCEPT !.pc = "retry"].pc = "retry"
      BY <1>a DEF Activity
    <3> QED BY <1>b, <2>3, <3>1, GoodAt DEF Goes
  <2>4. CASE Goto(x, DepsOrGate([me EXCEPT !.esc = e, !.tried = {}]))
    <3> DEFINE me2 == [me EXCEPT !.esc = e, !.tried = {}]
    <3>1. me2 \in Activity
      BY <1>a, <2>2 DEF Activity
    <3>2. Goto(x, DepsOrGate(me2))
      BY <2>4
    <3> HIDE DEF me2
    <3> QED BY <1>a, <1>b, <3>1, <3>2, GoodDeps
  <2>5. ASSUME NEW l \in Legs, plan.policy[l] = "escalate_human",
               Goto(x, [Quit(me, "pause") EXCEPT !.leg = l])
        PROVE  Goes(x)
    <3> DEFINE r == [Quit(me, "pause") EXCEPT !.leg = l]
    <3>1. Goto(x, r) /\ r.pc = "pause"
      BY <2>5 DEF Quit, Idle
    <3>2. ~NoHuman(plan)
      BY <2>5 DEF NoHuman
    <3> HIDE DEF r
    <3>3. Good(x, r)
      BY <1>a, <1>b, <3>1, <3>2 DEF Good, Wants
    <3> QED BY <3>1, <3>3 DEF Goes
  <2>6. CASE /\ \E l \in Legs : plan.policy[l] = "block_parent"
             /\ Goto(x, BlockingOrFinalizing(me, "block_parent"))
    <3>1. NoHuman(plan)
      BY <2>6, HumanPlans
    <3> HIDE DEF me
    <3> QED BY <1>b, <2>6, <3>1, GoodBlocking
  <2> QED BY <2>1, <2>3, <2>4, <2>5, <2>6
<1>2. CASE Retry(x)
  <2>1. \/ \E l : Goto(x, [me EXCEPT !.tried = @ \cup {l}])
        \/ plan.alloc /\ Goto(x, Quit(me, "block"))
        \/ Goto(x, [me EXCEPT !.pc = "events", !.kids = View])
    BY <1>2 DEF Retry, Blocking
  <2>2. ASSUME NEW l, Goto(x, [me EXCEPT !.tried = @ \cup {l}]) PROVE Goes(x)
    <3> DEFINE r == [me EXCEPT !.tried = @ \cup {l}]
    <3>1. Goto(x, r) /\ r.pc = "retry"
      BY <1>2, <1>a, <2>2 DEF Retry, At, Activity
    <3> HIDE DEF r
    <3> QED BY <1>b, <3>1, GoodAt DEF Goes
  <2>3. CASE plan.alloc /\ Goto(x, Quit(me, "block"))
    <3>1. NoHuman(plan)
      BY <2>3, HumanPlans
    <3>2. Good(x, Quit(me, "block"))
      BY <1>b, <3>1, QuitIs, GoodAt
    <3> QED BY <2>3, <3>2 DEF Goes
  <2>4. CASE Goto(x, [me EXCEPT !.pc = "events", !.kids = View])
    <3>1. [me EXCEPT !.pc = "events", !.kids = View].pc = "events"
      BY <1>a DEF Activity
    <3> QED BY <1>b, <2>4, <3>1, GoodAt DEF Goes
  <2> QED BY <2>1, <2>2, <2>3, <2>4
<1>3. CASE Pause(x)
  <2>1. (Goto(x, Idle) \/ Step(x, "pausereq")) /\ ~NoHuman(plan)
    BY <1>3, <1>a DEF Pause, Await, At, Known, Asked
  <2>2. CASE Step(x, "pausereq")
    <3> DEFINE r == [me EXCEPT !.pc = "pausereq"]
    <3>1. Goto(x, r) /\ r.pc = "pausereq"
      BY <1>a, <2>2 DEF Step, Activity
    <3> HIDE DEF r
    <3>2. Good(x, r)
      BY <1>a, <1>b, <2>1, <3>1 DEF Good, Wants
    <3> QED BY <3>1, <3>2 DEF Goes
  <2> QED BY <1>c, <2>1, <2>2 DEF Goes
<1>4. CASE PauseRequest(x)
  BY <1>4, <1>c DEF PauseRequest, RequestRound, Await, Goes
<1>5. CASE Deps(x)
  <2>1. \/ \E l : Goto(x, [me EXCEPT !.pc = "reread", !.tried = @ \cup {l}])
        \/ plan.alloc /\ Goto(x, BlockingOrFinalizing(me, "alloc"))
    BY <1>5 DEF Deps
  <2>2. ASSUME NEW l, Goto(x, [me EXCEPT !.pc = "reread", !.tried = @ \cup {l}]) PROVE Goes(x)
    <3> DEFINE r == [me EXCEPT !.pc = "reread", !.tried = @ \cup {l}]
    <3>1. Goto(x, r) /\ r.pc = "reread"
      BY <1>a, <2>2 DEF Activity
    <3> HIDE DEF r
    <3> QED BY <1>b, <3>1, GoodAt DEF Goes
  <2>3. CASE plan.alloc /\ Goto(x, BlockingOrFinalizing(me, "alloc"))
    <3>1. NoHuman(plan)
      BY <2>3, HumanPlans
    <3> HIDE DEF me
    <3> QED BY <1>b, <2>3, <3>1, GoodBlocking
  <2> QED BY <2>1, <2>2, <2>3
<1>6. CASE Reread(x)
  <2> DEFINE me2 == [me EXCEPT !.kids = View]
  <2>1. me2 \in Activity
    BY <1>a, ViewType DEF Activity, Known
  <2>2. Goto(x, DepsOrGate(me2))
    BY <1>6 DEF Reread
  <2> HIDE DEF me2
  <2> QED BY <1>a, <1>b, <2>1, <2>2, GoodDeps
<1> QED BY <1>1, <1>2, <1>3, <1>4, <1>5, <1>6

LEMMA EndGoes ==
    ASSUME Known, NEW x \in Actors, AfterAdvance(x) \/ Block(x) \/ MarkDone(x) \/ MarkBlocked(x)
    PROVE  Goes(x)
<1>a. p[x].pc \in {"after", "block", "mark", "blocked"} /\ p[x] \in Activity
  BY DEF AfterAdvance, Block, MarkDone, MarkBlocked, At, Known, TypeOK
<1>b. p[x].pc \notin Wants \cup {"adv", "ask", "askreq"}
  BY <1>a DEF Wants
<1>c. Good(x, Idle)
  <2>1. Idle.pc = "idle"
    BY DEF Idle
  <2> QED BY <1>b, <2>1, GoodAt
<1>d. ASSUME NEW pc, Step(x, pc), pc = "mark" \/ (NoHuman(plan) /\ pc \in {"block", "blocked"})
      PROVE  Goes(x)
  <2> DEFINE r == [p[x] EXCEPT !.pc = pc]
  <2>1. Goto(x, r) /\ r.pc = pc
    BY <1>a, <1>d DEF Step, Activity
  <2> HIDE DEF r
  <2>2. Good(x, r)
    BY <1>b, <1>d, <2>1 DEF Good, Wants
  <2> QED BY <2>1, <2>2 DEF Goes
<1>1. CASE AfterAdvance(x)
  <2>1. \/ Step(x, "mark")
        \/ Step(x, "block") /\ plan.policy[p[x].job[1]] = "block_parent"
    BY <1>1 DEF AfterAdvance
  <2>2. p[x].job \in Children
    BY <1>1, <1>a, ActorKinds DEF AfterAdvance, At, Known, HumanPCs, ParentPCs
  <2>3. p[x].job[1] \in Legs
    BY <2>2 DEF Children
  <2>4. CASE Step(x, "block") /\ plan.policy[p[x].job[1]] = "block_parent"
    <3>1. NoHuman(plan)
      BY <2>3, <2>4, HumanPlans
    <3> QED BY <1>d, <2>4, <3>1
  <2>5. CASE Step(x, "mark")
    BY <1>d, <2>5
  <2> QED BY <2>1, <2>4, <2>5
<1>2. CASE Block(x)
  <2>1. Step(x, "blocked") /\ NoHuman(plan)
    BY <1>2 DEF Block, Known, Asked, At
  <2> QED BY <1>d, <2>1
<1>3. CASE MarkDone(x) \/ MarkBlocked(x)
  BY <1>3, <1>c DEF MarkDone, MarkBlocked, Goes
<1> QED BY <1>1, <1>2, <1>3

LEMMA GateGoes ==
    ASSUME Known, NEW x \in Actors, Gate(x) \/ AnswerGate(x)
    PROVE  Goes(x)
<1> DEFINE me == p[x]
<1>a. /\ me.pc \in {"gate", "answer"} /\ me \in Activity /\ ~At(x, "idle")
      /\ At(x, "gate") \/ At(x, "answer")
  BY DEF Gate, AnswerGate, At, Known, TypeOK
<1>b. me.pc \notin Wants \cup {"adv", "ask", "askreq"}
  BY <1>a DEF Wants
<1>c. \/ x \in Workers /\ x \notin Humans /\ me.ret = "after"
      \/ x \in Humans /\ x \notin Workers /\ me.ret = "rs_task"
  BY <1>a, ActorKinds DEF Known, ParentPCs
<1>d. x \in Humans /\ NoHuman(plan) => ~At(x, "gate")
  BY DEF Known, Asked, At
<1>e. evCont => Continued'
  <2>1. evCont => Continued
    BY DEF Known, Continues
  <2>2. cont' = cont
    BY DEF Gate, AnswerGate, store
  <2> QED BY <2>1, <2>2 DEF Continued
<1>f. ASSUME NEW r, Goto(x, r), r.pc = me.ret, evCont PROVE Goes(x)
  <2>1. Good(x, r)
    BY <1>b, <1>c, <1>e, <1>f DEF Good, Wants
  <2> QED BY <1>f, <2>1 DEF Goes
<1>g. ASSUME NEW r, Goto(x, r), r.pc = "cont", r.want.kind # "none" PROVE Goes(x)
  <2>1. Good(x, r)
    BY <1>b, <1>g, GoodAt DEF Wants
  <2> QED BY <1>g, <2>1 DEF Goes
<1>1. CASE Gate(x)
  <2>1. \/ evCont /\ Goto(x, Quit(me, me.ret))
        \/ GateFails(me.kids) /\ Goto(x, BlockingOrFinalizing(me, "synthesis"))
        \/ \E why : Goto(x, Finalizing(me, why))
        \/ \E kind \in {"corrective", "replan", "normal"} :
              Goto(x, [Quit(me, "cont") EXCEPT !.want = Request(kind, "none", me.kids)])
    BY <1>1 DEF Gate
  <2>2. CASE evCont /\ Goto(x, Quit(me, me.ret))
    BY <1>f, <2>2, QuitIs
  <2>3. CASE GateFails(me.kids) /\ Goto(x, BlockingOrFinalizing(me, "synthesis"))
    <3>1. NoHuman(plan)
      BY <2>3, HumanPlans
    <3> HIDE DEF me
    <3> QED BY <1>b, <2>3, <3>1, GoodBlocking DEF me
  <2>4. ASSUME NEW why, Goto(x, Finalizing(me, why)) PROVE Goes(x)
    BY <1>b, <2>4, GoodFinalizing
  <2>5. ASSUME NEW kind \in {"corrective", "replan", "normal"},
               Goto(x, [Quit(me, "cont") EXCEPT !.want = Request(kind, "none", me.kids)])
        PROVE  Goes(x)
    <3> DEFINE w == Request(kind, "none", me.kids)
               r == [Quit(me, "cont") EXCEPT !.want = w]
    <3>1. w.kind # "none"
      BY FinalizeKind
    <3> HIDE DEF w
    <3>2. r.pc = "cont" /\ r.want = w
      BY DEF Quit, Idle
    <3>3. Goto(x, r)
      BY <2>5 DEF w
    <3> HIDE DEF r
    <3> QED BY <1>g, <3>1, <3>2, <3>3
  <2> QED BY <2>1, <2>2, <2>3, <2>4, <2>5
<1>2. CASE AnswerGate(x)
  <2> DEFINE w == Request("answer", "none", NoView)
             r == IF evCont THEN [me EXCEPT !.pc = me.ret] ELSE [me EXCEPT !.pc = "cont", !.want = w]
  <2>1. w.kind # "none"
    BY FinalizeKind
  <2>2. Goto(x, r)
    BY <1>2 DEF AnswerGate
  <2> HIDE DEF w
  <2>3. IF evCont THEN r.pc = me.ret ELSE r.pc = "cont" /\ r.want = w
    BY <1>a DEF Activity
  <2> HIDE DEF r
  <2> QED BY <1>f, <1>g, <2>1, <2>2, <2>3
<1> QED BY <1>1, <1>2

LEMMA EnqueueGoes ==
    ASSUME Known, NEW x \in Actors, Continue(x) \/ Correct(x) \/ FinalizeEnqueue(x)
    PROVE  Goes(x) /\ Continued'
<1> DEFINE me == p[x]
<1>a. /\ me.pc \in {"cont", "correct", "finq"} /\ me \in Activity /\ ~At(x, "idle")
  BY DEF Continue, Correct, FinalizeEnqueue, EnqueueContinuation, At, Known, TypeOK
<1>b. me.want.kind # "none"
  BY <1>a DEF Known, Continues
<1>c. \/ cont' = me.want /\ \E pc \in {"contev", "mark", "finev"} : Goto(x, Quit(me, pc))
      \/ cont' = cont /\ cont # NoCont /\ Goto(x, Idle)
  BY DEF Continue, Correct, FinalizeEnqueue, EnqueueContinuation, Fail
<1>d. Continued'
  <2>1. cont # NoCont => cont.kind # "none"
    BY DEF Known, Continues, Continued
  <2> QED BY <1>b, <1>c, <2>1 DEF Continued
<1>e. Idle.pc = "idle"
  BY DEF Idle
<1>1. ASSUME NEW r, r.pc \in {"contev", "mark", "finev", "idle"} PROVE Good(x, r)
  BY <1>a, <1>1, <1>d DEF Good, Wants
<1>2. \A pc : Quit(me, pc).pc = pc
  BY QuitIs
<1> HIDE DEF me
<1>3. \E r : Goto(x, r) /\ r.pc \in {"contev", "mark", "finev", "idle"}
  BY <1>c, <1>e, <1>2
<1> QED BY <1>1, <1>3, <1>d DEF Goes

LEMMA EventGoes ==
    ASSUME Known, NEW x \in Actors, ContinueEvent(x) \/ FinalizeGuard(x) \/ FinalizeEvent(x)
    PROVE  Goes(x)
<1> DEFINE me == p[x]
<1>a. /\ me.pc \in {"contev", "finev", "fin", "finev2"} /\ me \in Activity /\ ~At(x, "idle")
  BY DEF ContinueEvent, FinalizeGuard, FinalizeEvent, At, Known, TypeOK
<1>b. \/ x \in Workers /\ x \notin Humans /\ me.ret \in {"after", "mark"}
      \/ x \in Humans /\ x \notin Workers /\ me.ret = "rs_task"
  <2>1. me.pc \notin {"adv", "ask", "askreq", "dispatch", "mark"}
    BY <1>a
  <2> QED BY <1>a, <2>1, ActorKinds DEF Known
<1>c. cont' = cont
  BY DEF ContinueEvent, FinalizeGuard, FinalizeEvent, store
<1>d. /\ me.pc \in {"contev", "finev", "finev2"} \/ evFin => Continued'
      /\ me.pc = "fin" => me.want.kind # "none"
  BY <1>c DEF Known, Continues, Continued, Wants
<1>1. \/ Step(x, me.ret) /\ (me.pc \in {"contev", "finev2"} \/ evFin)
      \/ Step(x, "finev2") /\ me.pc = "finev"
      \/ Step(x, "finq") /\ me.pc = "fin"
  BY DEF ContinueEvent, FinalizeGuard, FinalizeEvent, At
<1>2. ASSUME NEW pc, Step(x, pc),
             \/ pc = me.ret /\ Continued'
             \/ pc = "finev2" /\ Continued'
             \/ pc = "finq" /\ me.pc = "fin"
      PROVE  Goes(x)
  <2> DEFINE r == [me EXCEPT !.pc = pc]
  <2>1. Goto(x, r) /\ r.pc = pc /\ r.want = me.want /\ r.job = me.job
    BY <1>a, <1>2 DEF Step, Activity
  <2> HIDE DEF r
  <2>2. Good(x, r)
    BY <1>a, <1>b, <1>d, <1>2, <2>1 DEF Good, Wants
  <2> QED BY <2>1, <2>2 DEF Goes
<1> QED BY <1>1, <1>2, <1>d

LEMMA ResumeGoes ==
    ASSUME Known, NEW x \in Actors, ResumeRow(x) \/ ResumeTask(x) \/ ResumeDone(x)
    PROVE  Goes(x)
<1> DEFINE me == p[x]
<1>a. /\ me.pc \in {"rs_row", "rs_task", "rs_done"} /\ me \in Activity
  BY DEF ResumeRow, ResumeTask, ResumeDone, At, Known, TypeOK
<1>b. me.pc \notin Wants \cup {"adv", "ask", "askreq"}
  BY <1>a DEF Wants
<1>c. Good(x, Idle)
  <2>1. Idle.pc = "idle"
    BY DEF Idle
  <2> QED BY <1>b, <2>1, GoodAt
<1>d. x \in Humans /\ NoHuman(plan) => me.pc # "rs_row" /\ Continued
  BY <1>a DEF Known, Asked
<1>1. CASE ResumeRow(x)
  <2>1. \/ Goto(x, Quit(me, "rs_task"))
        \/ Goto(x, Idle)
        \/ plan.alloc /\ Goto(x, Quit(me, "block"))
    <3>1. \/ Goto(x, Quit(me, "rs_task"))
          \/ Fail(x)
          \/ plan.alloc /\ Goto(x, Blocking(me))
      BY <1>1 DEF ResumeRow
    <3> QED BY <3>1 DEF Fail, Blocking
  <2>2. ~(x \in Humans /\ NoHuman(plan))
    BY <1>1, <1>d DEF ResumeRow, At
  <2>3. Good(x, Quit(me, "rs_task"))
    BY <1>b, <2>2, QuitIs DEF Good, Wants
  <2>4. plan.alloc => Good(x, Quit(me, "block"))
    BY <1>b, <2>2, QuitIs, HumanPlans, GoodAt
  <2> QED BY <1>c, <2>1, <2>3, <2>4 DEF Goes
<1>2. CASE ResumeTask(x)
  <2> DEFINE r == [me EXCEPT !.pc = "rs_done"]
  <2>1. Goto(x, r) /\ r.pc = "rs_done" /\ cont' = cont
    BY <1>2, <1>a DEF ResumeTask, Step, Activity
  <2> HIDE DEF r
  <2>2. Good(x, r)
    BY <1>b, <1>d, <2>1 DEF Good, Wants, Continued
  <2> QED BY <2>1, <2>2 DEF Goes
<1>3. CASE ResumeDone(x)
  BY <1>3, <1>c DEF ResumeDone, Goes
<1> QED BY <1>1, <1>2, <1>3

LEMMA EngineGoes ==
    ASSUME Known, NEW x \in Actors, Engine(x)
    PROVE  Goes(x)
BY AdvanceGoes, ParentGoes, PassGoes, EndGoes, GateGoes, EnqueueGoes, EventGoes, ResumeGoes
   DEF Engine

LEMMA EngineStores ==
    ASSUME Known, NEW x \in Actors, Engine(x)
    PROVE  Stores(x)
<1>a. /\ ~At(x, "idle") /\ p[x] \in Activity
      /\ p[x].pc \in {"pause", "pausereq"} => x \in Workers /\ ~NoHuman(plan)
      /\ p[x].pc \in {"rs_task", "rs_done"} => x \in Humans /\ (NoHuman(plan) => Continued)
      /\ p[x].pc \in {"contev", "finev", "finev2"} => Continued
      /\ p[x].pc = "block" => NoHuman(plan)
      /\ p[x].pc = "dispatch" => x \in Workers /\ p[x].job = P
  <2>1. ~At(x, "idle")
    BY EngineFollows DEF Known
  <2>2. /\ p[x].pc \in {"pause", "pausereq", "dispatch"} => x \in Workers
        /\ p[x].pc \in {"rs_task", "rs_done"} => x \in Humans
        /\ p[x].pc = "dispatch" => p[x].job = P
        /\ p[x] \in Activity
    BY <2>1, ActorKinds DEF Known, HumanPCs, ChildPCs, ParentPCs
  <2> QED BY <2>1, <2>2 DEF Known, Asked, Continues
<1> DEFINE Keeps == /\ cont' = cont /\ evCont' = evCont /\ evFin' = evFin
                    /\ reqs' = reqs /\ resolved' = resolved
           Calm == task' = "blocked" => task = "blocked" \/ NoHuman(plan)
<1>1. ASSUME Keeps, evRefused' = evRefused, Calm PROVE Stores(x)
  BY <1>1 DEF Stores
<1>t. \A s : SetTask(s) => task' = task \/ task' = s
  BY DEF SetTask
<1>2. CASE \/ AdvanceJob(x) \/ Ask(x) \/ AfterAdvance(x) \/ Spawn(x) \/ Events(x) \/ Retry(x)
           \/ Pause(x) \/ Deps(x) \/ Reread(x) \/ Gate(x) \/ AnswerGate(x) \/ FinalizeGuard(x)
           \/ ResumeRow(x) \/ ResumeTask(x) \/ Block(x) \/ MarkDone(x) \/ MarkBlocked(x)
  <2>1. Keeps /\ evRefused' = evRefused
    BY <1>2 DEF AdvanceJob, Ask, AfterAdvance, Spawn, Events, Retry, Pause, Deps, Reread, Gate,
                AnswerGate, FinalizeGuard, ResumeRow, ResumeTask, Block, MarkDone, MarkBlocked, store
  <2>2. Calm
    <3>1. CASE Block(x)
      BY <3>1, <1>a DEF Block, At
    <3>2. CASE Ask(x) \/ Pause(x) \/ ResumeTask(x)
      BY <3>2, <1>t DEF Ask, Pause, ResumeTask
    <3>3. CASE ~Block(x) /\ ~Ask(x) /\ ~Pause(x) /\ ~ResumeTask(x)
      BY <1>2, <3>3 DEF AdvanceJob, AfterAdvance, Spawn, Events, Retry, Deps, Reread, Gate,
                AnswerGate, FinalizeGuard, ResumeRow, MarkDone, MarkBlocked, store
    <3> QED BY <3>1, <3>2, <3>3
  <2> QED BY <1>1, <2>1, <2>2
<1>3. CASE AskRequest(x) \/ PauseRequest(x)
  <2>1. /\ cont' = cont /\ evCont' = evCont /\ evFin' = evFin /\ evRefused' = evRefused
        /\ resolved' = resolved /\ task' = task
    BY <1>3 DEF AskRequest, PauseRequest, RequestRound
  <2>2. \E rd : reqs' = Append(reqs, rd) /\ (NoHuman(plan) => rd.kind = "ask")
    <3>1. CASE AskRequest(x)
      <4> DEFINE rd == [kind |-> "ask", leg |-> 0]
      <4>1. reqs' = Append(reqs, rd) /\ rd.kind = "ask"
        BY <3>1 DEF AskRequest, RequestRound
      <4> HIDE DEF rd
      <4> QED BY <4>1
    <3>2. CASE PauseRequest(x)
      <4>1. ~NoHuman(plan) /\ \E rd : reqs' = Append(reqs, rd)
        BY <3>2, <1>a DEF PauseRequest, RequestRound, At
      <4> QED BY <4>1
    <3> QED BY <1>3, <3>1, <3>2
  <2> QED BY <2>1, <2>2 DEF Stores
<1>4. CASE Continue(x) \/ Correct(x) \/ FinalizeEnqueue(x)
  <2>1. Continued'
    BY <1>4, EnqueueGoes
  <2>2. UNCHANGED <<evCont, evFin, evRefused, reqs, resolved, task>>
    BY <1>4 DEF Continue, Correct, FinalizeEnqueue, EnqueueContinuation
  <2> QED BY <2>1, <2>2 DEF Stores
<1>5. CASE ContinueEvent(x) \/ FinalizeEvent(x) \/ ResumeDone(x)
  <2>1. UNCHANGED <<cont, evRefused, reqs, task>>
    BY <1>5 DEF ContinueEvent, FinalizeEvent, ResumeDone
  <2>2. /\ evCont' \/ evFin' => evCont \/ evFin \/ Continued
        /\ resolved' = resolved \/ (NoHuman(plan) => Continued)
    BY <1>5, <1>a DEF ContinueEvent, FinalizeEvent, ResumeDone, At
  <2> QED BY <2>1, <2>2 DEF Stores, Continued
<1>6. CASE Dispatch(x)
  <2>1. Keeps /\ task' = task
    BY <1>6 DEF Dispatch
  <2>2. p[x].pc = "dispatch" /\ x \in Workers /\ p[x].job = P
    BY <1>6, <1>a DEF Dispatch, At
  <2>3. CASE evRefused' = evRefused
    BY <1>1, <2>1, <2>3
  <2>4. CASE evRefused' # evRefused
    <3> DEFINE dd == [p[x] EXCEPT !.ret = "mark"]
               w == Request("corrective", plan.refused, NoView)
               cc == [dd EXCEPT !.pc = IF plan.refused = "loop" THEN "correct" ELSE "cont", !.want = w]
    <3>1. /\ Backstop = "no" /\ plan.refused # "no"
          /\ Goto(x, IF plan.nudged THEN Finalizing(dd, plan.refused) ELSE cc)
      BY <1>6, <2>4 DEF Dispatch
    <3>2. MaxCrashes = 0
      <4>1. plan.refused \notin {"depth", "width"}
        BY <3>1 DEF Backstop
      <4>2. ~(MaxCrashes > 0)
        BY <3>1, <4>1 DEF Known, Rests
      <4> QED BY <4>2, DelegationAssumption
    <3>3. dd.job = P /\ dd \in Activity
      BY <1>a, <2>2 DEF Activity
    <3>4. cc.job = P /\ cc.pc \in Wants
      <4> HIDE DEF dd, w
      <4> QED BY <3>3 DEF Activity, cc, Wants
    <3>5. Finalizing(dd, plan.refused).job = P /\ Finalizing(dd, plan.refused).pc \in Wants
      <4> HIDE DEF dd
      <4> QED BY <3>3, FinalizingIs DEF Wants
    <3> HIDE DEF dd, cc
    <3>6. \E r : Goto(x, r) /\ r.job = P /\ r.pc \in Wants
      BY <3>1, <3>4, <3>5
    <3> QED BY <2>1, <2>2, <3>2, <3>6 DEF Stores
  <2> QED BY <2>3, <2>4
<1> HIDE DEF Keeps, Calm
<1> QED BY <1>2, <1>3, <1>4, <1>5, <1>6 DEF Engine

LEMMA AsksStay ==
    ASSUME TypeOK, RowMoves, plan' = plan, NEW j \in Jobs
    PROVE  /\ Asks(j) => Asks(j)'
           /\ RowGrows => (Asks(j)' => Asks(j))
<1>1. j = P \/ j \in Children
  BY ActorSets
<1>2. j \in Children => j # P
  BY ActorSets
<1>3. j \in Children => /\ row[j] = "asking" => row'[j] = "asking"
                        /\ RowGrows => (row'[j] = "asking" => row[j] = "asking")
  BY DEF RowMoves, RowGrows
<1> QED BY <1>1, <1>2, <1>3 DEF Asks

LEMMA EngineContinues ==
    ASSUME Known, NEW x \in Actors, Engine(x), TypeOK'
    PROVE  Continues' /\ Asked'
<1>a. TypeOK /\ Know /\ Attended /\ Continues /\ Asked
  BY DEF Known
<1>b. PICK r : Goto(x, r) /\ Good(x, r)
  BY EngineGoes DEF Goes
<1>c. Stores(x)
  BY EngineStores
<1>d. p'[x] = r /\ \A y \in Actors : y # x => p'[y] = p[y]
  BY <1>a, <1>b DEF Goto, TypeOK
<1>e. /\ plan' = plan /\ RowMoves /\ RowGrows
  BY <1>a, EngineStore, GrowsMoves DEF StoreStep
<1>f. /\ ~At(x, "idle")
      /\ r.pc # "idle" => r.job = p[x].job
      /\ x \in Humans => x \notin Workers
      /\ \A z \in Workers \cup Humans : z \in Actors
  <2>1. ~At(x, "idle") /\ (p' = p \/ \E s : Follows(x, s) /\ Goto(x, s))
    BY <1>a, EngineFollows
  <2>2. p'[x] = p[x] \/ Follows(x, p'[x])
    BY <2>1, <1>a DEF Goto, TypeOK
  <2>3. Idle.pc = "idle"
    BY DEF Idle
  <2> QED BY <1>d, <2>1, <2>2, <2>3, ActorSets DEF Follows
<1>g. Continued => Continued'
  BY <1>c DEF Stores, Continued
<1>h. reqs \in Seq(Rounds)
  BY <1>a DEF TypeOK, Rounds
<1>1. cont' = NoCont \/ Continued'
  BY <1>a, <1>c, <1>g DEF Stores, Continues
<1>2. evCont' \/ evFin' => Continued'
  BY <1>a, <1>c, <1>g DEF Stores, Continues
<1>3. ASSUME NEW y \in Actors
      PROVE  /\ p'[y].pc \in {"cont", "correct", "fin", "finq"} => p'[y].want.kind # "none"
             /\ p'[y].pc \in {"contev", "finev", "finev2"} => Continued'
  <2>1. CASE y = x
    BY <1>b, <1>d, <2>1 DEF Good, Wants
  <2>2. CASE y # x
    BY <1>a, <1>d, <1>g, <2>2 DEF Continues
  <2> QED BY <2>1, <2>2
<1>4. ASSUME evRefused'
      PROVE  /\ MaxCrashes = 0
             /\ \/ Continued'
                \/ \E y \in Workers : /\ p'[y].job = P
                                      /\ p'[y].pc \in {"cont", "correct", "fin", "finq"}
  <2>1. CASE evRefused
    <3>1. MaxCrashes = 0
      BY <1>a, <2>1 DEF Continues
    <3>2. CASE Continued
      BY <1>g, <3>1, <3>2
    <3>3. ASSUME NEW y \in Workers, p[y].job = P, p[y].pc \in {"cont", "correct", "fin", "finq"}
          PROVE  Continued' \/ (p'[y].job = P /\ p'[y].pc \in {"cont", "correct", "fin", "finq"})
      <4>1. CASE y = x
        BY <1>b, <1>d, <3>3, <4>1 DEF Good, Wants
      <4>2. CASE y # x
        BY <1>d, <1>f, <3>3, <4>2
      <4> QED BY <4>1, <4>2
    <3> QED BY <1>a, <2>1, <3>1, <3>2, <3>3 DEF Continues
  <2>2. CASE ~evRefused
    <3>1. /\ MaxCrashes = 0 /\ x \in Workers
          /\ \E s : Goto(x, s) /\ s.job = P /\ s.pc \in Wants
      BY <1>4, <1>c, <2>2 DEF Stores
    <3>2. p'[x].job = P /\ p'[x].pc \in Wants
      BY <3>1, <1>a DEF Goto, TypeOK
    <3> QED BY <3>1, <3>2 DEF Wants
  <2> QED BY <2>1, <2>2
<1>5. Continues'
  BY <1>1, <1>2, <1>3, <1>4 DEF Continues, Continued
<1>6. \A c \in Children : row'[c] = "asking" => plan'.asks # {}
  BY <1>a, <1>e DEF Asked, RowGrows
<1>7. ASSUME NEW y \in Workers, p'[y].pc \in {"ask", "askreq"} PROVE Asks(p[y].job)'
  <2>1. Asks(p'[y].job)
    BY <1>7, <1>a, <1>b, <1>d, <1>f DEF Good, Asked
  <2>2. p'[y].job \in Jobs
    BY <1>f DEF TypeOK, Activity
  <2>3. PICK j \in Jobs : j = p'[y].job
    BY <2>2
  <2>4. Asks(j)'
    BY <2>1, <2>3, <1>a, <1>e, AsksStay
  <2> QED BY <2>3, <2>4 DEF Asks
<1>8. \A y \in Workers : p'[y].pc \in {"pause", "pausereq"} => ~NoHuman(plan')
  BY <1>a, <1>b, <1>d, <1>e, <1>f DEF Good, Asked
<1>9. ASSUME reqs' = <<>>, NEW j \in Jobs, Asks(j)'
      PROVE  Pending(j)' /\ \A y \in Workers : Of(y, j)' => p'[y].pc \in {"adv", "ask", "askreq"}
  <2>1. reqs = <<>>
    BY <1>9, <1>c, <1>h DEF Stores
  <2>2. Asks(j)
    BY <1>9, <1>a, <1>e, AsksStay
  <2>3. Pending(j) /\ \A y \in Workers : Of(y, j) => p[y].pc \in {"adv", "ask", "askreq"}
    BY <1>a, <2>1, <2>2 DEF Asked
  <2>4. ASSUME x \in Workers, p[x].job = j PROVE r.pc \in {"ask", "askreq"}
    <3>1. p[x].pc \in {"adv", "ask", "askreq"}
      BY <1>f, <2>3, <2>4 DEF Of
    <3> QED BY <1>9, <1>b, <2>2, <2>4, <3>1 DEF Good
  <2>5. Pending(j)'
    <3>1. CASE mark' = mark
      BY <2>3, <3>1 DEF Pending
    <3>2. ASSUME NEW m, x \in Workers, Goto(x, Idle), mark' = [mark EXCEPT ![p[x].job] = m]
          PROVE  Pending(j)'
      <4>1. p'[x] = Idle /\ Idle.pc = "idle"
        BY <3>2, <1>a DEF Goto, TypeOK, Idle
      <4>2. p[x].job # j
        BY <4>1, <1>d, <2>4, <3>2
      <4>3. mark'[j] = mark[j]
        BY <4>2, <3>2, <1>a DEF TypeOK
      <4> QED BY <2>3, <4>3 DEF Pending
    <3> QED BY <1>a, <3>1, <3>2, EngineMarks
  <2>6. ASSUME NEW y \in Workers, p'[y].pc # "idle", p'[y].job = j
        PROVE  p'[y].pc \in {"adv", "ask", "askreq"}
    <3>1. CASE y = x
      BY <1>d, <1>f, <2>4, <2>6, <3>1
    <3>2. CASE y # x
      BY <1>d, <1>f, <2>3, <2>6, <3>2 DEF Of, At
    <3> QED BY <3>1, <3>2
  <2> QED BY <2>5, <2>6 DEF Of, At
<1>10. ASSUME NoHuman(plan')
       PROVE  /\ \A i \in 1..Len(reqs') : reqs'[i].kind = "ask"
              /\ resolved' > 0 => Continued'
              /\ \A y \in Humans : /\ p'[y].pc \notin {"rs_row", "gate"}
                                   /\ p'[y].pc \in {"rs_task", "rs_done"} => Continued'
  <2>1. NoHuman(plan)
    BY <1>10, <1>e
  <2>2. \A i \in 1..Len(reqs') : reqs'[i].kind = "ask"
    <3>1. \A i \in 1..Len(reqs) : reqs[i].kind = "ask"
      BY <1>a, <2>1 DEF Asked
    <3>2. ASSUME NEW rd, reqs' = Append(reqs, rd), rd.kind = "ask"
          PROVE  \A i \in 1..Len(reqs') : reqs'[i].kind = "ask"
      BY <3>1, <3>2, <1>h
    <3> QED BY <3>1, <3>2, <2>1, <1>c DEF Stores
  <2>3. resolved' > 0 => Continued'
    BY <1>a, <1>c, <1>g, <2>1 DEF Stores, Asked
  <2>4. ASSUME NEW y \in Humans
        PROVE  /\ p'[y].pc \notin {"rs_row", "gate"}
               /\ p'[y].pc \in {"rs_task", "rs_done"} => Continued'
    <3>1. CASE y = x
      BY <1>b, <1>d, <2>1, <3>1 DEF Good
    <3>2. CASE y # x
      BY <1>a, <1>d, <1>f, <1>g, <2>1, <3>2 DEF Asked
    <3> QED BY <3>1, <3>2
  <2> QED BY <2>2, <2>3, <2>4
<1>11. ~NoHuman(plan') => /\ task' # "blocked"
                          /\ \A y \in Actors : p'[y].pc \notin {"block", "blocked"}
  BY <1>a, <1>b, <1>c, <1>d, <1>e DEF Stores, Asked, Good
<1>12. Asked'
  BY <1>6, <1>7, <1>8, <1>9, <1>10, <1>11 DEF Asked, Continued
<1> QED BY <1>5, <1>12

LEMMA RunContinues ==
    ASSUME Known, NEW c \in Children, Run(c) \/ Attach(c), TypeOK'
    PROVE  Continues' /\ Asked'
<1>a. /\ TypeOK /\ Know /\ Attended /\ Continues /\ Asked
      /\ c \in Actors /\ c \in Jobs /\ c \in Workers /\ c \notin Humans /\ c # P
      /\ \A z \in Workers \cup Humans : z \in Actors
  BY ActorSets DEF Known
<1>b. /\ plan' = plan /\ RowMoves
      /\ \E st \in States : row' = [row EXCEPT ![c] = st]
      /\ \A y \in Actors : y # c => p'[y] = p[y]
      /\ p'[c].job = c /\ p'[c].pc \in {"adv", "attach"}
      /\ (Deliver(c) /\ p'[c].pc = "adv") \/ Failed(row'[c])
      /\ mark' = mark \/ mark' = [mark EXCEPT ![c] = "started"]
      /\ Deliver(c) => mark' = [mark EXCEPT ![c] = "started"]
      /\ \A y \in Workers : y # c /\ ~At(y, "idle") => p[y].job # c
      /\ UNCHANGED <<cont, evCont, evFin, evRefused, reqs, resolved, task>>
  BY <1>a, RunIs
<1>c. row[c] = "active" \/ row[c] = "dead"
  BY <1>a, RunIs
<1>d. At(c, "idle") \/ At(c, "attach")
  BY <1>a, RunIs
<1>1. Continues'
  <2>1. \A y \in Actors : p'[y] = p[y] \/ p'[y].pc \in {"adv", "attach"}
    BY <1>b
  <2>2. \A y \in Workers : p[y].pc \in {"cont", "correct", "fin", "finq"} => p'[y] = p[y]
    BY <1>a, <1>b, <1>d DEF At
  <2> QED BY <1>a, <1>b, <2>1, <2>2 DEF Continues, Continued
<1>2. \A d \in Children : row'[d] = "asking" => plan'.asks # {}
  <2>1. row'[c] = "asking" => plan.asks # {}
    <3>1. ASSUME Deliver(c), row'[c] = "asking" PROVE plan.asks # {}
      <4>1. row'[c] \in Decisions(c[1])
        BY <3>1, <1>a DEF Deliver, TypeOK
      <4> QED BY <3>1, <4>1 DEF Decisions
    <3> QED BY <3>1, <1>b DEF Failed
  <2> QED BY <2>1, <1>a, <1>b DEF Asked, TypeOK
<1>3. ASSUME NEW j \in Jobs, j # c PROVE Asks(j)' <=> Asks(j)
  <2>1. j \in Children => row'[j] = row[j]
    BY <1>a, <1>b, <1>3 DEF TypeOK
  <2> QED BY <2>1, <1>b, ActorSets DEF Asks
<1>4. ASSUME NEW y \in Workers, p'[y].pc \in {"ask", "askreq"} PROVE Asks(p[y].job)'
  <2>1. p'[y] = p[y] /\ y # c
    BY <1>4, <1>a, <1>b
  <2>2. Asks(p[y].job) /\ p[y].job \in Jobs
    BY <2>1, <1>4, <1>a DEF Asked, TypeOK, Activity
  <2> QED BY <2>1, <2>2, <1>a, <1>b, AsksStay DEF Asks
<1>5. \A y \in Workers : p'[y].pc \in {"pause", "pausereq"} => ~NoHuman(plan')
  BY <1>a, <1>b DEF Asked
<1>6. ASSUME reqs' = <<>>, NEW j \in Jobs, Asks(j)'
      PROVE  Pending(j)' /\ \A y \in Workers : Of(y, j)' => p'[y].pc \in {"adv", "ask", "askreq"}
  <2>1. CASE j = c
    <3>1. Deliver(c) /\ p'[c].pc = "adv"
      BY <1>6, <1>a, <1>b, <2>1 DEF Asks, Failed
    <3>2. Pending(c)'
      BY <3>1, <1>a, <1>b DEF Pending, TypeOK
    <3>3. \A y \in Workers : p'[y].pc # "idle" /\ p'[y].job = c => y = c
      BY <1>a, <1>b DEF At
    <3> QED BY <2>1, <3>1, <3>2, <3>3 DEF Of, At
  <2>2. CASE j # c
    <3>1. Asks(j) /\ reqs = <<>>
      BY <1>3, <1>6, <1>b, <2>2
    <3>2. Pending(j) /\ \A y \in Workers : Of(y, j) => p[y].pc \in {"adv", "ask", "askreq"}
      BY <1>a, <3>1 DEF Asked
    <3>3. mark'[j] = mark[j]
      BY <1>a, <1>b, <2>2 DEF TypeOK
    <3>4. \A y \in Workers : p'[y].job = j => p'[y] = p[y]
      BY <1>a, <1>b, <2>2
    <3> QED BY <3>2, <3>3, <3>4 DEF Of, At, Pending
  <2> QED BY <2>1, <2>2
<1>7. ASSUME NoHuman(plan')
      PROVE  /\ \A i \in 1..Len(reqs') : reqs'[i].kind = "ask"
             /\ resolved' > 0 => Continued'
             /\ \A y \in Humans : /\ p'[y].pc \notin {"rs_row", "gate"}
                                  /\ p'[y].pc \in {"rs_task", "rs_done"} => Continued'
  BY <1>7, <1>a, <1>b DEF Asked, Continued
<1>8. ~NoHuman(plan') => /\ task' # "blocked"
                         /\ \A y \in Actors : p'[y].pc \notin {"block", "blocked"}
  BY <1>a, <1>b DEF Asked
<1>9. Asked'
  BY <1>2, <1>4, <1>5, <1>6, <1>7, <1>8 DEF Asked, Continued
<1> QED BY <1>1, <1>9

\* A step that only moves actors which were idle, or takes them back to it
LEMMA TakenUpContinues ==
    ASSUME Known, UNCHANGED <<plan, store, mark>>,
           \A y \in Actors :
               \/ p'[y] = p[y]
               \/ /\ y \in Workers => p[y].pc = "idle" \/ MaxCrashes > 0
                  /\ \/ p'[y].pc = "idle"
                     \/ y \in Workers /\ p'[y].pc = "adv"
                     \/ /\ y \in Humans /\ p'[y].pc \in {"rs_row", "gate", "answer", "fin"}
                        /\ p'[y].pc = "fin" => p'[y].want.kind # "none"
                        /\ NoHuman(plan) => p'[y].pc \notin {"rs_row", "gate"}
    PROVE  Continues' /\ Asked'
<1>a. /\ TypeOK /\ Know /\ Attended /\ Continues /\ Asked
      /\ plan' = plan /\ row' = row /\ mark' = mark /\ cont' = cont /\ evCont' = evCont
      /\ evFin' = evFin /\ evRefused' = evRefused /\ reqs' = reqs /\ resolved' = resolved /\ task' = task
  BY DEF Known, store
<1>b. \A y \in Workers : y \notin Humans /\ y \in Actors
  BY ActorSets
<1>c. \A y \in Humans : y \notin Workers /\ y \in Actors
  BY ActorSets
<1>d. \A y \in Workers : \/ p'[y] = p[y]
                         \/ /\ p[y].pc = "idle" \/ MaxCrashes > 0
                            /\ p'[y].pc \in {"idle", "adv"}
  BY <1>b
<1>e. \A y \in Humans : \/ p'[y] = p[y]
                        \/ /\ p'[y].pc \in {"idle", "rs_row", "gate", "answer", "fin"}
                           /\ NoHuman(plan) => p'[y].pc \notin {"rs_row", "gate"}
  BY <1>c
<1>f. \A y \in Actors : \/ p'[y] = p[y]
                        \/ /\ p'[y].pc \in {"idle", "adv", "rs_row", "gate", "answer", "fin"}
                           /\ p'[y].pc = "fin" => p'[y].want.kind # "none"
  OBVIOUS
<1>g. \A j \in Jobs : Asks(j)' <=> Asks(j)
  BY <1>a DEF Asks
<1>1. Continues'
  <2>1. evRefused' =>
          /\ MaxCrashes = 0
          /\ \/ Continued'
             \/ \E y \in Workers : p'[y].job = P /\ p'[y].pc \in {"cont", "correct", "fin", "finq"}
    <3>1. SUFFICES ASSUME evRefused, ~Continued
                   PROVE  /\ MaxCrashes = 0
                          /\ \E y \in Workers : p'[y].job = P /\ p'[y].pc \in {"cont", "correct", "fin", "finq"}
      BY <1>a DEF Continued, Continues
    <3>2. PICK y \in Workers : p[y].job = P /\ p[y].pc \in {"cont", "correct", "fin", "finq"}
      BY <1>a, <3>1 DEF Continues
    <3>3. MaxCrashes = 0
      BY <1>a, <3>1 DEF Continues
    <3>4. p'[y] = p[y]
      BY <1>d, <3>2, <3>3
    <3> QED BY <3>2, <3>3, <3>4
  <2>2. \A y \in Actors : /\ p'[y].pc \in {"cont", "correct", "fin", "finq"} => p'[y].want.kind # "none"
                          /\ p'[y].pc \in {"contev", "finev", "finev2"} => Continued'
    BY <1>a, <1>f DEF Continues, Continued
  <2> QED BY <1>a, <2>1, <2>2 DEF Continues, Continued
<1>2. ASSUME NEW y \in Workers, p'[y].pc \in {"ask", "askreq"} PROVE Asks(p[y].job)'
  <2>1. p'[y] = p[y]
    BY <1>2, <1>d
  <2>2. Asks(p[y].job)
    BY <1>2, <2>1, <1>a DEF Asked
  <2> QED BY <2>1, <2>2, <1>a DEF Asks
<1>3. \A y \in Workers : p'[y].pc \in {"pause", "pausereq"} => ~NoHuman(plan')
  BY <1>a, <1>d DEF Asked
<1>4. ASSUME reqs' = <<>>, NEW j \in Jobs, Asks(j)'
      PROVE  Pending(j)' /\ \A y \in Workers : Of(y, j)' => p'[y].pc \in {"adv", "ask", "askreq"}
  <2>1. Pending(j) /\ \A y \in Workers : Of(y, j) => p[y].pc \in {"adv", "ask", "askreq"}
    BY <1>4, <1>a, <1>g DEF Asked
  <2>2. Pending(j)'
    BY <2>1, <1>a DEF Pending
  <2>3. \A y \in Workers : Of(y, j)' => p'[y].pc \in {"adv", "ask", "askreq"}
    BY <2>1, <1>d DEF Of, At
  <2> QED BY <2>2, <2>3
<1>5. ASSUME NoHuman(plan')
      PROVE  /\ \A i \in 1..Len(reqs') : reqs'[i].kind = "ask"
             /\ resolved' > 0 => Continued'
             /\ \A y \in Humans : /\ p'[y].pc \notin {"rs_row", "gate"}
                                  /\ p'[y].pc \in {"rs_task", "rs_done"} => Continued'
  BY <1>5, <1>a, <1>e DEF Asked, Continued
<1>6. ~NoHuman(plan') => /\ task' # "blocked"
                         /\ \A y \in Actors : p'[y].pc \notin {"block", "blocked"}
  BY <1>a, <1>f DEF Asked
<1>7. \A c \in Children : row'[c] = "asking" => plan'.asks # {}
  BY <1>a DEF Asked
<1>8. Asked'
  BY <1>2, <1>3, <1>4, <1>5, <1>6, <1>7 DEF Asked, Continued
<1> QED BY <1>1, <1>8

LEMMA ContinuesNext ==
    ASSUME Known, [Next]_vars, TypeOK'
    PROVE  Continues' /\ Asked'
<1>a. TypeOK /\ Know /\ p \in [Actors -> Activity] /\ Idle.pc = "idle"
  BY DEF Known, TypeOK, Idle
<1>1. ASSUME NEW x \in Actors, Engine(x) PROVE Continues' /\ Asked'
  BY <1>1, EngineContinues
<1>2. ASSUME NEW c \in Children, Run(c) \/ Attach(c) PROVE Continues' /\ Asked'
  BY <1>2, RunContinues
<1>3. ASSUME NEW j \in Jobs, TickRetry(j) PROVE Continues' /\ Asked'
  <2>1. /\ UNCHANGED <<plan, store, mark>> /\ At(Tick, "idle")
        /\ p' = [p EXCEPT ![Tick] = Advancing(j, FALSE)]
    BY <1>3 DEF TickRetry, still, Goto
  <2>2. Advancing(j, FALSE).pc = "adv" /\ Tick \in Actors /\ Tick \in Workers
    BY AdvancingIs, ActorSets
  <2> HIDE DEF Advancing
  <2>3. \A y \in Actors : \/ p'[y] = p[y]
                          \/ y = Tick /\ p'[y].pc = "adv"
    BY <1>a, <2>1, <2>2
  <2> QED BY <2>1, <2>2, <2>3, TakenUpContinues DEF At
<1>4. ASSUME NEW x \in Humans,
             \/ \E verb \in Verbs, t \in Texts : Human(x, verb, t)
             \/ x = Poller /\ Expire
      PROVE  Continues' /\ Asked'
  <2>1. UNCHANGED <<plan, store, mark>> /\ At(x, "idle") /\ Open
    BY <1>4, <1>a, HumanStarts
  <2>2. PICK r : /\ Goto(x, r)
                 /\ \/ r.pc = "rs_row" \/ r.pc = "gate" \/ r.pc = "answer"
                    \/ r.pc = "fin" /\ r.want \in {Finalize("abort"), Finalize("ttl")}
                 /\ r.pc \in {"rs_row", "gate"} => Round.kind # "ask"
    BY <1>4, <1>a, HumanStarts
  <2>3. r.pc = "fin" => r.want.kind # "none"
    BY <2>2, FinalizeKind
  <2>4. NoHuman(plan) => Round.kind = "ask"
    <3>1. Len(reqs) > resolved /\ resolved \in Nat /\ Len(reqs) \in Nat
      BY <1>a, <2>1 DEF Open, TypeOK
    <3>2. Len(reqs) \in 1..Len(reqs)
      BY <3>1
    <3> QED BY <3>2 DEF Round, Known, Asked
  <2>5. x \in Actors /\ x \notin Workers /\ p' = [p EXCEPT ![x] = r]
    BY <2>2, ActorSets DEF Goto
  <2>6. p'[x] = r /\ \A y \in Actors : y # x => p'[y] = p[y]
    BY <1>a, <2>5
  <2> HIDE DEF Round, Finalize
  <2> QED BY <2>1, <2>2, <2>3, <2>4, <2>5, <2>6, TakenUpContinues
<1>5. CASE Crash
  <2>1. /\ UNCHANGED <<plan, store, mark>>
        /\ p' = [x \in Actors |-> IF x = Chat THEN p[x] ELSE Idle]
    BY <1>5 DEF Crash
  <2>2. MaxCrashes > 0
    BY <1>a, <1>5, DelegationAssumption DEF Crash, TypeOK
  <2>3. \A y \in Actors : p'[y] = p[y] \/ p'[y].pc = "idle"
    BY <1>a, <2>1
  <2> QED BY <2>1, <2>2, <2>3, TakenUpContinues
<1>6. CASE Trip \/ UNCHANGED vars
  <2>1. UNCHANGED <<plan, store, mark>> /\ p' = p
    BY <1>6 DEF Trip, vars, store
  <2> QED BY <2>1, TakenUpContinues
<1> QED BY <1>1, <1>2, <1>3, <1>4, <1>5, <1>6 DEF Next, Humans

LEMMA ContinuesInit == Init => Continues /\ Asked
<1> SUFFICES ASSUME Init PROVE Continues /\ Asked
  OBVIOUS
<1>1. /\ p = [x \in Actors |-> IF x = P THEN Advancing(P, FALSE) ELSE Idle]
      /\ mark = [j \in Jobs |-> IF j = P THEN "started" ELSE "none"]
      /\ row = [c \in Children |-> "absent"]
      /\ cont = NoCont /\ ~evCont /\ ~evFin /\ ~evRefused /\ reqs = <<>> /\ resolved = 0
      /\ task = "planned"
  BY DEF Init
<1>2. Idle.pc = "idle" /\ Advancing(P, FALSE).pc = "adv"
  BY AdvancingIs DEF Idle
<1>3. \A y \in Actors : p[y].pc = "idle" \/ (y = P /\ p[y].pc = "adv")
  <2> HIDE DEF Idle, Advancing
  <2> QED BY <1>1, <1>2
<1>4. P \in Jobs /\ P \notin Children /\ P \notin Humans /\ mark[P] = "started"
  BY <1>1, ActorSets
<1>5. \A y \in Workers \cup Humans : y \in Actors
  BY ActorSets
<1>6. Continues
  BY <1>1, <1>3 DEF Continues
<1>7. \A j \in Jobs : Asks(j) => j = P
  BY <1>1, ActorSets DEF Asks
<1>8. \A j \in Jobs : Asks(j) =>
          Pending(j) /\ \A x \in Workers : Of(x, j) => p[x].pc \in {"adv", "ask", "askreq"}
  BY <1>3, <1>4, <1>5, <1>7 DEF Pending, Of, At
<1>9. \A y \in Workers : p[y].pc \in {"idle", "adv"}
  BY <1>3, <1>5
<1>10. \A y \in Humans : p[y].pc = "idle"
  BY <1>3, <1>4, <1>5
<1>11. \A y \in Actors : p[y].pc \in {"idle", "adv"}
  BY <1>3
<1>12. \A c \in Children : row[c] # "asking"
  BY <1>1
<1>13. 1..Len(reqs) = {} /\ ~(resolved > 0) /\ task # "blocked"
  BY <1>1
<1>14. Asked
  BY <1>8, <1>9, <1>10, <1>11, <1>12, <1>13 DEF Asked
<1> QED BY <1>6, <1>14
-----------------------------------------------------------------------------
(* Listings of the children                                                 *)

\* CurrentAttempt over any rows
CurrentIn(rw, l) ==
    LET there == {k \in Attempts : rw[<<l, k>>] # "absent"}
        retries == {k \in there : k > 0}
    IN IF retries # {} THEN Max(retries)
       ELSE IF Resume \in there THEN Resume ELSE 0

LEMMA ViewAt ==
    ASSUME NEW l \in Legs
    PROVE  /\ View[l].k = CurrentIn(row, l) /\ View[l].st = row[<<l, CurrentIn(row, l)>>]
           /\ View'[l].k = CurrentIn(row', l) /\ View'[l].st = row'[<<l, CurrentIn(row', l)>>]
<1>1. CurrentAttempt(l) = CurrentIn(row, l) /\ CurrentAttempt(l)' = CurrentIn(row', l)
  BY DEF CurrentAttempt, CurrentIn
<1>2. /\ View[l] = [k |-> CurrentAttempt(l), st |-> row[<<l, CurrentAttempt(l)>>]]
      /\ View'[l] = [k |-> CurrentAttempt(l)', st |-> row'[<<l, CurrentAttempt(l)'>>]]
  <2>1. View[l] = [k |-> CurrentAttempt(l), st |-> row[<<l, CurrentAttempt(l)>>]]
    <3> HIDE DEF CurrentAttempt
    <3> QED BY DEF View
  <2>2. View'[l] = [k |-> CurrentAttempt(l)', st |-> row'[<<l, CurrentAttempt(l)'>>]]
    BY DEF View
  <2> QED BY <2>1, <2>2
<1> HIDE DEF CurrentIn, View, CurrentAttempt
<1> QED BY <1>1, <1>2

LEMMA CurrentInIs ==
    ASSUME NEW rw \in [Children -> States], NEW l \in Legs
    PROVE  /\ CurrentIn(rw, l) \in Attempts
           /\ rw[<<l, CurrentIn(rw, l)>>] = "absent" =>
                 \A k \in Attempts : rw[<<l, k>>] = "absent"
<1> DEFINE there == {k \in Attempts : rw[<<l, k>>] # "absent"}
           retries == {k \in there : k > 0}
<1>a. MaxRetry \in Nat /\ 0 \in Attempts
  BY DelegationAssumption DEF Attempts
<1>1. retries \in SUBSET (0..MaxRetry) /\ \A k \in there : k > 0 \/ k = Resume \/ k = 0
  BY <1>a DEF Attempts, Resume
<1>2. retries # {} => Max(retries) \in retries
  <2> HIDE DEF retries
  <2> QED BY <1>a, <1>1, MaxBounded
<1>3. CurrentIn(rw, l) = IF retries # {} THEN Max(retries)
                         ELSE IF Resume \in there THEN Resume ELSE 0
  BY DEF CurrentIn
<1>4. \A k \in retries : k \in there
  OBVIOUS
<1>5. \A k \in there : k \in Attempts /\ rw[<<l, k>>] # "absent"
  OBVIOUS
<1>6. \A k \in Attempts : rw[<<l, k>>] # "absent" => k \in there
  OBVIOUS
<1>7. \A k \in there : k > 0 => k \in retries
  OBVIOUS
<1> HIDE DEF retries, there
<1> QED BY <1>a, <1>1, <1>2, <1>3, <1>4, <1>5, <1>6, <1>7

LEMMA CurrentStill ==
    ASSUME NEW rw, NEW rv, NEW l,
           \A k \in Attempts : rw[<<l, k>>] = "absent" <=> rv[<<l, k>>] = "absent"
    PROVE  CurrentIn(rw, l) = CurrentIn(rv, l)
<1>1. {k \in Attempts : rw[<<l, k>>] # "absent"} = {k \in Attempts : rv[<<l, k>>] # "absent"}
  OBVIOUS
<1> QED BY <1>1 DEF CurrentIn

LEMMA CurrentAfter ==
    ASSUME NEW rw \in [Children -> States], NEW l \in Legs, NEW n \in Attempts,
           rw[<<l, n>>] = "absent", NEW rv, rv = [rw EXCEPT ![<<l, n>>] = "active"]
    PROVE  CurrentIn(rv, l) \in {CurrentIn(rw, l), n}
<1> DEFINE there == {k \in Attempts : rw[<<l, k>>] # "absent"}
           retries == {k \in there : k > 0}
           here == {k \in Attempts : rv[<<l, k>>] # "absent"}
           tries == {k \in here : k > 0}
<1>a. MaxRetry \in Nat /\ 0 \in Attempts
  BY DelegationAssumption DEF Attempts
<1>b. here = there \cup {n}
  <2>1. \A k \in Attempts : <<l, k>> \in Children
    BY DEF Children
  <2>2. \A k \in Attempts : rv[<<l, k>>] = IF k = n THEN "active" ELSE rw[<<l, k>>]
    BY <2>1
  <2> QED BY <2>2
<1>1. retries \in SUBSET (0..MaxRetry) /\ tries \in SUBSET (0..MaxRetry)
  BY <1>a DEF Attempts, Resume
<1>2. /\ retries # {} => Max(retries) \in retries /\ \A k \in retries : k <= Max(retries)
      /\ tries # {} => Max(tries) \in tries /\ \A k \in tries : k <= Max(tries)
  <2> HIDE DEF retries, tries
  <2> QED BY <1>a, <1>1, MaxBounded
<1>3. /\ CurrentIn(rw, l) = IF retries # {} THEN Max(retries)
                            ELSE IF Resume \in there THEN Resume ELSE 0
      /\ CurrentIn(rv, l) = IF tries # {} THEN Max(tries)
                            ELSE IF Resume \in here THEN Resume ELSE 0
  BY DEF CurrentIn
<1>4. tries = IF n > 0 THEN retries \cup {n} ELSE retries
  BY <1>b
<1>5. n > 0 => n \in tries
  BY <1>4
<1>6. \A k \in tries : k \in Int
  BY <1>1
<1>7. CASE n > 0
  <2>1. Max(tries) \in tries /\ \A k \in tries : k <= Max(tries)
    BY <1>2, <1>5, <1>7
  <2>2. CASE Max(tries) = n
    BY <1>3, <1>5, <1>7, <2>2
  <2>3. CASE Max(tries) # n
    <3>1. Max(tries) \in retries /\ retries # {}
      <4> HIDE DEF tries, retries
      <4> QED BY <2>1, <2>3, <1>4, <1>7
    <3>2. Max(retries) \in tries /\ Max(tries) <= Max(retries) /\ Max(retries) <= Max(tries)
      BY <1>2, <1>4, <1>7, <2>1, <3>1
    <3>3. Max(tries) = Max(retries)
      <4>1. Max(tries) \in Int /\ Max(retries) \in Int
        BY <1>6, <2>1, <3>2
      <4> HIDE DEF tries, retries
      <4> QED BY <3>2, <4>1
    <3>4. tries # {}
      BY <1>5, <1>7
    <3> HIDE DEF tries, retries, here, there
    <3> QED BY <1>3, <3>1, <3>3, <3>4
  <2> QED BY <2>2, <2>3
<1>8. CASE ~(n > 0)
  <2>1. tries = retries
    BY <1>4, <1>8
  <2>2. Resume \in here <=> Resume \in there \/ n = Resume
    BY <1>b
  <2>3. n = Resume \/ n = 0
    BY <1>8 DEF Attempts, Resume
  <2> HIDE DEF tries, retries, here, there
  <2> QED BY <1>3, <2>1, <2>2, <2>3
<1> QED BY <1>7, <1>8

\* What a listing shows, before and after a step
LEMMA Listed ==
    ASSUME TypeOK, row' \in [Children -> States], NEW l \in Legs
    PROVE  /\ View[l].k \in Attempts /\ <<l, View[l].k>> \in Children
           /\ View[l].st = row[<<l, View[l].k>>] /\ View[l].st \in States
           /\ View[l].st = "absent" => \A k \in Attempts : row[<<l, k>>] = "absent"
           /\ View'[l].k \in Attempts
           /\ View'[l].st = row'[<<l, View'[l].k>>] /\ View'[l].st \in States
           /\ View'[l].st = "absent" => \A k \in Attempts : row'[<<l, k>>] = "absent"
<1>1. row \in [Children -> States]
  BY DEF TypeOK
<1>2. CurrentIn(row, l) \in Attempts /\ CurrentIn(row', l) \in Attempts
  BY <1>1, CurrentInIs
<1>3. \A k \in Attempts : <<l, k>> \in Children
  BY DEF Children
<1>4. /\ row[<<l, CurrentIn(row, l)>>] = "absent" => \A k \in Attempts : row[<<l, k>>] = "absent"
      /\ row'[<<l, CurrentIn(row', l)>>] = "absent" => \A k \in Attempts : row'[<<l, k>>] = "absent"
  BY <1>1, CurrentInIs
<1> HIDE DEF View, CurrentIn
<1> QED BY <1>1, <1>2, <1>3, <1>4, ViewAt

\* What an inserted row changes of it
LEMMA ListedInserts ==
    ASSUME TypeOK, row' \in [Children -> States], Inserts, NEW l \in Legs
    PROVE  View'[l] = View[l] \/ View'[l].st = "active"
<1>1. row \in [Children -> States]
  BY DEF TypeOK
<1>2. CASE UNCHANGED row
  <2>1. View' = View
    BY <1>2 DEF View, CurrentAttempt
  <2> QED BY <2>1
<1>3. ASSUME NEW m \in Legs, NEW n \in Attempts, row[<<m, n>>] = "absent",
             row' = [row EXCEPT ![<<m, n>>] = "active"]
      PROVE  View'[l] = View[l] \/ View'[l].st = "active"
  <2>1. View[l] = [k |-> View[l].k, st |-> View[l].st] /\ View'[l] = [k |-> View'[l].k, st |-> View'[l].st]
    BY DEF View
  <2>2. \A k \in Attempts : <<l, k>> \in Children
    BY DEF Children
  <2>3. CASE l = m
    <3>1. CurrentIn(row', l) \in {CurrentIn(row, l), n}
      BY <1>1, <1>3, <2>3, CurrentAfter
    <3>2. row'[<<l, n>>] = "active"
      BY <1>1, <1>3, <2>2, <2>3
    <3>3. CurrentIn(row, l) \in Attempts
      BY <1>1, CurrentInIs
    <3>4. CurrentIn(row, l) # n => row'[<<l, CurrentIn(row, l)>>] = row[<<l, CurrentIn(row, l)>>]
      BY <1>1, <1>3, <2>2, <2>3, <3>3
    <3> HIDE DEF View, CurrentIn
    <3> QED BY <2>1, <3>1, <3>2, <3>4, ViewAt
  <2>4. CASE l # m
    <3>1. \A k \in Attempts : row'[<<l, k>>] = row[<<l, k>>]
      BY <1>1, <1>3, <2>2, <2>4
    <3>2. CurrentIn(row, l) = CurrentIn(row', l)
      BY <3>1, CurrentStill
    <3>3. CurrentIn(row, l) \in Attempts
      BY <1>1, CurrentInIs
    <3> HIDE DEF View, CurrentIn
    <3> QED BY <2>1, <3>1, <3>2, <3>3, ViewAt
  <2> QED BY <2>3, <2>4
<1> QED BY <1>2, <1>3 DEF Inserts

\* ... and a row that goes on, of those that are there
LEMMA ListedMoves ==
    ASSUME TypeOK, NEW c \in Children, row[c] # "absent", NEW st \in States \ {"absent"},
           row' = [row EXCEPT ![c] = st], NEW l \in Legs
    PROVE  /\ View'[l].k = View[l].k
           /\ c # <<l, View[l].k>> => View'[l] = View[l]
<1>1. row \in [Children -> States]
  BY DEF TypeOK
<1>2. \A k \in Attempts : <<l, k>> \in Children
  BY DEF Children
<1>3. \A k \in Attempts : row[<<l, k>>] = "absent" <=> row'[<<l, k>>] = "absent"
  BY <1>1, <1>2
<1>4. CurrentIn(row, l) = CurrentIn(row', l)
  BY <1>3, CurrentStill
<1>5. CurrentIn(row, l) \in Attempts
  BY <1>1, CurrentInIs
<1>6. View[l] = [k |-> View[l].k, st |-> View[l].st] /\ View'[l] = [k |-> View'[l].k, st |-> View'[l].st]
  BY DEF View
<1>7. c # <<l, CurrentIn(row, l)>> => row'[<<l, CurrentIn(row, l)>>] = row[<<l, CurrentIn(row, l)>>]
  BY <1>1, <1>2, <1>5
<1> HIDE DEF View, CurrentIn
<1> QED BY <1>4, <1>6, <1>7, ViewAt

\* A listing in which not every leg is resolved and no dependent can be queued
\* shows a leg that runs or one that P has still to spawn.
LEMMA Stuck ==
    ASSUME TypeOK, NEW v \in Views, ~AllResolved(v), \A m \in Legs : ~Queueable(v, m)
    PROVE  \E n \in Legs : v[n].st = "active" \/ (v[n].st = "absent" /\ plan.deps[n] = {})
<1> SUFFICES ASSUME \A n \in Legs : v[n].st # "active" /\ ~(v[n].st = "absent" /\ plan.deps[n] = {})
             PROVE  FALSE
  OBVIOUS
<1>1. PICK l \in Legs : ~Resolved(v, l)
  BY DEF AllResolved
<1>2. \A n \in Legs : v[n].st = "absent" \/ Succeeded(v[n].st) \/ Failed(v[n].st)
  BY DEF Views, States, Succeeded, Failed
<1>3. v[l].st = "absent" /\ l \in Runnable(v)
  BY <1>1, <1>2 DEF Resolved, Settled
<1> DEFINE S == {m \in Legs : v[m].st # "absent"}
<1>4. ASSUME NEW m \in Legs, m \notin S,
             \A d \in plan.deps[m] : IF v[d].st = "absent" THEN d \in S ELSE ~Failed(v[d].st)
      PROVE  FALSE
  <2>1. plan.deps[m] \subseteq Legs
    BY PlanType
  <2>2. \A d \in plan.deps[m] : Succeeded(v[d].st)
    BY <1>2, <1>4, <2>1
  <2>3. v[m].st = "absent" /\ plan.deps[m] # {}
    BY <1>4
  <2> QED BY <2>2, <2>3 DEF Queueable, DepsSatisfied
<1>5. S \in SUBSET Legs /\ l \notin S
  BY <1>3
<1>6. \A m \in Legs :
         (\A d \in plan.deps[m] : IF v[d].st = "absent" THEN d \in S ELSE ~Failed(v[d].st)) => m \in S
  BY <1>4
<1> HIDE DEF S
<1> QED BY <1>3, <1>5, <1>6 DEF Runnable
-----------------------------------------------------------------------------
(* What the step of an advancement of a child preserves while P is undecided *)

\* The advancement of a leg that has failed for a human comes back to it.
Back(l, r) ==
    /\ ~r.late
    /\ r.pc \in {"adv", "retry", "pause", "pausereq"} \/ (r.pc = "events" /\ r.kids[l] = View[l])

\* Something else than x goes on.
Others(x) ==
    \/ \E c \in Children : row[c] = "active"
    \/ \E y \in Workers : y # x /\ p[y].job \in Children /\ Works(p[y])
    \/ \E c \in Children : Awaits(c)
    \/ ToSpawn # {}

\* x gives up for now, and leaves its marker.
Leaves(x) == p'[x] = Idle /\ ~p[x].late /\ mark' = mark

Keeps(x) ==
    /\ row' = row /\ Works(p[x]) => Works(p'[x]) \/ Others(x) \/ Leaves(x)
    /\ \A m \in Legs : Ready(m) /\ row'[<<m, 0>>] = "absent" /\ Takes(p[x], m) =>
          Takes(p'[x], m) \/ Leaves(x)
    /\ \A l \in Legs : ForHuman(l) /\ Back(l, p[x]) =>
          (Back(l, p'[x]) \/ p'[x] = Idle) /\ mark' = mark

LEMMA UndecidedIs ==
    ASSUME Known, Undecided
    PROVE  /\ ~evCont /\ ~evFin /\ cont = NoCont /\ ~Continued /\ task # "blocked"
           /\ \A y \in Actors : p[y].pc \notin {"contev", "finev", "finev2"}
           /\ \A y \in Workers : p[y].pc \notin {"ask", "askreq"}
<1>1. ~Continued /\ task # "blocked"
  BY DEF Undecided, Decided, Continued
<1>2. \A y \in Workers : p[y].job \in Jobs
  BY ActorSets DEF Known, TypeOK, Activity
<1>3. \A y \in Workers : p[y].pc \notin {"ask", "askreq"}
  BY <1>2 DEF Known, Asked, Undecided
<1> QED BY <1>1, <1>3 DEF Known, Continues

LEMMA TakesWorks ==
    ASSUME NEW r, NEW m \in Legs, Takes(r, m) PROVE Works(r)
BY DEF Takes, Works

LEMMA BackWorks ==
    ASSUME NEW r, NEW l \in Legs, ForHuman(l), Back(l, r) PROVE Works(r)
<1>1. r.pc = "events" /\ r.kids[l] = View[l] => l \in Stopping(r.kids)
  BY DEF ForHuman, Stopping
<1> QED BY <1>1 DEF Back, Works

LEMMA NotWorking ==
    ASSUME NEW x, ~Works(p[x]) PROVE Keeps(x)
BY TakesWorks, BackWorks DEF Keeps

\* Where an advancement goes on for certain
Strong(r) ==
    \/ r.pc \in {"retry", "gate", "cont", "fin", "finq"}
    \/ r.pc = "block" /\ ~plan.orchestrate

LEMMA StrongKeeps ==
    ASSUME NEW x, p[x].job \in Children, p'[x].job = p[x].job, p'[x].late = p[x].late,
           Strong(p'[x]),
           \A l \in Legs : ForHuman(l) /\ Back(l, p[x]) => p'[x].pc = "retry" /\ mark' = mark
    PROVE  Keeps(x)
<1>1. Works(p'[x])
  BY DEF Strong, Works
<1>2. \A m \in Legs : Takes(p[x], m) => Takes(p'[x], m)
  <2>1. \A m \in Legs : Takes(p[x], m) => p[x].job \in Children /\ ~p[x].late
    BY DEF Takes
  <2> QED BY <2>1 DEF Strong, Takes
<1>3. \A l \in Legs : ForHuman(l) /\ Back(l, p[x]) => Back(l, p'[x]) /\ mark' = mark
  BY DEF Back
<1> QED BY <1>1, <1>2, <1>3 DEF Keeps

\* A fresh listing
LEMMA FreshKeeps ==
    ASSUME NEW x, p[x].job \in Children, p'[x].job = p[x].job, p'[x].late = p[x].late,
           p'[x].pc = "events", p'[x].kids = View, mark' = mark
    PROVE  Keeps(x)
<1>1. Works(p'[x])
  BY DEF Works
<1>2. \A m \in Legs : Ready(m) /\ Takes(p[x], m) => Takes(p'[x], m)
  <2>1. \A m \in Legs : Takes(p[x], m) => p[x].job \in Children /\ ~p[x].late
    BY DEF Takes
  <2>2. \A m \in Legs : Ready(m) => Queueable(p'[x].kids, m)
    BY DEF Ready
  <2> QED BY <2>1, <2>2 DEF Takes
<1>3. \A l \in Legs : Back(l, p[x]) => Back(l, p'[x])
  <2>1. \A l \in Legs : p'[x].kids[l] = View[l]
    OBVIOUS
  <2> QED BY <2>1 DEF Back
<1> QED BY <1>1, <1>2, <1>3 DEF Keeps

\* The end of a pass
LEMMA PassOn ==
    ASSUME NEW me \in Activity, me.job \in Children, NEW r, r = DepsOrGate(me)
    PROVE  /\ Works(r) \/ (~me.esc /\ Dependents(me) = {} /\ ~AllResolved(me.kids))
           /\ \A m : ~me.late /\ (m \in Dependents(me) \/ me.esc) => Takes(r, m)
<1>1. CASE Dependents(me) # {}
  <2>1. r = [me EXCEPT !.pc = "deps"]
    BY <1>1 DEF DepsOrGate
  <2>2. /\ r.pc = "deps" /\ r.job = me.job /\ r.late = me.late /\ r.esc = me.esc
        /\ r.kids = me.kids /\ r.tried = me.tried
    BY <2>1 DEF Activity
  <2>3. Dependents(r) = Dependents(me)
    BY <2>2 DEF Dependents
  <2>4. ~me.esc
    BY <1>1 DEF Dependents
  <2> QED BY <2>2, <2>3, <2>4 DEF Works, Takes
<1>2. CASE Dependents(me) = {} /\ (me.esc \/ AllResolved(me.kids))
  <2>1. r = [me EXCEPT !.pc = "gate", !.tried = {}]
    BY <1>2 DEF DepsOrGate
  <2>2. r.pc = "gate" /\ r.job = me.job /\ r.late = me.late
    BY <2>1 DEF Activity
  <2> QED BY <1>2, <2>2 DEF Works, Takes
<1>3. CASE Dependents(me) = {} /\ ~me.esc /\ ~AllResolved(me.kids)
  BY <1>3
<1> QED BY <1>1, <1>2, <1>3

\* A pass over a listing that is up to date ends only where something else goes on.
LEMMA PassEnds ==
    ASSUME TypeOK, NEW x, ~AllResolved(View), \A m \in Legs : ~Ready(m)
    PROVE  Others(x)
<1>1. \A m \in Legs : ~Queueable(View, m)
  BY DEF Ready
<1>2. PICK n \in Legs : View[n].st = "active" \/ (View[n].st = "absent" /\ plan.deps[n] = {})
  <2> HIDE DEF View, AllResolved
  <2> QED BY <1>1, ViewType, Stuck
<1>3. /\ <<n, View[n].k>> \in Children /\ View[n].st = row[<<n, View[n].k>>]
      /\ View[n].st = "absent" => \A k \in Attempts : row[<<n, k>>] = "absent"
  <2>1. CurrentIn(row, n) \in Attempts
    BY CurrentInIs DEF TypeOK
  <2>2. View[n].k = CurrentIn(row, n) /\ View[n].st = row[<<n, CurrentIn(row, n)>>]
    BY ViewAt
  <2>3. row[<<n, CurrentIn(row, n)>>] = "absent" => \A k \in Attempts : row[<<n, k>>] = "absent"
    BY CurrentInIs DEF TypeOK
  <2> HIDE DEF View, CurrentIn
  <2> QED BY <2>1, <2>2, <2>3 DEF Children
<1>4. 0 \in Attempts
  BY DelegationAssumption DEF Attempts
<1> HIDE DEF View
<1> QED BY <1>2, <1>3, <1>4 DEF Others, ToSpawn

\* What blocking, or finalizing instead, leads to
LEMMA StrongBlocking ==
    ASSUME NEW me, NEW why
    PROVE  /\ \A r : r = BlockingOrFinalizing(me, why) \/ r = Finalizing(me, why) =>
                  Strong(r) /\ r.job = me.job /\ r.late = me.late /\ r.pc # "retry"
<1>1. PICK r : /\ r = BlockingOrFinalizing(me, why)
               /\ r.job = me.job /\ r.late = me.late
               /\ \/ r.pc = "block" /\ ~plan.orchestrate
                  \/ r.pc = "fin"
  BY BlockingIs
<1>2. LET f == Finalizing(me, why) IN f.pc = "fin" /\ f.job = me.job /\ f.late = me.late
  BY FinalizingIs
<1> HIDE DEF BlockingOrFinalizing, Finalizing
<1> QED BY <1>1, <1>2 DEF Strong

LEMMA EventsKeeps ==
    ASSUME Known, Progress, Undecided, NEW x \in Workers, p[x].job \in Children, Events(x)
    PROVE  Keeps(x)
<1> DEFINE me == p[x]
           e == Escalates(me.kids)
           me2 == [me EXCEPT !.esc = e, !.tried = {}]
<1>a. /\ TypeOK /\ x \in Actors /\ p \in [Actors -> Activity] /\ me \in Activity
      /\ ~evCont /\ me.pc = "events"
      /\ \A r : Goto(x, r) => p'[x] = r
  BY ActorSets, UndecidedIs DEF Known, TypeOK, Events, At, Goto
<1>b. row' = row /\ mark' = mark
  BY DEF Events, store
<1>c. e \in BOOLEAN
  BY DEF Escalates
<1>1. \/ Goto(x, [me EXCEPT !.pc = "retry"])
      \/ Stopping(me.kids) = {} /\ Goto(x, DepsOrGate(me2))
      \/ \E l \in Stopping(me.kids) :
            \/ plan.policy[l] = "escalate_human" /\ Goto(x, [Quit(me, "pause") EXCEPT !.leg = l])
            \/ plan.policy[l] # "escalate_human" /\ Goto(x, BlockingOrFinalizing(me, "block_parent"))
  BY <1>a DEF Events, First
<1>2. ASSUME Goto(x, [me EXCEPT !.pc = "retry"]) PROVE Keeps(x)
  <2> DEFINE r == [me EXCEPT !.pc = "retry"]
  <2>1. p'[x] = r /\ r.pc = "retry" /\ r.job = me.job /\ r.late = me.late
    BY <1>a, <1>2 DEF Activity
  <2> HIDE DEF r
  <2> QED BY <1>b, <2>1, StrongKeeps DEF Strong
<1>3. ASSUME Stopping(me.kids) = {}, Goto(x, DepsOrGate(me2)) PROVE Keeps(x)
  <2>1. /\ me2 \in Activity /\ me2.job = me.job /\ me2.late = me.late /\ me2.kids = me.kids
        /\ me2.esc = e /\ me2.tried = {}
    BY <1>a, <1>c DEF Activity
  <2>2. \A m \in Legs : Queueable(me.kids, m) => m \in Dependents(me2) \/ me2.esc
    <3> HIDE DEF me2, e
    <3> QED BY <2>1 DEF Queueable, Dependents
  <2>3. p'[x] = DepsOrGate(me2)
    BY <1>3, <1>a
  <2> HIDE DEF me2, e
  <2>4. /\ Works(p'[x]) \/ (~me2.esc /\ Dependents(me2) = {} /\ ~AllResolved(me.kids))
        /\ \A m : ~me.late /\ (m \in Dependents(me2) \/ me2.esc) => Takes(p'[x], m)
    BY <2>1, <2>3, PassOn
  <2>5. ASSUME Works(me), ~Works(p'[x]) PROVE Others(x)
    <3>1. \A m \in Legs : ~Queueable(me.kids, m)
      BY <2>2, <2>4, <2>5
    <3>2. me.kids = View
      BY <1>3, <1>a, <2>5, <3>1 DEF Works
    <3>3. ~AllResolved(View) /\ \A m \in Legs : ~Ready(m)
      BY <2>4, <2>5, <3>1, <3>2 DEF Ready
    <3> QED BY <1>a, <3>3, PassEnds
  <2>6. ASSUME NEW m \in Legs, Takes(me, m) PROVE Takes(p'[x], m)
    <3>1. ~me.late /\ Queueable(me.kids, m)
      BY <1>a, <2>6 DEF Takes
    <3> QED BY <2>2, <2>4, <3>1
  <2>7. ASSUME NEW l \in Legs, ForHuman(l), Back(l, me) PROVE FALSE
    <3>1. me.kids[l] = View[l]
      BY <1>a, <2>7 DEF Back
    <3> QED BY <1>3, <2>7, <3>1 DEF ForHuman, Stopping
  <2> QED BY <2>5, <2>6, <2>7 DEF Keeps
<1>4. ASSUME NEW l \in Stopping(me.kids), plan.policy[l] = "escalate_human",
             Goto(x, [Quit(me, "pause") EXCEPT !.leg = l])
      PROVE  Keeps(x)
  <2> DEFINE r == [Quit(me, "pause") EXCEPT !.leg = l]
  <2>1. p'[x] = r /\ r.pc = "pause" /\ r.job = me.job /\ r.late = me.late
    BY <1>a, <1>4 DEF Quit, Idle
  <2> HIDE DEF r
  <2>2. ~r.late => Works(r)
    BY <2>1 DEF Works
  <2>3. \A m \in Legs : Takes(me, m) => Takes(r, m)
    BY <2>1 DEF Takes
  <2>4. \A n \in Legs : Back(n, me) => Back(n, r)
    BY <2>1 DEF Back
  <2>5. ASSUME me.late, Works(me) PROVE Others(x)
    <3>1. me.kids = View
      BY <1>a, <2>5 DEF Works
    <3>2. l \in Legs /\ ForHuman(l)
      BY <1>4, <3>1 DEF Stopping, ForHuman
    <3> DEFINE c == <<l, View[l].k>>
    <3>3. c \in Children
      <4>1. CurrentIn(row, l) \in Attempts /\ View[l].k = CurrentIn(row, l)
        BY <1>a, <3>2, CurrentInIs, ViewAt DEF TypeOK
      <4> HIDE DEF View, CurrentIn
      <4> QED BY <3>2, <4>1 DEF Children
    <3>4. Pending(c) /\ \A y \in Workers : Of(y, c) => Back(l, p[y])
      <4>1. Returns(l)
        BY <3>2 DEF Progress
      <4> HIDE DEF View
      <4> QED BY <4>1 DEF Returns, Back, At
    <3> HIDE DEF c
    <3>5. CASE \A y \in Workers : ~Of(y, c)
      BY <3>3, <3>4, <3>5 DEF Awaits, Others
    <3>6. ASSUME NEW y \in Workers, Of(y, c) PROVE Others(x)
      <4>1. Back(l, p[y]) /\ p[y].job = c
        BY <3>4, <3>6 DEF Of
      <4>2. Works(p[y])
        BY <3>2, <4>1, BackWorks
      <4>3. y # x
        BY <2>5, <4>1 DEF Back
      <4> QED BY <3>3, <4>1, <4>2, <4>3 DEF Others
    <3> QED BY <3>5, <3>6
  <2> QED BY <1>b, <2>1, <2>2, <2>3, <2>4, <2>5 DEF Keeps
<1>5. ASSUME NEW l \in Stopping(me.kids), plan.policy[l] # "escalate_human",
             Goto(x, BlockingOrFinalizing(me, "block_parent"))
      PROVE  Keeps(x)
  <2>1. p'[x] = BlockingOrFinalizing(me, "block_parent")
    BY <1>5, <1>a
  <2>2. plan.policy[l] = "block_parent" /\ l \in Legs
    BY <1>5 DEF Stopping
  <2>3. NoHuman(plan)
    BY <2>2, HumanPlans
  <2>4. \A n \in Legs : ~ForHuman(n)
    BY <2>3 DEF NoHuman, ForHuman
  <2> HIDE DEF me
  <2> QED BY <2>1, <2>4, StrongBlocking, StrongKeeps DEF me
<1> QED BY <1>1, <1>2, <1>3, <1>4, <1>5

LEMMA RetryKeeps ==
    ASSUME Known, Progress, Undecided, NEW x \in Workers, p[x].job \in Children, Retry(x)
    PROVE  Keeps(x)
<1> DEFINE me == p[x]
<1>a. /\ TypeOK /\ x \in Actors /\ p \in [Actors -> Activity] /\ me \in Activity
      /\ me.pc = "retry" /\ mark' = mark
      /\ \A r : Goto(x, r) => p'[x] = r
  BY ActorSets DEF Known, TypeOK, Retry, At, Goto
<1>1. \/ \E l : Goto(x, [me EXCEPT !.tried = @ \cup {l}])
      \/ Retriables(me) # {} /\ plan.alloc /\ Goto(x, Quit(me, "block"))
      \/ Goto(x, [me EXCEPT !.pc = "events", !.kids = View])
  BY DEF Retry, Blocking
<1>2. ASSUME NEW l, Goto(x, [me EXCEPT !.tried = @ \cup {l}]) PROVE Keeps(x)
  <2> DEFINE r == [me EXCEPT !.tried = @ \cup {l}]
  <2>1. p'[x] = r /\ r.pc = "retry" /\ r.job = me.job /\ r.late = me.late
    BY <1>a, <1>2 DEF Activity
  <2> HIDE DEF r
  <2> QED BY <1>a, <2>1, StrongKeeps DEF Strong
<1>3. ASSUME Retriables(me) # {}, plan.alloc, Goto(x, Quit(me, "block")) PROVE Keeps(x)
  <2>1. PICK l \in Legs : RetryCount(me.kids[l].k) < plan.retry[l]
    BY <1>3 DEF Retriables, Retriable
  <2>2. plan.retry[l] # 0
    <3>1. me.kids[l].k \in Attempts /\ me.kids[l].k \in Int
      BY <1>a, DelegationAssumption DEF Activity, Views, Attempts, Resume
    <3>2. RetryCount(me.kids[l].k) >= 0
      BY <3>1, DelegationAssumption DEF RetryCount, Attempts, Resume
    <3>3. RetryCount(me.kids[l].k) \in Int
      BY <3>1 DEF RetryCount
    <3> HIDE DEF me
    <3> QED BY <2>1, <3>2, <3>3
  <2>3. ~plan.orchestrate
    BY <1>3, <2>2 DEF Known, Rests
  <2>4. NoHuman(plan)
    BY <1>3, HumanPlans
  <2>5. \A n \in Legs : ~ForHuman(n)
    BY <2>4 DEF NoHuman, ForHuman
  <2>6. p'[x] = Quit(me, "block")
    BY <1>a, <1>3
  <2>7. p'[x].pc = "block" /\ p'[x].job = me.job /\ p'[x].late = me.late
    BY <2>6, QuitIs
  <2> QED BY <2>3, <2>5, <2>7, StrongKeeps DEF Strong
<1>4. ASSUME Goto(x, [me EXCEPT !.pc = "events", !.kids = View]) PROVE Keeps(x)
  <2> DEFINE r == [me EXCEPT !.pc = "events", !.kids = View]
  <2>1. p'[x] = r /\ r.pc = "events" /\ r.job = me.job /\ r.late = me.late /\ r.kids = View
    BY <1>a, <1>4 DEF Activity
  <2> HIDE DEF r
  <2> QED BY <1>a, <2>1, FreshKeeps
<1> QED BY <1>1, <1>2, <1>3, <1>4

LEMMA AdvanceKeeps ==
    ASSUME Known, Undecided, NEW x \in Workers, p[x].job \in Children, AdvanceJob(x)
    PROVE  Keeps(x)
<1>a. /\ TypeOK /\ x \in Actors /\ p \in [Actors -> Activity] /\ p[x] \in Activity /\ mark' = mark
      /\ \A r : Goto(x, r) => p'[x] = r
  BY ActorSets DEF Known, TypeOK, AdvanceJob, Goto
<1>b. p[x].job # P /\ ~Asks(p[x].job)
  BY <1>a, ActorSets DEF Undecided, Activity
<1> DEFINE r == [p[x] EXCEPT !.pc = "events", !.kids = View]
<1>1. p'[x] = r
  BY <1>a, <1>b DEF AdvanceJob
<1>2. r.pc = "events" /\ r.job = p[x].job /\ r.late = p[x].late /\ r.kids = View
  BY <1>a DEF Activity
<1> HIDE DEF r
<1> QED BY <1>a, <1>1, <1>2, FreshKeeps

LEMMA PauseKeeps ==
    ASSUME Known, NEW x \in Workers, p[x].job \in Children, Pause(x) \/ PauseRequest(x)
    PROVE  Keeps(x)
<1> DEFINE me == p[x]
<1>a. /\ TypeOK /\ x \in Actors /\ p \in [Actors -> Activity] /\ me \in Activity
      /\ me.pc \in {"pause", "pausereq"} /\ mark' = mark
      /\ \A r : Goto(x, r) => p'[x] = r
  BY ActorSets DEF Known, TypeOK, Pause, PauseRequest, RequestRound, Await, At, Goto
<1>1. p'[x] = Idle \/ Step(x, "pausereq")
  BY <1>a DEF Pause, PauseRequest, RequestRound, Await
<1>2. Works(me) => ~me.late
  BY <1>a DEF Works
<1>3. \A m \in Legs : Takes(me, m) => ~me.late /\ me.job \in Children
  BY DEF Takes
<1>4. CASE p'[x] = Idle
  BY <1>a, <1>2, <1>3, <1>4 DEF Keeps, Leaves
<1>5. CASE Step(x, "pausereq")
  <2> DEFINE r == [me EXCEPT !.pc = "pausereq"]
  <2>1. p'[x] = r /\ r.pc = "pausereq" /\ r.job = me.job /\ r.late = me.late
    BY <1>a, <1>5 DEF Activity, Step
  <2> HIDE DEF r
  <2>2. Works(me) => Works(r)
    BY <1>2, <2>1 DEF Works
  <2>3. \A m \in Legs : Takes(me, m) => Takes(r, m)
    BY <1>3, <2>1 DEF Takes
  <2>4. \A n \in Legs : Back(n, me) => Back(n, r)
    BY <2>1 DEF Back
  <2> QED BY <1>a, <2>1, <2>2, <2>3, <2>4 DEF Keeps
<1> QED BY <1>1, <1>4, <1>5

LEMMA DepsKeeps ==
    ASSUME Known, NEW x \in Workers, p[x].job \in Children, Deps(x)
    PROVE  Keeps(x)
<1> DEFINE me == p[x]
<1>a. /\ TypeOK /\ x \in Actors /\ p \in [Actors -> Activity] /\ me \in Activity
      /\ me.pc = "deps" /\ mark' = mark
      /\ \A r : Goto(x, r) => p'[x] = r
  BY ActorSets DEF Known, TypeOK, Deps, At, Goto
<1>b. \A l \in Legs : ~Back(l, me)
  BY <1>a DEF Back
<1>1. \/ \E l \in First(Dependents(me)) : Enqueue(<<l, 0>>) /\ Goto(x, [me EXCEPT !.pc = "reread", !.tried = @ \cup {l}])
      \/ Goto(x, BlockingOrFinalizing(me, "alloc"))
  BY DEF Deps
<1>2. ASSUME NEW l \in First(Dependents(me)), Enqueue(<<l, 0>>),
             Goto(x, [me EXCEPT !.pc = "reread", !.tried = @ \cup {l}])
      PROVE  Keeps(x)
  <2> DEFINE r == [me EXCEPT !.pc = "reread", !.tried = @ \cup {l}]
  <2>1. /\ p'[x] = r /\ r.pc = "reread" /\ r.job = me.job /\ r.late = me.late
        /\ r.tried = me.tried \cup {l} /\ r.esc = me.esc
    BY <1>a, <1>2 DEF Activity
  <2>2. /\ ~me.esc /\ l \in Legs /\ \A m \in Dependents(me) : l <= m
    BY <1>2 DEF First, Dependents
  <2>3. row'[<<l, 0>>] # "absent"
    <3>1. <<l, 0>> \in Children
      BY <2>2, DelegationAssumption DEF Children, Attempts
    <3> QED BY <1>2, <1>a, <3>1 DEF Enqueue, TypeOK
  <2>4. ASSUME NEW m \in Legs, row'[<<m, 0>>] = "absent", Takes(me, m) PROVE Takes(r, m)
    <3>1. m \in Dependents(me) /\ ~me.late
      BY <1>a, <2>4 DEF Takes
    <3>2. l <= m /\ l # m
      BY <2>2, <2>3, <2>4, <3>1
    <3>3. l \in Int /\ m \in Int
      BY <2>2 DEF Legs
    <3>4. m > l
      BY <3>2, <3>3
    <3>5. \A t \in me.tried : m > t
      BY <2>2, <3>1 DEF Dependents
    <3>6. \A t \in r.tried : m > t
      BY <2>1, <3>4, <3>5
    <3> HIDE DEF r
    <3> QED BY <2>1, <2>2, <3>1, <3>6 DEF Takes
  <2> HIDE DEF r
  <2>5. Works(r)
    BY <2>1 DEF Works
  <2> QED BY <1>b, <2>1, <2>4, <2>5 DEF Keeps
<1>3. ASSUME Goto(x, BlockingOrFinalizing(me, "alloc")) PROVE Keeps(x)
  <2>1. p'[x] = BlockingOrFinalizing(me, "alloc")
    BY <1>3, <1>a
  <2> HIDE DEF me
  <2> QED BY <1>b, <2>1, StrongBlocking, StrongKeeps DEF me
<1> QED BY <1>1, <1>2, <1>3

LEMMA RereadKeeps ==
    ASSUME Known, Progress, Undecided, NEW x \in Workers, p[x].job \in Children, Reread(x)
    PROVE  Keeps(x)
<1> DEFINE me == p[x]
           me2 == [me EXCEPT !.kids = View]
<1>a. /\ TypeOK /\ x \in Actors /\ p \in [Actors -> Activity] /\ me \in Activity
      /\ me.pc = "reread" /\ mark' = mark
      /\ \A r : Goto(x, r) => p'[x] = r
  BY ActorSets DEF Known, TypeOK, Reread, At, Goto
<1>b. \A l \in Legs : ~Back(l, me)
  BY <1>a DEF Back
<1>1. /\ me2 \in Activity /\ me2.job = me.job /\ me2.late = me.late /\ me2.kids = View
      /\ me2.esc = me.esc /\ me2.tried = me.tried
  BY <1>a, ViewType DEF Activity
<1>2. p'[x] = DepsOrGate(me2)
  BY <1>a DEF Reread
<1> HIDE DEF me2
<1>3. /\ Works(p'[x]) \/ (~me.esc /\ Dependents(me2) = {} /\ ~AllResolved(View))
      /\ \A m : ~me.late /\ (m \in Dependents(me2) \/ me.esc) => Takes(p'[x], m)
  <2> HIDE DEF View
  <2> QED BY <1>1, <1>2, PassOn
<1>4. ASSUME NEW m \in Legs, Ready(m), Takes(me, m) PROVE m \in Dependents(me2) /\ ~me.late
  <2>1. ~me.late /\ ~me.esc /\ \A t \in me.tried : m > t
    BY <1>a, <1>4 DEF Takes
  <2>2. plan.deps[m] # {} /\ View[m].st = "absent" /\ DepsSatisfied(View, m)
    BY <1>4 DEF Ready, Queueable
  <2> HIDE DEF View
  <2> QED BY <1>1, <2>1, <2>2 DEF Dependents
<1>5. ASSUME ~Works(p'[x]) PROVE Others(x)
  <2>1. CASE \A m \in Legs : ~Ready(m)
    BY <1>a, <1>3, <1>5, <2>1, PassEnds
  <2>2. ASSUME NEW m \in Legs, Ready(m) PROVE Others(x)
    <3>1. Taken(m)
      BY <2>2 DEF Progress
    <3>2. CASE \E c \in Children : Awaits(c)
      BY <3>2 DEF Others
    <3>3. ASSUME NEW y \in Workers, Takes(p[y], m) PROVE Others(x)
      <4>1. y # x
        BY <1>3, <1>4, <1>5, <2>2, <3>3
      <4>2. Works(p[y]) /\ p[y].job \in Children
        BY <3>3, TakesWorks DEF Takes
      <4> QED BY <4>1, <4>2 DEF Others
    <3> QED BY <3>1, <3>2, <3>3 DEF Taken
  <2> QED BY <2>1, <2>2
<1> QED BY <1>b, <1>3, <1>4, <1>5 DEF Keeps

LEMMA GateKeeps ==
    ASSUME Known, Undecided, NEW x \in Workers, p[x].job \in Children, Gate(x) \/ FinalizeGuard(x)
    PROVE  Keeps(x)
<1> DEFINE me == p[x]
<1>a. /\ TypeOK /\ x \in Actors /\ p \in [Actors -> Activity] /\ me \in Activity
      /\ me.pc \in {"gate", "fin"} /\ mark' = mark /\ ~evCont /\ ~evFin
      /\ \A r : Goto(x, r) => p'[x] = r
  BY ActorSets, UndecidedIs DEF Known, TypeOK, Gate, FinalizeGuard, At, Goto
<1>b. \A l \in Legs : ~Back(l, me)
  BY <1>a DEF Back
<1>1. ASSUME Strong(p'[x]), p'[x].job = me.job, p'[x].late = me.late PROVE Keeps(x)
  BY <1>1, <1>b, StrongKeeps
<1>2. CASE Gate(x)
  <2>1. \/ \E why : p'[x] = BlockingOrFinalizing(me, why) \/ p'[x] = Finalizing(me, why)
        \/ \E w : p'[x] = [Quit(me, "cont") EXCEPT !.want = w]
    BY <1>2, <1>a DEF Gate
  <2>2. ASSUME NEW w, p'[x] = [Quit(me, "cont") EXCEPT !.want = w] PROVE Keeps(x)
    <3>1. p'[x].pc = "cont" /\ p'[x].job = me.job /\ p'[x].late = me.late
      BY <2>2 DEF Quit, Idle
    <3> QED BY <1>1, <3>1 DEF Strong
  <2>3. ASSUME NEW why, p'[x] = BlockingOrFinalizing(me, why) \/ p'[x] = Finalizing(me, why)
        PROVE  Keeps(x)
    <3> HIDE DEF me
    <3> QED BY <1>1, <2>3, StrongBlocking
  <2> QED BY <2>1, <2>2, <2>3
<1>3. CASE FinalizeGuard(x)
  <2> DEFINE r == [me EXCEPT !.pc = "finq"]
  <2>1. p'[x] = r
    BY <1>3, <1>a DEF FinalizeGuard, Step
  <2>2. r.pc = "finq" /\ r.job = me.job /\ r.late = me.late
    BY <1>a DEF Activity
  <2> HIDE DEF r
  <2> QED BY <1>1, <2>1, <2>2 DEF Strong
<1> QED BY <1>2, <1>3

LEMMA ChildKeeps ==
    ASSUME Known, Progress, Undecided, Undecided', NEW x \in Workers, p[x].job \in Children, Engine(x)
    PROVE  Keeps(x)
<1>a. /\ x \in Actors /\ x \notin Humans /\ p[x].job # P /\ ~At(x, "idle") /\ TypeOK
  BY ActorSets, EngineFollows DEF Known
<1>b. p[x].pc \in ChildPCs /\ p[x].pc \notin {"contev", "finev", "finev2", "ask", "askreq"}
  BY <1>a, ActorKinds, UndecidedIs DEF Known
<1>1. ~Continue(x) /\ ~Correct(x) /\ ~FinalizeEnqueue(x)
  BY <1>a, EnqueueGoes DEF Undecided, Decided, Continued
<1>2. CASE Block(x)
  <2>1. plan.orchestrate
    BY <1>2 DEF Block, SetTask, Undecided, Decided
  <2>2. ~Works(p[x])
    BY <1>2, <2>1 DEF Block, At, Works
  <2> QED BY <2>2, NotWorking
<1>3. CASE AfterAdvance(x) \/ MarkDone(x) \/ MarkBlocked(x)
  <2>1. ~Works(p[x])
    BY <1>3 DEF AfterAdvance, MarkDone, MarkBlocked, At, Works
  <2> QED BY <2>1, NotWorking
<1>4. /\ ~Ask(x) /\ ~AskRequest(x) /\ ~Dispatch(x) /\ ~Spawn(x) /\ ~AnswerGate(x)
      /\ ~ContinueEvent(x) /\ ~FinalizeEvent(x) /\ ~ResumeRow(x) /\ ~ResumeTask(x) /\ ~ResumeDone(x)
  BY <1>b DEF Ask, AskRequest, RequestRound, Dispatch, Spawn, AnswerGate, ContinueEvent,
              FinalizeEvent, ResumeRow, ResumeTask, ResumeDone, At, ChildPCs
<1> QED BY <1>1, <1>2, <1>3, <1>4, AdvanceKeeps, EventsKeeps, RetryKeeps, PauseKeeps, DepsKeeps,
           RereadKeeps, GateKeeps DEF Engine
-----------------------------------------------------------------------------
(* Progress                                                                 *)

LEMMA WorksStill ==
    ASSUME plan' = plan, row' = row, NEW y, Works(p'[y]) PROVE Works(p[y])'
<1>1. View' = View
  BY DEF View, CurrentAttempt
<1> HIDE DEF View
<1> QED BY <1>1 DEF Works, Stopping, Queueable, DepsSatisfied

LEMMA TakesStill ==
    ASSUME plan' = plan, NEW y, NEW m, Takes(p'[y], m) PROVE Takes(p[y], m)'
BY DEF Takes, Queueable, DepsSatisfied, Dependents

\* Where P's own advancement goes on
ParentAt(r) ==
    \/ r.pc \in {"adv", "dispatch", "spawn", "cont", "correct", "fin", "finq"}
    \/ r.pc = "block" /\ ~plan.orchestrate

LEMMA ParentIs ==
    /\ ParentWorks <=> (\E y \in Workers : p[y].job = P /\ ParentAt(p[y])) \/ Awaits(P)
    /\ plan' = plan =>
          (ParentWorks' <=> (\E y \in Workers : p'[y].job = P /\ ParentAt(p'[y])) \/ Awaits(P)')
BY DEF ParentWorks, ParentAt, At

LEMMA ParentKeeps ==
    ASSUME Known, Undecided, Undecided', NEW x \in Workers, p[x].job = P, Engine(x),
           ParentAt(p[x]), ToSpawn # {}
    PROVE  p'[x].job = P /\ ParentAt(p'[x])
<1> DEFINE me == p[x]
           Done == p'[x].job = P /\ ParentAt(p'[x])
<1>p. /\ TypeOK /\ x \in Actors /\ p \in [Actors -> Activity] /\ me \in Activity /\ P \in Jobs
  BY ActorSets DEF Known, TypeOK
<1>q. /\ me.job = P
      /\ me.pc \in {"adv", "dispatch", "spawn", "cont", "correct", "fin", "finq", "block"}
      /\ me.pc = "block" => ~plan.orchestrate
  BY DEF ParentAt
<1>r. ~evCont /\ ~evFin /\ ~Asks(P)
  BY <1>p, UndecidedIs DEF Undecided
<1>s. \A r : Goto(x, r) => p'[x] = r
  BY <1>p DEF Goto
<1>a. /\ TypeOK /\ x \in Actors /\ p \in [Actors -> Activity] /\ me \in Activity /\ me.job = P
      /\ me.pc \in {"adv", "dispatch", "spawn", "cont", "correct", "fin", "finq", "block"}
      /\ ~evCont /\ ~evFin /\ ~Asks(P) /\ P \in Jobs
      /\ \A r : Goto(x, r) => p'[x] = r
      /\ me.pc = "block" => ~plan.orchestrate
  BY <1>p, <1>q, <1>r, <1>s
<1>b. ASSUME NEW why, NEW me2, me2.job = P,
             p'[x] = BlockingOrFinalizing(me2, why) \/ p'[x] = Finalizing(me2, why)
      PROVE  Done
  <2>1. Strong(p'[x]) /\ p'[x].job = me2.job /\ p'[x].pc # "retry"
    <3> HIDE DEF BlockingOrFinalizing, Finalizing
    <3> QED BY <1>b, StrongBlocking
  <2>2. p'[x].pc # "gate"
    <3>1. PICK r : r = BlockingOrFinalizing(me2, why) /\ r.pc \in {"block", "fin"}
      BY BlockingIs
    <3>2. Finalizing(me2, why).pc = "fin"
      BY FinalizingIs
    <3> HIDE DEF BlockingOrFinalizing, Finalizing
    <3> QED BY <1>b, <3>1, <3>2
  <2> HIDE DEF BlockingOrFinalizing, Finalizing
  <2> QED BY <1>b, <2>1, <2>2 DEF ParentAt, Strong
<1> HIDE DEF Done
<1>1. ~Continue(x) /\ ~Correct(x) /\ ~FinalizeEnqueue(x)
  BY <1>a, EnqueueGoes DEF Undecided, Decided, Continued
<1>2. ~Block(x)
  BY <1>a DEF Block, At, SetTask, Undecided, Decided
<1>3. ASSUME AdvanceJob(x) PROVE Done
  <2>1. p'[x] = [me EXCEPT !.pc = "dispatch"]
    BY <1>3, <1>a DEF AdvanceJob
  <2> QED BY <2>1, <1>a DEF Activity, Done, ParentAt
<1>4. ASSUME FinalizeGuard(x) PROVE Done
  <2>1. p'[x] = [me EXCEPT !.pc = "finq"]
    BY <1>4, <1>a DEF FinalizeGuard, Step
  <2> QED BY <2>1, <1>a DEF Activity, Done, ParentAt
<1>5. ASSUME Spawn(x) PROVE Done
  <2>1. me.pc = "spawn"
    BY <1>5 DEF Spawn, At
  <2>2. p' = p \/ Goto(x, BlockingOrFinalizing(me, "alloc"))
    BY <1>5 DEF Spawn
  <2>3. CASE p' = p
    BY <2>1, <2>3, <1>a DEF Done, ParentAt
  <2> QED BY <1>a, <1>b, <2>2, <2>3
<1>6. ASSUME Dispatch(x) PROVE Done
  <2> DEFINE dd == [me EXCEPT !.ret = "mark"]
             w == Request("corrective", plan.refused, NoView)
             cc == [dd EXCEPT !.pc = IF plan.refused = "loop" THEN "correct" ELSE "cont", !.want = w]
  <2>1. me.pc = "dispatch"
    BY <1>6 DEF Dispatch, At
  <2>2. ~evRefused
    <3>1. SUFFICES ASSUME evRefused PROVE FALSE
      OBVIOUS
    <3>2. PICK y \in Workers : p[y].job = P /\ p[y].pc \in {"cont", "correct", "fin", "finq"}
      BY <3>1, UndecidedIs DEF Known, Continues
    <3>3. y # x /\ ~At(y, "idle") /\ ~At(x, "idle")
      BY <2>1, <3>2 DEF At
    <3> QED BY <3>2, <3>3, OneEach DEF Known
  <2>3. dd.job = P /\ dd \in Activity
    BY <1>a DEF Activity
  <2>4. \/ \E why : p'[x] = Finalizing(dd, why)
        \/ p'[x] = [dd EXCEPT !.pc = "spawn"]
        \/ p'[x] = cc
    BY <1>6, <1>a, <2>2 DEF Dispatch
  <2>5. /\ [dd EXCEPT !.pc = "spawn"].pc = "spawn" /\ [dd EXCEPT !.pc = "spawn"].job = P
        /\ cc.pc \in {"correct", "cont"} /\ cc.job = P
    <3> HIDE DEF w, dd
    <3> QED BY <2>3 DEF Activity, cc
  <2> HIDE DEF dd, cc
  <2> QED BY <1>b, <2>3, <2>4, <2>5 DEF Done, ParentAt
<1>7. Done
  BY <1>a, <1>1, <1>2, <1>3, <1>4, <1>5, <1>6
     DEF Engine, Ask, AskRequest, RequestRound, AfterAdvance, Events, Retry, Pause, PauseRequest,
         Deps, Reread, Gate, AnswerGate, ContinueEvent, FinalizeEvent, ResumeRow, ResumeTask,
         ResumeDone, MarkDone, MarkBlocked, At
<1> QED BY <1>7 DEF Done

\* Undecided, once false, is so for good.
LEMMA EngineUndecided ==
    ASSUME Known, NEW x \in Actors, Engine(x), Undecided'
    PROVE  Undecided
<1>a. TypeOK /\ Know /\ Attended /\ ~At(x, "idle") /\ plan' = plan /\ RowMoves
  BY EngineFollows, EngineStore, GrowsMoves DEF Known, StoreStep
<1>1. ~Continued
  <2>1. cont' = cont \/ Continued'
    BY EngineStores DEF Stores
  <2> QED BY <2>1 DEF Continued, Undecided, Decided
<1>2. \A j \in Jobs : ~Asks(j)
  BY <1>a, AsksStay DEF Undecided
<1>3. ASSUME task = "blocked" PROVE FALSE
  <2>1. NoHuman(plan)
    BY <1>3 DEF Known, Asked
  <2>2. p[x].pc \in {"pause", "ask", "rs_task"} => FALSE
    <3>1. p[x].pc \in {"pause", "ask"} => x \in Workers /\ p[x].job \in Jobs
      BY <1>a, ActorKinds DEF HumanPCs
    <3>2. p[x].pc = "rs_task" => x \in Humans
      BY <1>a, ActorKinds DEF ChildPCs, ParentPCs
    <3> QED BY <1>1, <1>2, <2>1, <3>1, <3>2 DEF Known, Asked
  <2>3. task' = task
    BY <1>3, <2>2 DEF Engine, AdvanceJob, Ask, AskRequest, AfterAdvance, Dispatch, Spawn, Events, Retry,
              Pause, PauseRequest, RequestRound, Deps, Reread, Gate, AnswerGate, Continue, Correct,
              EnqueueContinuation, ContinueEvent, FinalizeGuard, FinalizeEnqueue, FinalizeEvent,
              ResumeRow, ResumeTask, ResumeDone, Block, MarkDone, MarkBlocked, At, store, SetTask
  <2> QED BY <1>3, <2>3 DEF Undecided, Decided
<1> QED BY <1>1, <1>2, <1>3 DEF Undecided, Decided, Continued

\* Advancements left to the tick are left alone by the others.
LEMMA AwaitsStay ==
    ASSUME Known, NEW x \in Actors, Engine(x), NEW j \in Jobs, Awaits(j)
    PROVE  Awaits(j)'
<1>a. TypeOK /\ Know /\ Attended /\ ~At(x, "idle") /\ p \in [Actors -> Activity] /\ mark \in [Jobs -> Marks]
  BY EngineFollows DEF Known, TypeOK, Marks
<1>b. \A y \in Actors : \/ p'[y] = p[y]
                        \/ y = x /\ (p'[y].pc = "idle" \/ p'[y].job = p[x].job)
  <2>1. p' = p \/ \E r : Follows(x, r) /\ Goto(x, r)
    BY <1>a, EngineFollows
  <2>2. Idle.pc = "idle"
    BY DEF Idle
  <2> QED BY <2>1, <2>2, <1>a DEF Goto, Follows
<1>c. Workers \subseteq Actors
  BY ActorSets
<1>1. Pending(j) /\ \A y \in Workers : ~Of(y, j)
  BY DEF Awaits
<1>2. x \in Workers => p[x].job # j
  BY <1>a, <1>1 DEF Of
<1>3. mark'[j] = mark[j]
  <2>1. mark' = mark \/ (x \in Workers /\ \E m : mark' = [mark EXCEPT ![p[x].job] = m])
    BY <1>a, EngineMarks
  <2> QED BY <1>a, <1>2, <2>1
<1>4. \A y \in Workers : ~(p'[y].pc # "idle" /\ p'[y].job = j)
  BY <1>1, <1>2, <1>b, <1>c DEF Of, At
<1> QED BY <1>1, <1>3, <1>4 DEF Awaits, Of, At, Pending

LEMMA LeavesAwaits ==
    ASSUME Known, NEW x \in Workers, Engine(x), Leaves(x)
    PROVE  \E j \in Jobs : j = p[x].job /\ Awaits(j)'
<1>a. TypeOK /\ Know /\ Attended /\ p \in [Actors -> Activity] /\ x \in Actors /\ Idle.pc = "idle"
      /\ ~At(x, "idle") /\ ~At(x, "attach") /\ p[x].job \in Jobs
      /\ Workers \subseteq Actors
  BY ActorSets, EngineFollows DEF Known, TypeOK, Activity, Idle
<1>1. PICK j \in Jobs : j = p[x].job
  BY <1>a
<1>2. Pending(j) /\ mark' = mark
  BY <1>a, <1>1 DEF Attended, Leaves
<1>3. \A y \in Workers : y # x => ~Of(y, j)
  BY <1>a, <1>1, OneEach DEF Of
<1>4. \A y \in Workers : y # x => p'[y] = p[y]
  BY <1>a, EngineFollows DEF Goto
<1>5. \A y \in Workers : ~(p'[y].pc # "idle" /\ p'[y].job = j)
  BY <1>3, <1>4, <1>a DEF Of, At, Leaves
<1>6. Awaits(j)'
  BY <1>2, <1>5 DEF Awaits, Of, At, Pending
<1> QED BY <1>1, <1>6

\* An insertion makes no dependent ready.
LEMMA ReadyBefore ==
    ASSUME TypeOK, row' \in [Children -> States], plan' = plan, Inserts, NEW m \in Legs, Ready(m)'
    PROVE  Ready(m) /\ row'[<<m, 0>>] = "absent"
<1>1. \A l \in Legs : View'[l] = View[l] \/ View'[l].st = "active"
  BY ListedInserts
<1>2. plan.deps[m] # {} /\ View'[m].st = "absent" /\ \A d \in plan.deps[m] : Succeeded(View'[d].st)
  BY DEF Ready, Queueable, DepsSatisfied
<1>3. plan.deps[m] \subseteq Legs
  BY PlanType
<1>4. \A d \in plan.deps[m] : View'[d] = View[d]
  <2> HIDE DEF View
  <2> QED BY <1>1, <1>2, <1>3 DEF Succeeded
<1>5. View'[m] = View[m]
  <2> HIDE DEF View
  <2> QED BY <1>1, <1>2
<1>6. \A k \in Attempts : row'[<<m, k>>] = "absent"
  <2> HIDE DEF View
  <2> QED BY <1>2, Listed
<1>7. 0 \in Attempts
  BY DelegationAssumption DEF Attempts
<1> HIDE DEF View
<1> QED BY <1>2, <1>4, <1>5, <1>6, <1>7 DEF Ready, Queueable, DepsSatisfied

\* What a step of an advancement leaves alone
LEMMA EngineStep ==
    ASSUME Known, NEW x \in Actors, Engine(x)
    PROVE  /\ TypeOK /\ Know /\ Attended /\ plan' = plan /\ row' \in [Children -> States]
           /\ RowMoves /\ RowGrows /\ Inserts
           /\ row' = row \/ \E c \in Children : row'[c] = "active"
           /\ ~At(x, "idle") /\ Workers \subseteq Actors
           /\ \A y \in Actors : y # x => p'[y] = p[y]
           /\ p'[x].pc = "idle" \/ p'[x].job = p[x].job
<1>a. TypeOK /\ Know /\ Attended /\ p \in [Actors -> Activity] /\ row \in [Children -> States]
  BY DEF Known, TypeOK
<1>b. StoreStep /\ RowGrows /\ Inserts
  BY <1>a, EngineStore, EngineInserts
<1>1. plan' = plan /\ row' \in [Children -> States] /\ RowMoves
  BY <1>b DEF StoreStep
<1>2. ~At(x, "idle") /\ (p' = p \/ \E r : Follows(x, r) /\ Goto(x, r))
  BY <1>a, EngineFollows
<1>3. Idle.pc = "idle"
  BY DEF Idle
<1>4. /\ \A y \in Actors : y # x => p'[y] = p[y]
      /\ p'[x].pc = "idle" \/ p'[x].job = p[x].job
  BY <1>a, <1>2, <1>3 DEF Goto, Follows
<1>5. row' = row \/ \E c \in Children : row'[c] = "active"
  <2>1. ASSUME NEW l \in Legs, NEW k \in Attempts, row' = [row EXCEPT ![<<l, k>>] = "active"]
        PROVE  \E c \in Children : row'[c] = "active"
    BY <2>1, <1>a DEF Children
  <2> QED BY <2>1, <1>b DEF Inserts
<1> QED BY <1>a, <1>b, <1>1, <1>2, <1>4, <1>5, ActorSets

LEMMA EngineGoing ==
    ASSUME Known, Progress, Undecided, Undecided', NEW x \in Actors, Engine(x)
    PROVE  Going'
<1>a. /\ plan' = plan /\ Workers \subseteq Actors /\ \A y \in Actors : y # x => p'[y] = p[y]
      /\ row' = row \/ \E c \in Children : row'[c] = "active"
      /\ p'[x].pc = "idle" \/ p'[x].job = p[x].job
  BY EngineStep
<1>b. Going
  BY DEF Progress
<1>c. \A j \in Jobs : Awaits(j) => Awaits(j)'
  BY AwaitsStay
<1>d. P \in Jobs /\ Children \subseteq Jobs
  BY ActorSets
<1>e. ToSpawn' \subseteq ToSpawn
  <2>1. \A l \in Legs : row'[<<l, 0>>] = "absent" => row[<<l, 0>>] = "absent"
    <3>1. \A l \in Legs : <<l, 0>> \in Children
      BY DelegationAssumption DEF Children, Attempts
    <3>2. \A c \in Children : row'[c] = "absent" => row[c] = "absent"
      BY EngineStep DEF RowGrows
    <3> QED BY <3>1, <3>2
  <2> QED BY <1>a, <2>1 DEF ToSpawn
<1>1. CASE ToSpawn' # {}
  <2>1. ParentWorks /\ ToSpawn # {}
    BY <1>1, <1>b, <1>e DEF Going
  <2>2. ASSUME NEW y \in Workers, p[y].job = P, ParentAt(p[y])
        PROVE  p'[y].job = P /\ ParentAt(p'[y])
    <3>1. CASE y = x
      BY <2>1, <2>2, <3>1, ParentKeeps
    <3>2. CASE y # x
      BY <1>a, <2>2, <3>2
    <3> QED BY <3>1, <3>2
  <2>3. ParentWorks'
    <3> HIDE DEF ParentWorks
    <3> QED BY <1>a, <1>c, <1>d, <2>1, <2>2, ParentIs
  <2> QED BY <1>1, <2>3 DEF Going
<1>2. CASE ToSpawn' = {}
  <2>1. CASE \E c \in Children : row'[c] = "active"
    BY <1>2, <2>1 DEF Going, ChildWorks
  <2>2. CASE row' = row
    <3>1. ToSpawn = {}
      BY <1>a, <1>2, <2>2 DEF ToSpawn
    <3>2. ASSUME NEW y \in Workers, y # x, p[y].job \in Children, Works(p[y])
          PROVE  p'[y].job \in Children /\ Works(p[y])'
      <4>1. p'[y] = p[y]
        BY <1>a, <3>2
      <4>2. Works(p'[y])
        BY <3>2, <4>1
      <4> QED BY <1>a, <2>2, <3>2, <4>1, <4>2, WorksStill
    <3>3. Others(x) => ChildWorks'
      BY <1>c, <1>d, <2>2, <3>1, <3>2 DEF Others, ChildWorks
    <3>4. ASSUME x \in Workers, p[x].job \in Children, Works(p[x])
          PROVE  ChildWorks'
      <4>1. Keeps(x)
        BY <3>4, ChildKeeps
      <4>2. Works(p'[x]) \/ Others(x) \/ Leaves(x)
        BY <2>2, <3>4, <4>1 DEF Keeps
      <4>3. CASE Works(p'[x])
        <5>1. p'[x].pc # "idle"
          BY <4>3 DEF Works
        <5>2. Works(p[x])'
          BY <1>a, <2>2, <4>3, WorksStill
        <5> QED BY <1>a, <3>4, <5>1, <5>2 DEF ChildWorks
      <4>4. CASE Leaves(x)
        <5>1. \E j \in Jobs : j = p[x].job /\ Awaits(j)'
          BY <3>4, <4>4, LeavesAwaits
        <5> QED BY <3>4, <5>1 DEF ChildWorks
      <4> QED BY <4>2, <4>3, <4>4, <3>3
    <3>5. ChildWorks
      BY <1>b, <3>1 DEF Going
    <3>6. ChildWorks'
      BY <1>c, <1>d, <2>2, <3>2, <3>4, <3>5 DEF ChildWorks
    <3> QED BY <1>2, <3>6 DEF Going
  <2> QED BY <1>a, <2>1, <2>2
<1> QED BY <1>1, <1>2

LEMMA EngineReady ==
    ASSUME Known, Progress, Undecided, Undecided', NEW x \in Actors, Engine(x),
           NEW m \in Legs, Ready(m)'
    PROVE  Taken(m)'
<1>a. /\ TypeOK /\ plan' = plan /\ row' \in [Children -> States] /\ Inserts /\ Workers \subseteq Actors
      /\ \A y \in Actors : y # x => p'[y] = p[y]
  BY EngineStep
<1>b. Ready(m) /\ row'[<<m, 0>>] = "absent"
  <2> HIDE DEF Ready
  <2> QED BY <1>a, ReadyBefore
<1>c. \A j \in Jobs : Awaits(j) => Awaits(j)'
  BY AwaitsStay
<1>d. Children \subseteq Jobs
  BY ActorSets
<1>e. Taken(m)
  BY <1>b DEF Progress
<1>1. CASE \E c \in Children : Awaits(c)
  BY <1>1, <1>c, <1>d DEF Taken
<1>2. ASSUME NEW y \in Workers, Takes(p[y], m)
      PROVE  Taken(m)'
  <2>1. p[y].job \in Children
    BY <1>2 DEF Takes
  <2>2. ASSUME Takes(p'[y], m) PROVE Taken(m)'
    <3>1. Takes(p[y], m)'
      BY <1>a, <2>2, TakesStill
    <3> QED BY <3>1 DEF Taken
  <2>3. CASE y # x
    <3>1. Takes(p'[y], m)
      BY <1>a, <1>2, <2>3
    <3> QED BY <2>2, <3>1
  <2>4. CASE y = x
    <3>1. Keeps(x)
      BY <2>1, <2>4, ChildKeeps
    <3>2. Takes(p'[x], m) \/ Leaves(x)
      <4> HIDE DEF Takes, Ready, Leaves
      <4> QED BY <1>b, <1>2, <2>4, <3>1 DEF Keeps
    <3>3. CASE Leaves(x)
      <4>1. \E j \in Jobs : j = p[x].job /\ Awaits(j)'
        BY <2>4, <3>3, LeavesAwaits
      <4> QED BY <2>1, <2>4, <4>1 DEF Taken
    <3> QED BY <2>2, <2>4, <3>2, <3>3
  <2> QED BY <2>3, <2>4
<1> QED BY <1>1, <1>2, <1>e DEF Taken

\* The advancement that comes back to a leg l for a human, of its attempt c
ComesBack(l, c) ==
    Pending(c) /\ \A x \in Workers : Of(x, c) => Back(l, p[x])

LEMMA ReturnsIs ==
    ASSUME NEW l PROVE Returns(l) <=> ComesBack(l, <<l, View[l].k>>)
<1> HIDE DEF View
<1> QED BY DEF Returns, ComesBack, Back, Of, At

LEMMA ReturnsAgain ==
    ASSUME NEW l, NEW c, c = <<l, View'[l].k>>, View'[l] = View[l], Pending(c)',
           \A x \in Workers : Of(x, c)' => Back(l, p'[x])
    PROVE  Returns(l)'
<1>1. Pending(<<l, View[l].k>>)'
  <2> HIDE DEF View
  <2> QED BY DEF Pending
<1>2. \A x \in Workers : Of(x, <<l, View[l].k>>)' => Back(l, p'[x])
  <2> HIDE DEF View
  <2> QED BY DEF Of, At
<1>3. \A x \in Workers : Of(x, <<l, View[l].k>>)' =>
             /\ ~p'[x].late
             /\ \/ p'[x].pc \in {"adv", "retry", "pause", "pausereq"}
                \/ p'[x].pc = "events" /\ p'[x].kids[l] = View'[l]
  <2> HIDE DEF View, Of
  <2> QED BY <1>2 DEF Back
<1> HIDE DEF View, Pending, Of
<1> QED BY <1>1, <1>3 DEF Returns, At

LEMMA ReturnsFresh ==
    ASSUME NEW l, NEW c, c = <<l, View'[l].k>>, Pending(c)',
           \A x \in Workers : Of(x, c)' => ~p'[x].late /\ p'[x].pc = "adv"
    PROVE  Returns(l)'
<1>1. Pending(<<l, View[l].k>>)'
  <2> HIDE DEF View
  <2> QED BY DEF Pending
<1>2. \A x \in Workers : Of(x, <<l, View[l].k>>)' => ~p'[x].late /\ p'[x].pc = "adv"
  <2> HIDE DEF View
  <2> QED BY DEF Of, At
<1> HIDE DEF View, Pending, Of
<1> QED BY <1>1, <1>2 DEF Returns, At

LEMMA EngineForHuman ==
    ASSUME Known, Progress, Undecided, Undecided', NEW x \in Actors, Engine(x),
           NEW l \in Legs, ForHuman(l)'
    PROVE  Returns(l)'
<1>a. /\ TypeOK /\ Know /\ Attended /\ plan' = plan /\ row' \in [Children -> States] /\ Inserts
      /\ Workers \subseteq Actors /\ \A y \in Actors : y # x => p'[y] = p[y]
      /\ p'[x].pc = "idle" \/ p'[x].job = p[x].job
      /\ ~At(x, "idle") /\ mark \in [Jobs -> Marks]
  BY EngineStep DEF TypeOK, Marks
<1>b. plan.policy[l] = "escalate_human" /\ Failed(View'[l].st)
  BY <1>a DEF ForHuman
<1>c. View'[l] = View[l]
  <2>1. View'[l] = View[l] \/ View'[l].st = "active"
    BY <1>a, ListedInserts
  <2> HIDE DEF View
  <2> QED BY <1>b, <2>1 DEF Failed
<1>d. ForHuman(l)
  <2> HIDE DEF View
  <2> QED BY <1>b, <1>c DEF ForHuman
<1>i. <<l, View[l].k>> \in Children
  BY <1>a, Listed
<1>f. PICK c \in Children : c = <<l, View[l].k>>
  BY <1>i
<1>e. ComesBack(l, c) /\ c \in Jobs /\ c \in Children
  <2>1. Returns(l)
    BY <1>d DEF Progress
  <2> HIDE DEF View, Returns
  <2> QED BY <1>f, <2>1, ReturnsIs, ActorSets
<1>g. c = <<l, View'[l].k>>
  <2> HIDE DEF View
  <2> QED BY <1>c, <1>f
<1>1. CASE x \in Workers /\ p[x].job = c
  <2>1. Back(l, p[x])
    BY <1>a, <1>1, <1>e DEF ComesBack, Of
  <2>2. Keeps(x)
    BY <1>1, <1>e, ChildKeeps
  <2>3. (Back(l, p'[x]) \/ p'[x] = Idle) /\ mark' = mark
    <3> HIDE DEF Back, ForHuman
    <3> QED BY <1>d, <2>1, <2>2 DEF Keeps
  <2>4. Pending(c)'
    BY <1>e, <2>3 DEF ComesBack, Pending
  <2>5. ASSUME NEW y \in Workers, Of(y, c)'
        PROVE  Back(l, p'[y])
    <3>1. CASE y = x
      BY <2>3, <2>5, <3>1 DEF Of, At, Idle
    <3>2. CASE y # x
      BY <1>a, <1>e, <2>5, <3>2 DEF ComesBack, Of, At
    <3> QED BY <3>1, <3>2
  <2> HIDE DEF View, Pending
  <2> QED BY <1>c, <1>g, <2>4, <2>5, ReturnsAgain
<1>2. CASE ~(x \in Workers /\ p[x].job = c)
  <2>1. mark'[c] = mark[c]
    <3>1. mark' = mark \/ (x \in Workers /\ \E mk : mark' = [mark EXCEPT ![p[x].job] = mk])
      BY <1>a, EngineMarks
    <3> QED BY <1>a, <1>2, <1>e, <3>1
  <2>2. Pending(c)'
    BY <1>e, <2>1 DEF ComesBack, Pending
  <2>3. ASSUME NEW y \in Workers, Of(y, c)'
        PROVE  Back(l, p'[y])
    <3>1. y # x
      BY <1>a, <1>2, <2>3 DEF Of, At
    <3> QED BY <1>a, <1>e, <2>3, <3>1 DEF ComesBack, Of, At
  <2> HIDE DEF View, Pending
  <2> QED BY <1>c, <1>g, <2>2, <2>3, ReturnsAgain
<1> QED BY <1>1, <1>2

LEMMA EngineProgress ==
    ASSUME Known, Progress, NEW x \in Actors, Engine(x)
    PROVE  Progress'
<1> SUFFICES ASSUME Undecided'
             PROVE  Going' /\ (\A m \in Legs : Ready(m)' => Taken(m)')
                           /\ \A l \in Legs : ForHuman(l)' => Returns(l)'
  BY DEF Progress
<1>1. Undecided
  BY EngineUndecided
<1>2. Going'
  BY <1>1, EngineGoing
<1>3. \A m \in Legs : Ready(m)' => Taken(m)'
  BY <1>1, EngineReady
<1>4. \A l \in Legs : ForHuman(l)' => Returns(l)'
  BY <1>1, EngineForHuman
<1> QED BY <1>2, <1>3, <1>4

\* A run that ends goes on as the advancement of its job, or has still a result
\* to attach.
LEMMA RunStep ==
    ASSUME Known, NEW c \in Children, Run(c) \/ Attach(c)
    PROVE  /\ TypeOK /\ plan' = plan /\ row' \in [Children -> States] /\ RowMoves
           /\ row[c] # "absent" /\ row'[c] # "absent"
           /\ \E st \in States \ {"absent"} : row' = [row EXCEPT ![c] = st]
           /\ Workers \subseteq Actors /\ c \in Workers /\ c \in Jobs
           /\ \A y \in Workers : y # c => p'[y] = p[y]
           /\ \A y \in Workers : y # c /\ ~At(y, "idle") => p[y].job # c
           /\ At(c, "idle") \/ At(c, "attach")
           /\ p'[c].job = c /\ p'[c].pc \in {"adv", "attach"}
           /\ \/ ~p'[c].late /\ p'[c].pc = "adv" /\ mark'[c] = "started"
              \/ c[1] \in plan.mortal /\ Failed(row'[c])
           /\ \A j \in Jobs : j # c => mark'[j] = mark[j]
           /\ ~Awaits(c)
           /\ cont' = cont /\ task' = task
<1>a. /\ TypeOK /\ Know /\ Attended /\ row \in [Children -> States] /\ mark \in [Jobs -> Marks]
      /\ Workers \subseteq Actors /\ c \in Workers /\ c \in Jobs
  BY ActorSets DEF Known, TypeOK, Marks
<1>1. /\ plan' = plan /\ RowMoves /\ Settled(row'[c])
      /\ \E st \in States : row' = [row EXCEPT ![c] = st]
      /\ (row[c] = "active" /\ At(c, "idle")) \/ (row[c] = "dead" /\ At(c, "attach"))
      /\ \A y \in Actors : y # c => p'[y] = p[y]
      /\ p'[c].job = c /\ p'[c].pc \in {"adv", "attach"}
      /\ \/ Deliver(c) /\ ~p'[c].late /\ p'[c].pc = "adv"
         \/ c[1] \in plan.mortal /\ Failed(row'[c])
      /\ mark' = mark \/ mark' = [mark EXCEPT ![c] = "started"]
      /\ Deliver(c) => mark' = [mark EXCEPT ![c] = "started"]
      /\ \A y \in Workers : y # c /\ ~At(y, "idle") => p[y].job # c
      /\ cont' = cont /\ task' = task
  BY <1>a, RunIs
<1>2. PICK st \in States : row' = [row EXCEPT ![c] = st]
  BY <1>1
<1>3. row'[c] = st /\ st # "absent" /\ row[c] # "absent" /\ row' \in [Children -> States]
  BY <1>a, <1>1, <1>2 DEF Settled, Succeeded, Failed
<1>4. Deliver(c) => mark'[c] = "started"
  BY <1>a, <1>1
<1>5. \A j \in Jobs : j # c => mark'[j] = mark[j]
  BY <1>a, <1>1
<1>6. ~Awaits(c)
  <2>1. SUFFICES ASSUME Pending(c), \A y \in Workers : ~Of(y, c) PROVE FALSE
    BY DEF Awaits
  <2>2. Settled(row[c])
    BY <1>a, <2>1 DEF Attended, Pending
  <2>3. row[c] = "dead" /\ At(c, "attach")
    BY <1>1, <2>2 DEF Settled, Succeeded, Failed
  <2>4. p[c].job = c
    BY <1>a, <2>3 DEF Attended, At
  <2> QED BY <1>a, <2>1, <2>3, <2>4 DEF Of, At
<1> QED BY <1>a, <1>1, <1>2, <1>3, <1>4, <1>5, <1>6

\* Advancements left to the tick are left alone by the runs too.
LEMMA RunAwaits ==
    ASSUME Known, NEW c \in Children, Run(c) \/ Attach(c), NEW j \in Jobs, Awaits(j)
    PROVE  Awaits(j)'
<1>1. /\ c \in Workers /\ \A y \in Workers : y # c => p'[y] = p[y]
      /\ p'[c].job = c /\ \A i \in Jobs : i # c => mark'[i] = mark[i]
      /\ ~Awaits(c)
  BY RunStep
<1>2. j # c
  BY <1>1
<1>3. Pending(j) /\ \A y \in Workers : ~Of(y, j)
  BY DEF Awaits
<1>4. Pending(j)'
  BY <1>1, <1>2, <1>3 DEF Pending
<1>5. \A y \in Workers : ~Of(y, j)'
  BY <1>1, <1>2, <1>3 DEF Of, At
<1> QED BY <1>4, <1>5 DEF Awaits

LEMMA RunGoing ==
    ASSUME Known, Progress, Undecided, NEW c \in Children, Run(c) \/ Attach(c)
    PROVE  Going'
<1>a. /\ plan' = plan /\ c \in Workers /\ \A y \in Workers : y # c => p'[y] = p[y]
      /\ p'[c].job = c /\ p'[c].pc \in {"adv", "attach"} /\ row[c] # "absent" /\ row'[c] # "absent"
      /\ \E st : row' = [row EXCEPT ![c] = st]
      /\ At(c, "idle") \/ At(c, "attach")
  BY RunStep
<1>b. row \in [Children -> States] /\ P \in Jobs
  BY ActorSets DEF Known, TypeOK
<1>1. CASE ToSpawn' # {}
  <2>1. ToSpawn = ToSpawn'
    <3>1. \A l \in Legs : <<l, 0>> \in Children
      BY DelegationAssumption DEF Children, Attempts
    <3>2. \A d \in Children : row'[d] = "absent" <=> row[d] = "absent"
      BY <1>a, <1>b
    <3> QED BY <1>a, <3>1, <3>2 DEF ToSpawn
  <2>2. ParentWorks
    BY <1>1, <2>1 DEF Progress, Going
  <2>3. Awaits(P) => Awaits(P)'
    BY <1>b, RunAwaits
  <2>4. \A y \in Workers : ParentAt(p[y]) => p'[y] = p[y]
    BY <1>a DEF ParentAt, At
  <2>5. ParentWorks'
    <3> HIDE DEF ParentWorks
    <3> QED BY <1>a, <2>2, <2>3, <2>4, ParentIs
  <2> QED BY <1>1, <2>5 DEF Going
<1>2. CASE ToSpawn' = {}
  <2>1. Works(p[c])'
    BY <1>a DEF Works
  <2>2. ChildWorks'
    BY <1>a, <2>1 DEF ChildWorks
  <2> QED BY <1>2, <2>2 DEF Going
<1> QED BY <1>1, <1>2

LEMMA RunReady ==
    ASSUME Known, Progress, Undecided, NEW c \in Children, Run(c) \/ Attach(c),
           NEW m \in Legs, Ready(m)'
    PROVE  Taken(m)'
<1>a. /\ TypeOK /\ plan' = plan /\ c \in Workers /\ \A y \in Workers : y # c => p'[y] = p[y]
      /\ p'[c].job = c /\ row[c] # "absent" /\ row' \in [Children -> States]
      /\ \E st \in States \ {"absent"} : row' = [row EXCEPT ![c] = st]
      /\ At(c, "idle") \/ At(c, "attach")
      /\ (~p'[c].late /\ p'[c].pc = "adv") \/ Failed(row'[c])
  BY RunStep
<1>1. CASE ~p'[c].late /\ p'[c].pc = "adv"
  <2>1. Takes(p[c], m)'
    BY <1>a, <1>1 DEF Takes
  <2> QED BY <1>a, <2>1 DEF Taken
<1>2. CASE Failed(row'[c])
  <2>1. \A l \in Legs : View'[l] = View[l] \/ Failed(View'[l].st)
    <3>1. PICK st \in States \ {"absent"} : row' = [row EXCEPT ![c] = st]
      BY <1>a
    <3> SUFFICES ASSUME NEW l \in Legs PROVE View'[l] = View[l] \/ Failed(View'[l].st)
      OBVIOUS
    <3>2. View'[l].k = View[l].k /\ (c # <<l, View[l].k>> => View'[l] = View[l])
      BY <1>a, <3>1, ListedMoves
    <3>3. View'[l].st = row'[<<l, View'[l].k>>]
      BY <1>a, Listed
    <3> HIDE DEF View
    <3> QED BY <1>2, <3>2, <3>3
  <2>2. plan.deps[m] # {} /\ View'[m].st = "absent" /\ \A d \in plan.deps[m] : Succeeded(View'[d].st)
    BY <1>a DEF Ready, Queueable, DepsSatisfied
  <2>3. plan.deps[m] \subseteq Legs
    BY <1>a, PlanType
  <2>4. Ready(m)
    <3> HIDE DEF View
    <3> QED BY <2>1, <2>2, <2>3 DEF Ready, Queueable, DepsSatisfied, Succeeded, Failed
  <2>5. Taken(m)
    BY <2>4 DEF Progress
  <2>6. CASE \E d \in Children : Awaits(d)
    BY <2>6, RunAwaits, ActorSets DEF Taken
  <2>7. ASSUME NEW y \in Workers, Takes(p[y], m) PROVE Taken(m)'
    <3>1. p'[y] = p[y]
      BY <1>a, <2>7 DEF Takes, At
    <3>2. Takes(p'[y], m)
      BY <2>7, <3>1
    <3>3. Takes(p[y], m)'
      BY <1>a, <3>2, TakesStill
    <3> QED BY <3>3 DEF Taken
  <2> QED BY <2>5, <2>6, <2>7 DEF Taken
<1> QED BY <1>a, <1>1, <1>2

LEMMA RunForHuman ==
    ASSUME Known, Progress, Undecided, NEW c \in Children, Run(c) \/ Attach(c),
           NEW l \in Legs, ForHuman(l)'
    PROVE  Returns(l)'
<1>a. /\ TypeOK /\ plan' = plan /\ c \in Workers /\ \A y \in Workers : y # c => p'[y] = p[y]
      /\ \A y \in Workers : y # c /\ ~At(y, "idle") => p[y].job # c
      /\ p'[c].job = c /\ row[c] # "absent" /\ row' \in [Children -> States]
      /\ \E st \in States \ {"absent"} : row' = [row EXCEPT ![c] = st]
      /\ (~p'[c].late /\ p'[c].pc = "adv" /\ mark'[c] = "started") \/ c[1] \in plan.mortal
      /\ \A j \in Jobs : j # c => mark'[j] = mark[j]
  BY RunStep
<1>b. plan.policy[l] = "escalate_human" /\ Failed(View'[l].st)
  BY <1>a DEF ForHuman
<1>c. View'[l].k = View[l].k /\ (c # <<l, View[l].k>> => View'[l] = View[l])
  <2>1. PICK st \in States \ {"absent"} : row' = [row EXCEPT ![c] = st]
    BY <1>a
  <2> QED BY <1>a, <2>1, ListedMoves
<1>d. PICK d \in Children : d = <<l, View[l].k>>
  BY <1>a, Listed
<1>1. CASE c = d
  <2>1. c[1] = l
    <3> HIDE DEF View
    <3> QED BY <1>d, <1>1
  <2>2. ~p'[c].late /\ p'[c].pc = "adv" /\ mark'[c] = "started"
    BY <1>a, <1>b, <2>1, HumanPlans DEF NoHuman
  <2>3. Pending(d)'
    BY <1>1, <2>2 DEF Pending
  <2>4. \A y \in Workers : Of(y, d)' => ~p'[y].late /\ p'[y].pc = "adv"
    BY <1>a, <1>1, <2>2 DEF Of, At
  <2>5. d = <<l, View'[l].k>>
    <3> HIDE DEF View
    <3> QED BY <1>c, <1>d
  <2> HIDE DEF View
  <2> QED BY <2>3, <2>4, <2>5, ReturnsFresh
<1>2. CASE c # d
  <2>1. View'[l] = View[l] /\ d = <<l, View'[l].k>>
    <3> HIDE DEF View
    <3> QED BY <1>c, <1>d, <1>2
  <2>2. ForHuman(l)
    <3> HIDE DEF View
    <3> QED BY <1>b, <2>1 DEF ForHuman
  <2>3. ComesBack(l, d)
    <3>1. Returns(l)
      BY <2>2 DEF Progress
    <3> HIDE DEF View, Returns
    <3> QED BY <1>d, <3>1, ReturnsIs
  <2>4. d \in Jobs
    BY ActorSets
  <2>5. Pending(d)'
    BY <1>a, <1>2, <2>3, <2>4 DEF ComesBack, Pending
  <2>6. \A y \in Workers : Of(y, d)' => Back(l, p'[y])
    <3>1. \A y \in Workers : Of(y, d)' => y # c
      BY <1>a, <1>2 DEF Of
    <3> HIDE DEF Back
    <3> QED BY <1>a, <2>3, <3>1 DEF ComesBack, Of, At
  <2> HIDE DEF View, Pending
  <2> QED BY <2>1, <2>5, <2>6, ReturnsAgain
<1> QED BY <1>1, <1>2

LEMMA RunProgress ==
    ASSUME Known, Progress, NEW c \in Children, Run(c) \/ Attach(c)
    PROVE  Progress'
<1> SUFFICES ASSUME Undecided'
             PROVE  Going' /\ (\A m \in Legs : Ready(m)' => Taken(m)')
                           /\ \A l \in Legs : ForHuman(l)' => Returns(l)'
  BY DEF Progress
<1>1. Undecided
  <2>1. TypeOK /\ plan' = plan /\ RowMoves /\ cont' = cont /\ task' = task
    BY RunStep
  <2>2. \A j \in Jobs : Asks(j) => Asks(j)'
    BY <2>1, AsksStay
  <2> QED BY <2>1, <2>2 DEF Undecided, Decided
<1>2. Going'
  BY <1>1, RunGoing
<1>3. \A m \in Legs : Ready(m)' => Taken(m)'
  BY <1>1, RunReady
<1>4. \A l \in Legs : ForHuman(l)' => Returns(l)'
  BY <1>1, RunForHuman
<1> QED BY <1>2, <1>3, <1>4

\* The tick, the humans and a crash write nothing; what a crash interrupts is
\* left to the tick.
LEMMA TakenUpProgress ==
    ASSUME Known, Progress, UNCHANGED <<plan, row, mark, cont, task>>,
           \A y \in Workers :
               \/ p'[y] = p[y]
               \/ p'[y].pc = "idle" /\ (~At(y, "idle") => \E j \in Jobs : j = p[y].job /\ Awaits(j)')
               \/ At(y, "idle") /\ p'[y].pc = "adv" /\ ~p'[y].late,
           \A j \in Jobs : Awaits(j) =>
               Awaits(j)' \/ \E y \in Workers : p'[y].pc = "adv" /\ p'[y].job = j /\ ~p'[y].late
    PROVE  Progress'
<1> SUFFICES ASSUME Undecided'
             PROVE  Going' /\ (\A m \in Legs : Ready(m)' => Taken(m)')
                           /\ \A l \in Legs : ForHuman(l)' => Returns(l)'
  BY DEF Progress
<1>1. Undecided
  BY DEF Undecided, Decided, Asks
<1>2. ToSpawn' = ToSpawn /\ View' = View
  BY DEF ToSpawn, View, CurrentAttempt
<1>3. P \in Jobs /\ Children \subseteq Jobs
  BY ActorSets
<1>4. Going'
  <2>1. CASE ToSpawn # {}
    <3>1. ParentWorks
      BY <1>1, <2>1 DEF Progress, Going
    <3>2. CASE Awaits(P)
      <4>1. Awaits(P)' \/ \E y \in Workers : p'[y].job = P /\ ParentAt(p'[y])
        BY <1>3, <3>2 DEF ParentAt
      <4>2. ParentWorks'
        <5> HIDE DEF ParentWorks
        <5> QED BY <4>1, ParentIs
      <4> QED BY <1>2, <2>1, <4>2 DEF Going
    <3>3. ASSUME NEW y \in Workers, p[y].job = P, ParentAt(p[y]) PROVE Going'
      <4>1. ~At(y, "idle")
        BY <3>3 DEF ParentAt, At
      <4>2. (p'[y].job = P /\ ParentAt(p'[y])) \/ Awaits(P)'
        BY <3>3, <4>1
      <4>3. ParentWorks'
        <5> HIDE DEF ParentWorks
        <5> QED BY <4>2, ParentIs
      <4> QED BY <1>2, <2>1, <4>3 DEF Going
    <3>4. (\E y \in Workers : p[y].job = P /\ ParentAt(p[y])) \/ Awaits(P)
      <4> HIDE DEF ParentWorks
      <4> QED BY <3>1, ParentIs
    <3> QED BY <3>2, <3>3, <3>4
  <2>2. CASE ToSpawn = {}
    <3>1. ChildWorks
      BY <1>1, <2>2 DEF Progress, Going
    <3>2. ASSUME NEW c \in Children, Awaits(c) PROVE ChildWorks'
      <4>1. Awaits(c)' \/ \E y \in Workers : p'[y].pc = "adv" /\ p'[y].job = c /\ ~p'[y].late
        BY <1>3, <3>2
      <4>2. \A y \in Workers : p'[y].pc = "adv" => Works(p[y])'
        BY DEF Works
      <4> QED BY <4>1, <4>2 DEF ChildWorks
    <3>3. ASSUME NEW y \in Workers, p[y].job \in Children, Works(p[y]) PROVE ChildWorks'
      <4>1. ~At(y, "idle")
        BY <3>3 DEF Works, At
      <4>2. p'[y] = p[y] \/ \E j \in Jobs : j \in Children /\ Awaits(j)'
        BY <3>3, <4>1
      <4>3. CASE p'[y] = p[y]
        <5>1. Works(p'[y])
          BY <3>3, <4>3
        <5>2. Works(p[y])'
          BY <5>1, WorksStill
        <5> QED BY <3>3, <4>3, <5>2 DEF ChildWorks
      <4> QED BY <4>2, <4>3 DEF ChildWorks
    <3>4. (\E c \in Children : row[c] = "active") => ChildWorks'
      BY DEF ChildWorks
    <3>5. ChildWorks'
      BY <3>1, <3>2, <3>3, <3>4 DEF ChildWorks
    <3> QED BY <1>2, <2>2, <3>5 DEF Going
  <2> QED BY <2>1, <2>2
<1>5. ASSUME NEW m \in Legs, Ready(m)' PROVE Taken(m)'
  <2>1. Ready(m)
    <3> HIDE DEF View
    <3> QED BY <1>2, <1>5 DEF Ready, Queueable, DepsSatisfied
  <2>2. Taken(m)
    BY <1>1, <2>1 DEF Progress
  <2>3. ASSUME NEW c \in Children, Awaits(c) PROVE Taken(m)'
    <3>1. Awaits(c)' \/ \E y \in Workers : p'[y].pc = "adv" /\ p'[y].job = c /\ ~p'[y].late
      BY <1>3, <2>3
    <3>2. \A y \in Workers : p'[y].pc = "adv" /\ p'[y].job = c /\ ~p'[y].late => Takes(p[y], m)'
      BY DEF Takes
    <3> QED BY <3>1, <3>2 DEF Taken
  <2>4. ASSUME NEW y \in Workers, Takes(p[y], m) PROVE Taken(m)'
    <3>1. ~At(y, "idle") /\ p[y].job \in Children
      BY <2>4 DEF Takes, At
    <3>2. p'[y] = p[y] \/ \E j \in Jobs : j \in Children /\ Awaits(j)'
      BY <3>1
    <3>3. CASE p'[y] = p[y]
      <4>1. Takes(p'[y], m)
        BY <2>4, <3>3
      <4>2. Takes(p[y], m)'
        BY <4>1, TakesStill
      <4> QED BY <4>2 DEF Taken
    <3> QED BY <3>2, <3>3 DEF Taken
  <2> QED BY <2>2, <2>3, <2>4 DEF Taken
<1>6. ASSUME NEW l \in Legs, ForHuman(l)' PROVE Returns(l)'
  <2>1. ForHuman(l) /\ View'[l] = View[l]
    <3> HIDE DEF View
    <3> QED BY <1>2, <1>6 DEF ForHuman
  <2>2. PICK c \in Children : c = <<l, View[l].k>>
    <3>1. row' \in [Children -> States] /\ TypeOK
      BY DEF Known, TypeOK
    <3> QED BY <3>1, Listed
  <2>3. ComesBack(l, c)
    <3>1. Returns(l)
      BY <1>1, <2>1 DEF Progress
    <3> HIDE DEF View, Returns
    <3> QED BY <2>2, <3>1, ReturnsIs
  <2>4. Pending(c)'
    BY <2>3 DEF ComesBack, Pending
  <2>5. \A y \in Workers : Of(y, c)' => Back(l, p'[y])
    <3> SUFFICES ASSUME NEW y \in Workers, Of(y, c)' PROVE Back(l, p'[y])
      OBVIOUS
    <3>1. CASE p'[y] = p[y]
      BY <2>3, <3>1 DEF ComesBack, Of, At
    <3>2. CASE p'[y].pc = "adv" /\ ~p'[y].late
      BY <3>2 DEF Back
    <3>3. p'[y].pc # "idle"
      BY DEF Of, At
    <3> QED BY <3>1, <3>2, <3>3
  <2>6. c = <<l, View'[l].k>>
    <3> HIDE DEF View
    <3> QED BY <2>1, <2>2
  <2> HIDE DEF View, Pending, ComesBack
  <2> QED BY <2>1, <2>4, <2>5, <2>6, ReturnsAgain
<1> QED BY <1>4, <1>5, <1>6

LEMMA TickProgress ==
    ASSUME Known, Progress, NEW j \in Jobs, TickRetry(j) PROVE Progress'
<1>a. /\ Attended /\ p \in [Actors -> Activity] /\ Tick \in Workers /\ Workers \subseteq Actors
      /\ Jobs \subseteq Workers /\ Workers = Jobs \cup {Tick}
  BY ActorSets DEF Known, TypeOK, Workers
<1>1. /\ UNCHANGED <<plan, row, mark, cont, task>> /\ At(Tick, "idle") /\ At(j, "idle")
      /\ p'[Tick] = Advancing(j, FALSE) /\ \A y \in Workers : y # Tick => p'[y] = p[y]
  BY <1>a DEF TickRetry, Goto, store, still
<1>2. p'[Tick].pc = "adv" /\ p'[Tick].job = j /\ ~p'[Tick].late
  <2>1. /\ Advancing(j, FALSE).pc = "adv" /\ Advancing(j, FALSE).job = j
        /\ ~Advancing(j, FALSE).late
    BY AdvancingIs
  <2> QED BY <1>1, <2>1
<1>3. \A i \in Jobs : Awaits(i) =>
         Awaits(i)' \/ \E y \in Workers : p'[y].pc = "adv" /\ p'[y].job = i /\ ~p'[y].late
  <2>1. ASSUME NEW i \in Jobs, Awaits(i), i # j PROVE Awaits(i)'
    <3>1. \A y \in Workers : ~Of(y, i)'
      BY <1>1, <1>2, <2>1 DEF Awaits, Of, At
    <3> QED BY <1>1, <2>1, <3>1 DEF Awaits, Pending
  <2> QED BY <1>a, <1>2, <2>1
<1> QED BY <1>1, <1>2, <1>3, TakenUpProgress

LEMMA HumanProgress ==
    ASSUME Known, Progress, UNCHANGED <<plan, row, mark, cont, task>>,
           \A y \in Workers : p'[y] = p[y]
    PROVE  Progress'
<1>1. \A j \in Jobs : Awaits(j) => Awaits(j)'
  BY DEF Awaits, Of, At, Pending
<1> QED BY <1>1, TakenUpProgress

LEMMA CrashProgress ==
    ASSUME Known, Progress, Crash PROVE Progress'
<1>a. /\ Attended /\ p \in [Actors -> Activity] /\ Workers \subseteq Actors /\ crashes \in 0..MaxCrashes
      /\ Chat \notin Workers /\ MaxCrashes \in Nat
  BY ActorSets, DelegationAssumption DEF Known, TypeOK, Humans
<1>1. /\ UNCHANGED <<plan, row, mark, cont, task>>
      /\ \A y \in Workers : p'[y] = Idle
      /\ crashes < MaxCrashes
  BY <1>a DEF Crash, store
<1>2. plan.mortal = {}
  BY <1>a, <1>1 DEF Known, Rests
<1>3. \A y \in Workers : ~At(y, "idle") => Pending(p[y].job) /\ p[y].job \in Jobs
  BY <1>a, <1>2 DEF Attended, Activity
<1>4. \A y \in Workers : p'[y].pc = "idle"
  BY <1>1 DEF Idle
<1>5. \A j \in Jobs : Pending(j) => Awaits(j)'
  BY <1>1, <1>4 DEF Awaits, Of, At, Pending
<1>6. \A j \in Jobs : Awaits(j) => Awaits(j)'
  BY <1>5 DEF Awaits
<1>7. \A y \in Workers : ~At(y, "idle") => \E j \in Jobs : j = p[y].job /\ Awaits(j)'
  BY <1>3, <1>5
<1> QED BY <1>1, <1>4, <1>6, <1>7, TakenUpProgress

LEMMA ProgressNext ==
    ASSUME Known, Progress, [Next]_vars PROVE Progress'
<1>a. TypeOK /\ p \in [Actors -> Activity] /\ Workers \subseteq Actors /\ {Poller, Chat} \subseteq Humans
      /\ Workers \cap Humans = {}
  BY ActorSets DEF Known, TypeOK, Humans
<1>1. ASSUME NEW x \in Actors, Engine(x) PROVE Progress'
  BY <1>1, EngineProgress
<1>2. ASSUME NEW c \in Children, Run(c) \/ Attach(c) PROVE Progress'
  BY <1>2, RunProgress
<1>3. ASSUME NEW j \in Jobs, TickRetry(j) PROVE Progress'
  BY <1>3, TickProgress
<1>4. ASSUME NEW x \in Humans,
             (\E verb \in Verbs, t \in Texts : Human(x, verb, t)) \/ (x = Poller /\ Expire)
      PROVE  Progress'
  <2>1. UNCHANGED <<plan, store, mark>> /\ \E r : Goto(x, r)
    BY <1>a, <1>4, HumanStarts
  <2>2. \A y \in Workers : p'[y] = p[y]
    BY <1>a, <2>1 DEF Goto
  <2>3. UNCHANGED <<plan, row, mark, cont, task>>
    BY <2>1 DEF store
  <2> QED BY <2>2, <2>3, HumanProgress
<1>5. ASSUME Trip \/ UNCHANGED vars PROVE Progress'
  <2>1. UNCHANGED <<plan, row, mark, cont, task, p>>
    BY <1>5 DEF Trip, vars, store
  <2> QED BY <2>1, HumanProgress
<1>6. ASSUME Crash PROVE Progress'
  BY <1>6, CrashProgress
<1> QED BY <1>a, <1>1, <1>2, <1>3, <1>4, <1>5, <1>6 DEF Next

LEMMA ProgressInit == Init => Progress
<1> SUFFICES ASSUME Init PROVE Progress
  OBVIOUS
<1>a. TypeOK /\ plan \in Plans
  BY DInvInit DEF DInv, Init
<1>b. /\ row = [c \in Children |-> "absent"]
      /\ p = [x \in Actors |-> IF x = P THEN Advancing(P, FALSE) ELSE Idle]
  BY DEF Init
<1>c. NLegs \in Nat \ {0} /\ 0 \in Attempts /\ \A l \in Legs : \A d \in plan.deps[l] : d < l
  BY <1>a, DelegationAssumption DEF Attempts
<1>1. \A l \in Legs : View[l].st = "absent"
  <2> SUFFICES ASSUME NEW l \in Legs PROVE View[l].st = "absent"
    OBVIOUS
  <2>1. View[l].st = row[<<l, CurrentIn(row, l)>>]
    BY ViewAt
  <2>2. CurrentIn(row, l) \in Attempts
    BY <1>a, CurrentInIs DEF TypeOK
  <2> HIDE DEF View, CurrentIn
  <2> QED BY <1>b, <2>1, <2>2 DEF Children
<1>2. ParentWorks
  <2>1. P \in Workers /\ p[P] = Advancing(P, FALSE)
    BY <1>b, ActorSets
  <2>2. Advancing(P, FALSE).pc = "adv" /\ Advancing(P, FALSE).job = P
    BY AdvancingIs
  <2> QED BY <2>1, <2>2 DEF ParentWorks
<1>3. ToSpawn # {}
  <2>1. 1 \in Legs
    BY <1>c DEF Legs
  <2>2. plan.deps[1] = {}
    <3>1. plan.deps[1] \subseteq Legs
      BY <1>a, <2>1, PlanType
    <3>2. \A d \in plan.deps[1] : d \in 1..NLegs /\ d < 1
      BY <1>c, <2>1, <3>1 DEF Legs
    <3> QED BY <1>c, <3>2
  <2>3. <<1, 0>> \in Children
    BY <1>c, <2>1 DEF Children
  <2> QED BY <1>b, <2>1, <2>2, <2>3 DEF ToSpawn
<1>4. \A m \in Legs : ~Ready(m)
  <2> SUFFICES ASSUME NEW m \in Legs, Ready(m) PROVE FALSE
    OBVIOUS
  <2>1. plan.deps[m] # {} /\ \A d \in plan.deps[m] : Succeeded(View[d].st)
    BY DEF Ready, Queueable, DepsSatisfied
  <2>2. plan.deps[m] \subseteq Legs
    BY <1>a, PlanType
  <2> HIDE DEF View
  <2> QED BY <1>1, <2>1, <2>2 DEF Succeeded
<1>5. \A l \in Legs : ~ForHuman(l)
  <2> HIDE DEF View
  <2> QED BY <1>1 DEF ForHuman, Failed
<1> QED BY <1>2, <1>3, <1>4, <1>5 DEF Progress, Going

\* A tree at rest in which P is undecided is one that nothing keeps going.
LEMMA AtRest ==
    ASSUME Known, Progress PROVE NeverStranded
<1> SUFFICES ASSUME \A x \in Actors : At(x, "idle"), \A c \in Children : row[c] # "active",
                    \A j \in Jobs : ~Pending(j), ~Open, ~Decided
             PROVE  FALSE
  BY DEF NeverStranded
<1>1. Undecided
  <2> SUFFICES ASSUME NEW j \in Jobs, Asks(j) PROVE FALSE
    BY DEF Undecided
  <2>1. NoHuman(plan)
    BY HumanPlans
  <2>2. reqs # <<>>
    BY DEF Known, Asked
  <2>3. Len(reqs) \in Nat /\ Len(reqs) > 0 /\ resolved \in Nat
    BY <2>2 DEF Known, TypeOK
  <2>4. resolved > 0
    BY <2>3 DEF Open
  <2> QED BY <2>1, <2>4 DEF Known, Asked, Continued, Decided
<1>2. \A j \in Jobs : ~Awaits(j)
  BY DEF Awaits
<1>3. P \in Jobs /\ Children \subseteq Jobs /\ Workers \subseteq Actors
  BY ActorSets
<1>4. ~ParentWorks
  BY <1>2, <1>3 DEF ParentWorks, At
<1>5. ~ChildWorks
  BY <1>2, <1>3 DEF ChildWorks, Works, At
<1> QED BY <1>1, <1>4, <1>5 DEF Progress, Going

LEMMA RestInvHolds == Spec => [](DInv /\ (Rests(plan) => RestInv))
<1> DEFINE Inv == DInv /\ (Rests(plan) => RestInv)
<1>1. Init => Inv
  BY DInvInit, AttendedInit, ContinuesInit, ProgressInit DEF RestInv
<1>2. Inv /\ [Next]_vars => Inv'
  <2> SUFFICES ASSUME Inv, [Next]_vars PROVE Inv'
    OBVIOUS
  <2>1. DInv'
    BY DInvStep
  <2>2. plan' = plan
    BY RowsStep DEF DInv
  <2>3. ASSUME Rests(plan)' PROVE RestInv'
    <3>1. Rests(plan)
      BY <2>2, <2>3 DEF Rests, NoHuman
    <3>2. Known /\ Progress /\ TypeOK'
      BY <2>1, <3>1 DEF DInv, RestInv, Known
    <3>3. Attended'
      BY <3>2, AttendedNext DEF Known
    <3>4. Continues' /\ Asked'
      BY <3>2, ContinuesNext
    <3>5. Progress'
      BY <3>2, ProgressNext
    <3> QED BY <3>3, <3>4, <3>5 DEF RestInv
  <2> QED BY <2>1, <2>3
<1> QED BY <1>1, <1>2, PTL DEF Spec

\* A tree whose plan is one of Rests comes to rest only with a continuation, a
\* blocked task or a question to a human, for any number of legs, attempts,
\* rounds and crashes (retryPendingJobAdvancements, advanceDelegations,
\* enqueueFinalizeContinuation and pauseAwaitingHuman between them leave no tree
\* behind).
THEOREM RestsDecided == Spec => [](Rests(plan) => NeverStranded)
<1>1. DInv /\ (Rests(plan) => RestInv) => (Rests(plan) => NeverStranded)
  BY AtRest DEF DInv, RestInv, Known
<1> QED BY <1>1, RestInvHolds, PTL

\* handleDelegationLoop, handleDelegationPreflightFailure: a plan whose refusal has
\* its event has its corrective (or final) continuation too when the advancement
\* that refused it is over.
RefusalAnswered == evRefused /\ mark[P] = "done" => cont.kind # "none"

\* A plan of Rests that was turned down is answered by a continuation before its
\* advancement is over.  Where the daemon may die, Rests has no plan whose refusal
\* has an event: the answer is lost in a crash alone (handleDelegationLoop,
\* handleDelegationPreflightFailure).
THEOREM RefusalsAnswered == Spec => [](Rests(plan) => RefusalAnswered)
<1>1. DInv /\ (Rests(plan) => RestInv) => (Rests(plan) => RefusalAnswered)
  <2> SUFFICES ASSUME DInv, RestInv, evRefused, mark[P] = "done"
               PROVE  Continued
    BY DEF RefusalAnswered, Continued
  <2>1. ASSUME NEW x \in Workers, p[x].job = P, p[x].pc \in {"cont", "correct", "fin", "finq"}
        PROVE  FALSE
    <3>1. ~At(x, "idle") /\ ~At(x, "attach") /\ P \notin Children
      BY <2>1, ActorSets DEF At
    <3>2. ~p[x].late
      BY <2>1, <3>1 DEF RestInv, Attended, Placed
    <3>3. Pending(P)
      BY <2>1, <3>1, <3>2 DEF RestInv, Attended
    <3> QED BY <3>3 DEF Pending
  <2> QED BY <2>1 DEF RestInv, Continues
<1> QED BY <1>1, RestInvHolds, PTL
=============================================================================
