---------------------------- MODULE MCDelegation ----------------------------
(* Constants of Delegation for TLC: the plans of each run.                   *)
EXTENDS Delegation

\* Independent legs, no retries, failures ignored, nothing special
Base ==
    [deps |-> [l \in Legs |-> {}], retry |-> [l \in Legs |-> 0],
     policy |-> [l \in Legs |-> "continue"], rule |-> [l \in Legs |-> "summary"],
     quorum |-> 0, asks |-> {}, orchestrate |-> FALSE, refused |-> "no",
     nudged |-> FALSE, stalled |-> FALSE, replan |-> FALSE,
     mortal |-> {}, alloc |-> FALSE, trips |-> FALSE, near |-> FALSE, ttl |-> TRUE]

\* The last leg depends on all others.
Chain == [Base EXCEPT !.deps[NLegs] = 1..(NLegs - 1)]

\* For crashes: retries, dependents, blocks, rounds that nobody answers
CrashPlans ==
    {Base,
     [Chain EXCEPT !.retry[1] = 1],
     [Base EXCEPT !.policy[1] = "block_parent"],
     [Chain EXCEPT !.policy[1] = "escalate_human"],
     [Base EXCEPT !.asks = {0}]}

\* For humans, backstops and refusals: an automatic retry and a human's, a
\* coordinator that asks, and each way a plan may be turned down or fail
HumanPlans ==
    {[Chain EXCEPT !.policy[1] = "escalate_human", !.retry[1] = 1, !.mortal = {2}, !.ttl = FALSE],
     [Base EXCEPT !.asks = {0}, !.near = TRUE],
     [Base EXCEPT !.policy = [l \in Legs |-> "escalate"], !.retry[1] = 1],
     [Base EXCEPT !.trips = TRUE],
     [Chain EXCEPT !.orchestrate = TRUE, !.alloc = TRUE],
     [Chain EXCEPT !.alloc = TRUE, !.retry[1] = 1]}
    \cup {[Base EXCEPT !.policy[1] = "block_parent", !.orchestrate = o, !.mortal = {1}] :
              o \in BOOLEAN}
    \cup {[Base EXCEPT !.rule[1] = r, !.quorum = 2, !.replan = b, !.orchestrate = b] :
              r \in {"vote", "quorum", "verify"}, b \in BOOLEAN}
    \cup {[Base EXCEPT !.stalled = TRUE, !.nudged = b] : b \in BOOLEAN}
    \cup {[Base EXCEPT !.refused = r, !.nudged = b] :
              r \in {"depth", "width", "loop", "preflight"}, b \in BOOLEAN}

\* A leg that asks a human
AskPlan == {[Base EXCEPT !.asks = {1}, !.ttl = FALSE]}
=============================================================================
