-------------------------------- MODULE FanIn --------------------------------
(***************************************************************************)
(* What a coordinator is promised about the work it fans out: a leg starts *)
(* when everything it depends on has succeeded; a leg that failed is tried *)
(* again while it has attempts left; and the tree is joined once, either   *)
(* by a synthesis of legs that have all come to an end (or of which one    *)
(* asked for it by failing), by a final word after a human did not answer, *)
(* or by blocking the task.  No crash, no store, no stale reads: Delegation*)
(* implements this.                                                        *)
(***************************************************************************)
EXTENDS Naturals

CONSTANTS Legs

VARIABLES
    plan,     \* deps, retry, policy of each leg; who may ask a human
    leg,      \* leg -> idle, active, good, bad
    tries,    \* leg -> attempts so far after the first
    outcome   \* open, synthesis, final or blocked

vars == <<plan, leg, tries, outcome>>

\* leg l failed its last attempt
Gone(l) == leg[l] = "bad" /\ tries[l] >= plan.retry[l]

\* The legs that can never start: the least set that has every leg with a
\* dependency gone or in the set.
Lost ==
    {l \in Legs : \A S \in SUBSET Legs :
        (\A m \in Legs : (\E d \in plan.deps[m] : Gone(d) \/ d \in S) => m \in S) => l \in S}

Ended(l) == leg[l] = "good" \/ Gone(l) \/ (leg[l] = "idle" /\ l \in Lost)

GoneWith(policy) == \E l \in Legs : Gone(l) /\ plan.policy[l] = policy

Init ==
    /\ leg = [l \in Legs |-> "idle"]
    /\ tries = [l \in Legs |-> 0]
    /\ outcome = "open"

Start(l) ==
    /\ leg[l] = "idle" /\ \A d \in plan.deps[l] : leg[d] = "good"
    /\ leg' = [leg EXCEPT ![l] = "active"]
    /\ UNCHANGED <<plan, tries, outcome>>

Finish(l) ==
    /\ leg[l] = "active"
    /\ \E r \in {"good", "bad"} : leg' = [leg EXCEPT ![l] = r]
    /\ UNCHANGED <<plan, tries, outcome>>

Again(l) ==
    /\ leg[l] = "bad" /\ tries[l] < plan.retry[l]
    /\ leg' = [leg EXCEPT ![l] = "active"]
    /\ tries' = [tries EXCEPT ![l] = @ + 1]
    /\ UNCHANGED <<plan, outcome>>

Synthesize ==
    /\ outcome = "open"
    /\ (\A l \in Legs : Ended(l)) \/ GoneWith("escalate")
    /\ outcome' = "synthesis"
    /\ UNCHANGED <<plan, leg, tries>>

Conclude ==
    /\ outcome = "open"
    /\ GoneWith("escalate_human") \/ plan.asks # {}
    /\ outcome' = "final"
    /\ UNCHANGED <<plan, leg, tries>>

Block ==
    /\ outcome = "open"
    /\ GoneWith("block_parent")
    /\ outcome' = "blocked"
    /\ UNCHANGED <<plan, leg, tries>>

Next ==
    \/ \E l \in Legs : Start(l) \/ Finish(l) \/ Again(l)
    \/ Synthesize \/ Conclude \/ Block

Spec == Init /\ [][Next]_vars
=============================================================================
