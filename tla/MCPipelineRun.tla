--------------------------- MODULE MCPipelineRun ---------------------------
(* Instances of PipelineRun: pipelines of three stages. *)
EXTENDS PipelineRun

Base ==
    [kind |-> [s \in Stages |-> "shell"], needs |-> [s \in Stages |-> {}],
     source |-> [s \in Stages |-> 0], retry |-> [s \in Stages |-> 0],
     timed |-> {}, after |-> FALSE, runs |-> 1, resumes |-> 1, crashes |-> 1,
     cancels |-> {"blocked", "failed"}]

\* An implementation, its review, and the automatic merge of its pull request.
Ship ==
    [Base EXCEPT !.kind = <<"implement", "review", "auto">>, !.needs = <<{}, {1}, {1, 2}>>,
                 !.source = <<0, 1, 1>>, !.timed = {3}]

\* An implementation, the wait for a human to merge it, and what follows.
Land ==
    [Base EXCEPT !.kind = <<"implement", "gate", "produce">>, !.needs = <<{}, {1}, {2}>>,
                 !.source = <<0, 1, 0>>, !.timed = {2}]

\* A coordinator with a timeout, and what follows.
Tree ==
    [Base EXCEPT !.kind = <<"orchestrate", "produce", "shell">>, !.needs = <<{}, {1}, {2}>>,
                 !.timed = {1}, !.resumes = 0]

\* Two branches, one with a retry, and a stage that needs it.
Fork == [Base EXCEPT !.needs = <<{}, {}, {1}>>, !.retry = <<1, 0, 0>>]

\* A chain with two runs, for the schedule and the trigger.
Twice == [Base EXCEPT !.needs = <<{}, {1}, {2}>>, !.after = TRUE, !.runs = 2,
                       !.resumes = 0]

\* A chain cancelled while it runs, beside the scans that advance it.
Stop ==
    [Base EXCEPT !.needs = <<{}, {1}, {2}>>, !.resumes = 0, !.crashes = 0,
                 !.cancels = {"running"}]

RunSpecs == {Ship, Land, Tree, Fork, Twice, Stop}
HollowSpecs == {[Base EXCEPT !.crashes = 0, !.cancels = {}]}
=============================================================================
