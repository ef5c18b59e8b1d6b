---------------------------- MODULE MCReviewLoop ----------------------------
EXTENDS ReviewLoop

CONSTANTS a, b

P(rs, auto_, fg_, vs, ci_, ms, n, follow_) ==
    [reviewers |-> rs, auto |-> auto_, fg |-> fg_, verdicts |-> vs, ci |-> ci_, moves |-> ms,
     heads |-> n, follow |-> follow_]
Any == {"approved", "changes", "blocked"}

Loop ==
    { \* nobody reviews, and a foreground process meets the poll
      P({}, TRUE, TRUE, {}, {}, {"merge", "crash"}, 3, TRUE),
      \* one reviewer: people merge, cancel and ask; close and reopen; the switch
      P({a}, TRUE, FALSE, Any, {}, {"merge", "drop", "latecrash", "ask"}, 3, TRUE),
      P({a}, TRUE, FALSE, {"approved", "changes"}, {}, {"close", "reopen", "push"}, 3, TRUE),
      P({a}, FALSE, FALSE, {"approved"}, {}, {"flip", "ask", "push", "base"}, 3, TRUE),
      \* CI, and two reviewers who may disagree
      P({a}, TRUE, FALSE, {"approved", "changes"}, {"green", "red"}, {"ask"}, 2, TRUE),
      P({a, b}, TRUE, FALSE, {"approved", "changes"}, {}, {}, 2, TRUE),
      \* nobody keeps the worktree at the heads of the reviews
      P({a}, TRUE, FALSE, {"approved", "changes"}, {}, {"close", "latecrash"}, 3, FALSE),
      P({a}, TRUE, FALSE, {"approved", "changes"}, {}, {"base", "latecrash"}, 3, FALSE),
      P({a}, TRUE, FALSE, {"approved", "changes"}, {}, {"merge", "drop", "ask"}, 3, FALSE),
      P({a, b}, TRUE, FALSE, {"approved", "changes"}, {}, {}, 2, FALSE) }
=============================================================================
