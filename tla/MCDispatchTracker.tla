-------------------------- MODULE MCDispatchTracker --------------------------
(* Constants of DispatchTracker for TLC: repositories r1 and r2, jobs j1 to  *)
(* j3, a task worktree w1, sessions s1 to s3.                                *)
EXTENDS DispatchTracker

CONSTANTS r1, r2, j1, j2, j3, w1, s1, s2, s3

\* One repository
OneRepo == [j \in Jobs |-> r1]

\* j1 and j2 in the first repository, j3 in the second
TwoRepos == [j \in Jobs |-> IF j = j3 THEN r2 ELSE r1]

\* Every job in the checkout of its repository
RepoKeys == RepoOf

\* j1 in a task worktree, the others in the checkout of their repository
TaskKeys == [RepoOf EXCEPT ![j1] = w1]

\* A session each
OwnSessions == [j \in Jobs |-> CASE j = j1 -> s1 [] j = j2 -> s2 [] OTHER -> s3]

\* j1 runs in a shell, without a session; the others share one
ShellShared == [j \in Jobs |-> IF j = j1 THEN NoSession ELSE s2]

\* j1 runs in a shell, the others have a session each
OneShell == [j \in Jobs |-> CASE j = j1 -> NoSession [] j = j2 -> s2 [] OTHER -> s3]

LimitTwo == [r \in Repos |-> 2]
=============================================================================
