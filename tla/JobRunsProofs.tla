---------------------------- MODULE JobRunsProofs ----------------------------
(***************************************************************************)
(* Proofs about JobRuns, for every set of jobs and sessions, every mix of  *)
(* foreground, daemon and tree jobs and any number of crashes.             *)
(***************************************************************************)
EXTENDS JobRuns, TLAPS

-----------------------------------------------------------------------------
(* The inductive invariant behind SessionExclusive *)

InPass == pass \notin {"down", "idle"}
Starting == pass \in {"down", "s_expired", "s_boot", "s_bootlocks", "s_stale", "s_settle"}

\* A row's key is the session of its owner; a row with a live token belongs to
\* a worker that has acquired and not yet released, and is of this boot.
RowInv ==
    \A s \in Sessions : HasRow(s) =>
        /\ SessionOf[lock[s].owner] = s
        /\ lock[s].tok \in Procs =>
              /\ wk[lock[s].tok][lock[s].owner] \notin {"idle", "preflight"}
              /\ ~lock[s].foreign

\* Workers: none for a row not yet inserted, none of the daemon's before its
\* startup is over, foreground ones for foreground jobs only, no cover before
\* the acquisition; a run under way was claimed on this boot.
WorkerInv ==
    /\ \A p \in Procs, j \in Jobs : state[j] = "absent" => wk[p][j] = "idle"
    /\ \A j \in listed : state[j] # "absent"
    /\ Starting => listed = {} /\ \A j \in Jobs : wk["daemon"][j] = "idle"
    /\ \A j \in Jobs \ FgJobs : wk["fg"][j] = "idle"
    /\ \A p \in Procs, j \in Jobs :
          wk[p][j] \in {"idle", "preflight"} => cover[p][j] = "none"
    /\ \A p \in Procs, j \in foreign : wk[p][j] \notin {"running", "deferring"}

\* A covered worker's row is its own; past the lease, only a daemon run whose
\* row is running is covered.  A covered orphan's row is unexpired.
WorkerCovered(p, j) ==
    wk[p][j] \in {"locked", "running"} /\ cover[p][j] = "held" =>
        /\ OwnRow(p, j)
        /\ lock[SessionOf[j]].expired =>
             /\ p = "daemon" /\ j \notin FgJobs
             /\ wk[p][j] = "running" /\ state[j] = "running"

OrphanCovered(j) ==
    cover["orphan"][j] = "held" =>
        /\ OwnRow("stale", j)
        /\ ~lock[SessionOf[j]].expired /\ ~lock[SessionOf[j]].foreign

CoverInv == /\ \A p \in Procs, j \in Jobs : WorkerCovered(p, j)
            /\ \A j \in Jobs : OrphanCovered(j)

\* Within a pass, the daemon's rows past their lease have an owner that the
\* pass skips, and the pass only works on jobs that it does not skip.
SkipInv ==
    /\ InPass => \A s \in Sessions :
          HasRow(s) /\ lock[s].expired /\ lock[s].tok = "daemon" => lock[s].owner \in skip
    /\ pass \in {"s_stale", "t_stale"} => todo \cap skip = {} /\ cur \notin skip
    /\ cur # NoJob => pass \in {"s_stale", "t_stale"}

Inv == TypeOK /\ RowInv /\ WorkerInv /\ CoverInv /\ SkipInv

(* What ActiveRunAccounted needs besides, when only the barrier dispatches *)

InFlightInv == InPass => InFlight \subseteq skip /\ listed = {}
RetryInv == \A j \in Jobs : op[j] = "cancelled" => state[j] = "cancelled" /\ ~unsettled[j]

BarrierInv == Inv /\ InFlightInv /\ RetryInv /\ ActiveRunAccounted
(* What KilledLegStaysDown needs besides *)

\* A worker before its claim, or a listing, has not been overtaken by another
\* run of the leg; operators only touch their jobs; once a kill is past a leg's
\* cancel, the leg is queued only where a worker that ran it still has to fail.
KillInv ==
    /\ \A j \in Legs :
          /\ wk["daemon"][j] \in {"preflight", "locked"} => state[j] # "running"
          /\ j \in listed /\ state[j] = "running" =>
                wk["daemon"][j] \in {"running", "failing"}
    /\ \A j \in Jobs \ OpJobs : op[j] = "idle"
    /\ \A j \in Legs \ OpJobs :
          killed /\ ktodo[j] # "cancel" /\ state[j] = "queued" =>
             /\ wk["daemon"][j] \notin {"preflight", "locked"}
             /\ j \in listed => wk["daemon"][j] \in {"running", "failing"}

-----------------------------------------------------------------------------
(* Type correctness *)

\* The owners of expired rows are jobs.
LEMMA OwnersAreJobs == TypeOK => ExpiredOwners \subseteq Jobs
<1> SUFFICES ASSUME TypeOK, NEW s \in Sessions, HasRow(s) PROVE lock[s].owner \in Jobs
  BY DEF ExpiredOwners
<1> QED
  BY DEF TypeOK, LockRow, HasRow

\* Every step of the program keeps the types.
LEMMA TypeStep == TypeOK /\ [Next]_vars => TypeOK'
<1> SUFFICES ASSUME TypeOK, [Next]_vars PROVE TypeOK'
  OBVIOUS
<1> USE ConstantsAssumption
         DEF TypeOK, rows, daemonVars, operatorVars, Procs, Holders, States, Phases,
             Covers, Passes, LockRow, HasRow
<1>1. ASSUME NEW j \in Jobs, Enqueue(j) PROVE TypeOK'
  BY <1>1 DEF Enqueue, SetState
<1>2. ASSUME NEW j \in Jobs, FgDispatch(j) PROVE TypeOK'
  BY <1>2 DEF FgDispatch, SetState, SetPhase
<1>3. ASSUME NEW j \in Jobs, List(j) PROVE TypeOK'
  BY <1>3 DEF List
<1>4. ASSUME NEW j \in Jobs, DropListed(j) PROVE TypeOK'
  BY <1>4 DEF DropListed
<1>5. ASSUME NEW j \in Jobs, Dispatch(j) PROVE TypeOK'
  BY <1>5 DEF Dispatch, SetPhase
<1>6. ASSUME NEW j \in Jobs, NEW st \in States, PreflightFail(j, st) PROVE TypeOK'
  BY <1>6, ZenonT(60) DEF PreflightFail, Cas, SetState, SetPhase
<1>7. ASSUME NEW j \in Jobs, PreflightDefer(j) PROVE TypeOK'
  BY <1>7 DEF PreflightDefer, SetPhase
<1>8. ASSUME NEW j \in Jobs, HoldElapse(j) PROVE TypeOK'
  BY <1>8 DEF HoldElapse
<1>9. ASSUME NEW p \in Procs, NEW j \in Jobs, Acquire(p, j) PROVE TypeOK'
  <2>1. wk' \in [Procs -> [Jobs -> Phases]]
    BY <1>9 DEF Acquire, SetPhase
  <2>2. CASE SessionOf[j] \notin Sessions
    BY <1>9, <2>1, <2>2 DEF Acquire
  <2>3. CASE SessionOf[j] \in Sessions
    <3> DEFINE r == [owner |-> j, tok |-> p, expired |-> FALSE, foreign |-> FALSE]
    <3>0. r \in LockRow
      OBVIOUS
    <3>1. lock' \in [Sessions -> LockRow \cup {NoLock}]
      <4>1. lock' = [lock EXCEPT ![SessionOf[j]] = r]
        BY <1>9, <2>3 DEF Acquire
      <4> HIDE DEF r, LockRow
      <4> QED
        BY <4>1, <3>0
    <3>2. cover' \in [Holders -> [Jobs -> Covers]]
      BY <1>9, <2>3, SMTT(40) DEF Acquire
    <3> QED
      BY <1>9, <2>1, <3>1, <3>2 DEF Acquire
  <2> QED
    BY <2>2, <2>3
<1>10. ASSUME NEW j \in Jobs, DaemonBusy(j) PROVE TypeOK'
  BY <1>10 DEF DaemonBusy, SetPhase
<1>11. ASSUME NEW j \in Jobs, FgBusy(j) PROVE TypeOK'
  BY <1>11, ZenonT(60) DEF FgBusy, Cas, SetState, SetPhase
<1>12. ASSUME NEW s \in Sessions, Heartbeat(s) PROVE TypeOK'
  <2>1. lock[s] \in LockRow
    BY <1>12 DEF Heartbeat
  <2>2. lock' \in [Sessions -> LockRow \cup {NoLock}]
    BY <1>12, <2>1 DEF Heartbeat
  <2>3. cover' \in [Holders -> [Jobs -> Covers]]
    BY <1>12, <2>1 DEF Heartbeat
  <2> QED
    BY <1>12, <2>2, <2>3 DEF Heartbeat
<1>13. ASSUME NEW s \in Sessions, LeaseLapse(s) PROVE TypeOK'
  <2>1. lock[s] \in LockRow
    BY <1>13 DEF LeaseLapse
  <2>2. lock' \in [Sessions -> LockRow \cup {NoLock}]
    BY <1>13, <2>1 DEF LeaseLapse
  <2>3. cover' \in [Holders -> [Jobs -> Covers]]
    BY <1>13, <2>1 DEF LeaseLapse, Uncover
  <2> QED
    BY <1>13, <2>2, <2>3 DEF LeaseLapse
<1>14. ASSUME NEW p \in Procs, NEW j \in Jobs, Release(p, j) PROVE TypeOK'
  BY <1>14, SMTT(40) DEF Release, SetPhase, DropRow
<1>15. ASSUME NEW j \in Jobs, NEW st \in States, SetupFail(j, st) PROVE TypeOK'
  BY <1>15, ZenonT(60) DEF SetupFail, Cas, SetState, SetPhase
<1>16. ASSUME NEW j \in Jobs, FgGiveUp(j) PROVE TypeOK'
  BY <1>16 DEF FgGiveUp, SetPhase
<1>17. ASSUME NEW p \in Procs, NEW j \in Jobs, Claim(p, j) PROVE TypeOK'
  <2>1. CASE state[j] = "queued"
    <3>1. /\ state' \in [Jobs -> States] /\ old' \in [Jobs -> BOOLEAN]
      BY <1>17, <2>1, ZenonT(60) DEF Claim, SetState
    <3>2. foreign' \subseteq Jobs /\ wk' \in [Procs -> [Jobs -> Phases]]
      BY <1>17, <2>1, SMTT(40) DEF Claim, SetPhase
    <3> QED
      BY <1>17, <3>1, <3>2 DEF Claim
  <2>2. CASE state[j] # "queued"
    BY <1>17, <2>2 DEF Claim, SetPhase, AfterError
  <2> QED
    BY <2>1, <2>2
<1>18. ASSUME NEW p \in Procs, NEW j \in Jobs, NEW st \in States, RunFinish(p, j, st) PROVE TypeOK'
  <2>1. CASE state[j] = "running"
    <3>1. state' \in [Jobs -> States] /\ old' \in [Jobs -> BOOLEAN]
      BY <1>18, <2>1, ZenonT(60) DEF RunFinish, Cas, SetState
    <3>2. wk' \in [Procs -> [Jobs -> Phases]]
      BY <1>18, <2>1 DEF RunFinish, SetPhase
    <3> QED
      BY <1>18, <3>1, <3>2 DEF RunFinish
  <2>2. CASE state[j] # "running"
    BY <1>18, <2>2 DEF RunFinish, Cas, SetPhase, AfterError
  <2> QED
    BY <2>1, <2>2
<1>19. ASSUME NEW p \in Procs, NEW j \in Jobs, RunFail(p, j) PROVE TypeOK'
  BY <1>19, ZenonT(60) DEF RunFail, Cas, SetState, SetPhase, AfterError
<1>20. ASSUME NEW p \in Procs, NEW j \in Jobs, RunAbort(p, j) PROVE TypeOK'
  BY <1>20 DEF RunAbort, SetPhase, AfterError
<1>21. ASSUME NEW j \in Jobs, DeferHold(j) PROVE TypeOK'
  BY <1>21 DEF DeferHold, SetPhase
<1>22. ASSUME NEW j \in Jobs, DeferRequeue(j) PROVE TypeOK'
  BY <1>22, ZenonT(60) DEF DeferRequeue, Cas, SetState, SetPhase
<1>23. ASSUME NEW p \in Procs, NEW j \in Jobs, AdvanceDone(p, j) PROVE TypeOK'
  BY <1>23, SMTT(40) DEF AdvanceDone, SetPhase, AfterError
<1>24. ASSUME NEW j \in Jobs, HandleRunError(j) PROVE TypeOK'
  <2>1. \/ UNCHANGED <<state, old>>
        \/ \E st \in States : SetState(j, st)
    BY <1>24 DEF HandleRunError
  <2>2. state' \in [Jobs -> States] /\ old' \in [Jobs -> BOOLEAN]
    <3>1. ASSUME NEW st \in States, SetState(j, st)
          PROVE  state' \in [Jobs -> States] /\ old' \in [Jobs -> BOOLEAN]
      BY <3>1 DEF SetState
    <3> QED
      BY <2>1, <3>1
  <2>3. \/ UNCHANGED unsettled
        \/ unsettled' = [unsettled EXCEPT ![j] = FALSE]
    BY <1>24 DEF HandleRunError
  <2>4. unsettled' \in [Jobs -> BOOLEAN]
    BY <2>3
  <2> QED
    BY <1>24, <2>2, <2>4 DEF HandleRunError, SetPhase
<1>25. ASSUME NEW j \in Jobs, Cancel(j) PROVE TypeOK'
  BY <1>25 DEF Cancel, SetState, CancelUncover, Uncover
<1>26. ASSUME NEW j \in Jobs, CancelDropLocks(j) PROVE TypeOK'
  BY <1>26 DEF CancelDropLocks, DropOwned, Uncover
<1>27. ASSUME NEW j \in Jobs, Supersede(j) PROVE TypeOK'
  BY <1>27 DEF Supersede, SetState, CancelUncover, Uncover
<1>28. ASSUME NEW j \in Jobs, RetryRead(j) PROVE TypeOK'
  BY <1>28 DEF RetryRead
<1>29. ASSUME NEW j \in Jobs, RetryCommit(j) PROVE TypeOK'
  <2>1. CASE state[j] = op[j]
    <3>1. state' \in [Jobs -> States] /\ old' \in [Jobs -> BOOLEAN]
      BY <1>29, <2>1, ZenonT(60) DEF RetryCommit, Cas, SetState
    <3>2. attempts' \in [Jobs -> 0 .. MaxBlockerRetries]
      BY <1>29, <2>1 DEF RetryCommit
    <3> QED
      BY <1>29, <2>1, <3>1, <3>2, ZenonT(60) DEF RetryCommit
  <2>2. CASE state[j] # op[j]
    BY <1>29, <2>2 DEF RetryCommit, Cas
  <2> QED
    BY <2>1, <2>2
<1>30. ASSUME NEW j \in Jobs, OpCrash(j) PROVE TypeOK'
  BY <1>30 DEF OpCrash
<1>31. ASSUME Kill PROVE TypeOK'
  BY <1>31 DEF Kill
<1>32. ASSUME NEW j \in Jobs, KillCancel(j) PROVE TypeOK'
  BY <1>32, ZenonT(60) DEF KillCancel, Cas, SetState
<1>33. ASSUME NEW j \in Jobs, KillUnlock(j) PROVE TypeOK'
  BY <1>33 DEF KillUnlock, DropOwned, Uncover
<1>34. ASSUME NEW j \in Jobs, Age(j) PROVE TypeOK'
  BY <1>34 DEF Age
<1>35. ASSUME DaemonStart PROVE TypeOK'
  <2>1. ExpiredOwners \subseteq Jobs
    BY OwnersAreJobs
  <2> QED
    BY <1>35, <2>1 DEF DaemonStart, Goto
<1>36. ASSUME TickStart PROVE TypeOK'
  BY <1>36 DEF TickStart, Goto, InFlight
<1>37. ASSUME NEW j \in Jobs, RecoverExpired(j) PROVE TypeOK'
  BY <1>37, ZenonT(60) DEF RecoverExpired, Cas, SetState
<1>38. ASSUME ReapExpired PROVE TypeOK'
  BY <1>38 DEF ReapExpired
<1>39. ASSUME RequeueForeignBoot PROVE TypeOK'
  BY <1>39 DEF RequeueForeignBoot
<1>40. ASSUME ReleaseForeignLocks PROVE TypeOK'
  BY <1>40 DEF ReleaseForeignLocks, Goto, StaleRows, CancelledRows
<1>41. ASSUME NEW j \in Jobs, CheckLease(j) PROVE TypeOK'
  BY <1>41 DEF CheckLease
<1>42. ASSUME RequeueStale PROVE TypeOK'
  BY <1>42, ZenonT(60) DEF RequeueStale, Cas, SetState
<1>43. ASSUME StaleDone PROVE TypeOK'
  <2>1. ExpiredOwners \subseteq Jobs
    BY OwnersAreJobs
  <2> QED
    BY <1>43, <2>1 DEF StaleDone, Goto, CancelledRows
<1>44. ASSUME NEW j \in Jobs, StartupSettle(j) PROVE TypeOK'
  BY <1>44 DEF StartupSettle
<1>45. ASSUME StartupDone PROVE TypeOK'
  BY <1>45 DEF StartupDone
<1>46. ASSUME NEW S \in SUBSET Jobs, DaemonCrash(S) PROVE TypeOK'
  BY <1>46, SMTT(40) DEF DaemonCrash, Inherit, Abandon
<1>47. ASSUME NEW j \in Jobs, NEW S \in SUBSET Jobs, FgCrash(j, S) PROVE TypeOK'
  <2>1. lock' \in [Sessions -> LockRow \cup {NoLock}]
    BY <1>47 DEF FgCrash, Abandon
  <2>2. Inherit("fg", S) \in [Holders -> [Jobs -> Covers]]
    BY DEF Inherit
  <2>3. cover' \in [Holders -> [Jobs -> Covers]]
    BY <1>47, <2>2 DEF FgCrash
  <2> QED
    BY <1>47, <2>1, <2>3 DEF FgCrash, SetPhase
<1>48. ASSUME Reboot PROVE TypeOK'
  <2>0. ASSUME NEW s \in Sessions
        PROVE  lock'[s] \in LockRow \cup {NoLock}
    <3>1. CASE HasRow(s)
      <4>1. lock[s] \in LockRow
        BY <3>1
      <4>2. lock'[s] = [lock[s] EXCEPT !.tok = "stale", !.foreign = BootAware]
        BY <1>48, <3>1 DEF Reboot
      <4>3. [lock[s] EXCEPT !.tok = "stale", !.foreign = BootAware] \in LockRow
        BY <4>1
      <4> QED
        BY <4>2, <4>3
    <3>2. CASE ~HasRow(s)
      BY <1>48, <3>2 DEF Reboot
    <3> QED
      BY <3>1, <3>2
  <2>1. lock' \in [Sessions -> LockRow \cup {NoLock}]
    <3> HIDE DEF LockRow
    <3> QED
      BY <1>48, <2>0 DEF Reboot
  <2>2. cover' \in [Holders -> [Jobs -> Covers]]
    BY <1>48, Zenon DEF Reboot
  <2> QED
    <3>1. foreign' \subseteq Jobs
      BY <1>48, Zenon DEF Reboot
    <3>0. crashes' \in 0 .. MaxCrashes
      <4>1. crashes < MaxCrashes /\ crashes' = crashes + 1
        BY <1>48, Zenon DEF Reboot
      <4> QED
        BY <4>1
    <3>2. wk' \in [Procs -> [Jobs -> Phases]]
      BY <1>48, Zenon DEF Reboot
    <3> QED
      BY <1>48, <2>1, <2>2, <3>0, <3>1, <3>2 DEF Reboot
<1>49. ASSUME NEW j \in Jobs, OrphanExit(j) PROVE TypeOK'
  BY <1>49 DEF OrphanExit
<1>50. CASE UNCHANGED vars
  BY <1>50 DEF vars, rows, daemonVars, operatorVars
<1> HIDE DEF TypeOK, rows, daemonVars, operatorVars, Procs, Holders, States, Phases,
             Covers, Passes, LockRow, HasRow
<1>51. QED
  BY <1>1, <1>2, <1>3, <1>4, <1>5, <1>6, <1>7, <1>8, <1>9, <1>10, <1>11, <1>12, <1>13,
     <1>14, <1>15, <1>16, <1>17, <1>18, <1>19, <1>20, <1>21, <1>22, <1>23, <1>24, <1>25,
     <1>26, <1>27, <1>28, <1>29, <1>30, <1>31, <1>32, <1>33, <1>34, <1>35, <1>36, <1>37,
     <1>38, <1>39, <1>40, <1>41, <1>42, <1>43, <1>44, <1>45, <1>46, <1>47, <1>48, <1>49,
     <1>50
     DEF Next, WorkerStep, DaemonStep, FgStep, OperatorStep, RecoveryStep, Failure, Time

\* Every step keeps RowInv.
LEMMA RowStep == Inv /\ [Next]_vars => RowInv'
<1> SUFFICES ASSUME TypeOK, RowInv, WorkerInv, CoverInv, SkipInv, [Next]_vars PROVE RowInv'
  BY DEF Inv
<1>t. wk \in [Procs -> [Jobs -> Phases]] /\ lock \in [Sessions -> LockRow \cup {NoLock}]
  BY DEF TypeOK
<1>r. \A s \in Sessions : HasRow(s) =>
         lock[s] \in LockRow /\ lock[s].owner \in Jobs /\ lock[s].tok \in Procs \cup {"stale"}
  BY DEF TypeOK, HasRow, LockRow
<1>u. ASSUME UNCHANGED <<lock, wk>> PROVE RowInv'
  BY <1>u DEF RowInv, HasRow, Procs, rows
<1>1. ASSUME NEW j \in Jobs, FgDispatch(j) PROVE RowInv'
  BY <1>1, <1>t, <1>r DEF FgDispatch, SetState, SetPhase, WorkerInv, RowInv,
     HasRow, Procs, rows
<1>2. ASSUME NEW j \in Jobs, Dispatch(j) PROVE RowInv'
  BY <1>2, <1>t, <1>r DEF Dispatch, SetPhase, InFlight, RowInv, HasRow, Procs, rows
<1>3. ASSUME NEW j \in Jobs, NEW st \in States, PreflightFail(j, st) PROVE RowInv'
  BY <1>3, <1>t, <1>r DEF PreflightFail, Cas, SetState, SetPhase, RowInv, HasRow,
     Procs, rows
<1>4. ASSUME NEW j \in Jobs, PreflightDefer(j) PROVE RowInv'
  BY <1>4, <1>t, <1>r DEF PreflightDefer, SetPhase, RowInv, HasRow, Procs, rows
<1>5. ASSUME NEW p \in Procs, NEW j \in Jobs, Acquire(p, j) PROVE RowInv'
  BY <1>5, <1>t, <1>r DEF Acquire, SetPhase, RowInv, HasRow, Procs, rows
<1>6. ASSUME NEW j \in Jobs, DaemonBusy(j) PROVE RowInv'
  BY <1>6, <1>t, <1>r DEF DaemonBusy, SetPhase, RowInv, HasRow, Procs, rows
<1>7. ASSUME NEW j \in Jobs, FgBusy(j) PROVE RowInv'
  BY <1>7, <1>t, <1>r DEF FgBusy, Cas, SetState, SetPhase, RowInv, HasRow, Procs,
     rows
<1>8. ASSUME NEW s \in Sessions, Heartbeat(s) PROVE RowInv'
  BY <1>8, <1>t, <1>r DEF Heartbeat, RowInv, HasRow, Procs, rows
<1>9. ASSUME NEW s \in Sessions, LeaseLapse(s) PROVE RowInv'
  BY <1>9, <1>t, <1>r DEF LeaseLapse, Uncover, RowInv, HasRow, Procs, rows
<1>10. ASSUME NEW p \in Procs, NEW j \in Jobs, Release(p, j) PROVE RowInv'
  BY <1>10, <1>t, <1>r DEF Release, SetPhase, DropRow, OwnRow, RowInv, HasRow,
     Procs, rows
<1>11. ASSUME NEW j \in Jobs, NEW st \in States, SetupFail(j, st) PROVE RowInv'
  BY <1>11, <1>t, <1>r DEF SetupFail, Cas, SetState, SetPhase, RowInv, HasRow,
     Procs, rows
<1>12. ASSUME NEW j \in Jobs, FgGiveUp(j) PROVE RowInv'
  BY <1>12, <1>t, <1>r DEF FgGiveUp, SetPhase, RowInv, HasRow, Procs, rows
<1>13. ASSUME NEW p \in Procs, NEW j \in Jobs, Claim(p, j) PROVE RowInv'
  BY <1>13, <1>t, <1>r DEF Claim, SetState, SetPhase, AfterError, RowInv, HasRow,
     Procs, rows
<1>14. ASSUME NEW p \in Procs, NEW j \in Jobs, NEW st \in States, RunFinish(p, j, st) PROVE RowInv'
  BY <1>14, <1>t, <1>r DEF RunFinish, Cas, SetState, SetPhase, AfterError, RowInv,
     HasRow, Procs, rows
<1>15. ASSUME NEW p \in Procs, NEW j \in Jobs, RunFail(p, j) PROVE RowInv'
  BY <1>15, <1>t, <1>r DEF RunFail, Cas, SetState, SetPhase, AfterError, RowInv,
     HasRow, Procs, rows
<1>16. ASSUME NEW p \in Procs, NEW j \in Jobs, RunAbort(p, j) PROVE RowInv'
  BY <1>16, <1>t, <1>r DEF RunAbort, SetPhase, AfterError, RowInv, HasRow, Procs,
     rows
<1>17. ASSUME NEW j \in Jobs, DeferHold(j) PROVE RowInv'
  BY <1>17, <1>t, <1>r DEF DeferHold, SetPhase, RowInv, HasRow, Procs, rows
<1>18. ASSUME NEW j \in Jobs, DeferRequeue(j) PROVE RowInv'
  BY <1>18, <1>t, <1>r DEF DeferRequeue, Cas, SetState, SetPhase, RowInv, HasRow,
     Procs, rows
<1>19. ASSUME NEW p \in Procs, NEW j \in Jobs, AdvanceDone(p, j) PROVE RowInv'
  BY <1>19, <1>t, <1>r DEF AdvanceDone, SetPhase, AfterError, RowInv, HasRow,
     Procs, rows
<1>20. ASSUME NEW j \in Jobs, HandleRunError(j) PROVE RowInv'
  BY <1>20, <1>t, <1>r DEF HandleRunError, SetState, SetPhase, RowInv, HasRow,
     Procs, rows
<1>21. ASSUME NEW j \in Jobs, CancelDropLocks(j) PROVE RowInv'
  BY <1>21, <1>t, <1>r DEF CancelDropLocks, DropOwned, Uncover, RowInv, HasRow,
     Procs, rows
<1>22. ASSUME NEW j \in Jobs, KillUnlock(j) PROVE RowInv'
  BY <1>22, <1>t, <1>r DEF KillUnlock, DropOwned, Uncover, RowInv, HasRow, Procs,
     rows
<1>23. ASSUME ReapExpired PROVE RowInv'
  BY <1>23, <1>t, <1>r DEF ReapExpired, RowInv, HasRow, Procs, rows
<1>24. ASSUME ReleaseForeignLocks PROVE RowInv'
  BY <1>24, <1>t, <1>r DEF ReleaseForeignLocks, Goto, RowInv, HasRow, Procs, rows
<1>25. ASSUME NEW S \in SUBSET Jobs, DaemonCrash(S) PROVE RowInv'
  BY <1>25, <1>t, <1>r DEF DaemonCrash, Inherit, Abandon, RowInv, HasRow, Procs,
     rows
<1>26. ASSUME NEW j \in Jobs, NEW S \in SUBSET Jobs, FgCrash(j, S) PROVE RowInv'
  <2>1. /\ lock' = [s \in Sessions |->
                      IF HasRow(s) /\ lock[s].tok = "fg" /\ lock[s].owner \in {j}
                      THEN [lock[s] EXCEPT !.tok = "stale"] ELSE lock[s]]
        /\ wk' = [wk EXCEPT !["fg"][j] = "idle"]
    BY <1>26 DEF FgCrash, Abandon, SetPhase
  <2> SUFFICES ASSUME NEW s \in Sessions, lock'[s] # NoLock
               PROVE  /\ SessionOf[lock'[s].owner] = s
                      /\ lock'[s].tok \in Procs =>
                            /\ wk'[lock'[s].tok][lock'[s].owner] \notin {"idle", "preflight"}
                            /\ ~lock'[s].foreign
    BY DEF RowInv, HasRow
  <2>2. CASE HasRow(s) /\ lock[s].tok = "fg" /\ lock[s].owner = j
    <3>1. lock'[s] = [lock[s] EXCEPT !.tok = "stale"]
      BY <2>1, <2>2
    <3>2. lock'[s].owner = lock[s].owner /\ lock'[s].tok = "stale"
      BY <3>1, <2>2, <1>r DEF LockRow
    <3> QED
      BY <3>2, <2>2 DEF RowInv, Procs
  <2>3. CASE ~(HasRow(s) /\ lock[s].tok = "fg" /\ lock[s].owner = j)
    <3>1. lock'[s] = lock[s]
      BY <2>1, <2>3
    <3> QED
      BY <3>1, <2>1, <2>3, <1>t, <1>r DEF RowInv, HasRow, Procs
  <2> QED
    BY <2>2, <2>3
<1>27. ASSUME Reboot PROVE RowInv'
  BY <1>27, <1>t, <1>r, ZenonT(60) DEF Reboot, LockRow, RowInv, HasRow, Procs, rows
<1>28. ASSUME NEW j \in Jobs, Enqueue(j) \/ List(j) \/ DropListed(j) \/ HoldElapse(j) \/
             Cancel(j) \/ Supersede(j) \/ RetryRead(j) \/
             RetryCommit(j) \/ OpCrash(j) \/ KillCancel(j) \/
             Age(j) \/ RecoverExpired(j) \/ CheckLease(j) \/
             StartupSettle(j) \/ OrphanExit(j)
      PROVE  UNCHANGED <<lock, wk>>
  BY <1>28 DEF Age, Cancel, CancelUncover, Cas, CheckLease, DropListed, Enqueue,
     HoldElapse, KillCancel, List, OpCrash, OrphanExit, RecoverExpired,
     RetryCommit, RetryRead, SetState, StartupSettle, Supersede, Uncover, rows,
     daemonVars, operatorVars
<1>29. ASSUME Kill \/ DaemonStart \/ TickStart \/ RequeueForeignBoot \/
             RequeueStale \/ StaleDone \/ StartupDone
      PROVE  UNCHANGED <<lock, wk>>
  BY <1>29 DEF Cas, DaemonStart, Goto, Kill, RequeueForeignBoot, RequeueStale,
     SetState, StaleDone, StartupDone, TickStart, rows, daemonVars, operatorVars
<1>30. CASE UNCHANGED vars
  BY <1>30, <1>u DEF vars, rows, daemonVars, operatorVars
<1> QED
  BY <1>u, <1>1, <1>2, <1>3, <1>4, <1>5, <1>6, <1>7, <1>8, <1>9, <1>10, <1>11,
     <1>12, <1>13, <1>14, <1>15, <1>16, <1>17, <1>18, <1>19, <1>20, <1>21, <1>22,
     <1>23, <1>24, <1>25, <1>26, <1>27, <1>28, <1>29, <1>30
     DEF Next, WorkerStep, DaemonStep, FgStep, OperatorStep, RecoveryStep, Failure, Time

\* Every step keeps WorkerInv.
LEMMA WorkerInvStep == Inv /\ [Next]_vars => WorkerInv'
<1> SUFFICES ASSUME TypeOK, RowInv, WorkerInv, CoverInv, SkipInv, [Next]_vars PROVE WorkerInv'
  BY DEF Inv
<1>t. /\ wk \in [Procs -> [Jobs -> Phases]] /\ cover \in [Holders -> [Jobs -> Covers]]
      /\ state \in [Jobs -> States] /\ foreign \subseteq Jobs /\ listed \subseteq Jobs
  BY DEF TypeOK
<1>p. "daemon" \in Procs /\ "fg" \in Procs /\ Procs \subseteq Holders /\ "orphan" \notin Procs
      /\ FgJobs \subseteq Jobs
  BY ConstantsAssumption DEF Procs, Holders
<1>u. ASSUME UNCHANGED <<cover, foreign, listed, pass, state, wk>> PROVE WorkerInv'
  BY <1>u DEF WorkerInv, Starting, Procs, rows, daemonVars
<1>1. ASSUME NEW j \in Jobs, Enqueue(j) PROVE WorkerInv'
  BY <1>1, <1>t, <1>p DEF Enqueue, SetState, WorkerInv, Starting, Procs, rows,
     daemonVars
<1>2. ASSUME NEW j \in Jobs, FgDispatch(j) PROVE WorkerInv'
  BY <1>2, <1>t, <1>p DEF FgDispatch, SetState, SetPhase, WorkerInv, Starting,
     Procs, rows, daemonVars
<1>3. ASSUME NEW j \in Jobs, List(j) PROVE WorkerInv'
  BY <1>3, <1>t, <1>p DEF List, Dispatching, WorkerInv, Starting, Procs, rows,
     daemonVars
<1>4. ASSUME NEW j \in Jobs, DropListed(j) PROVE WorkerInv'
  BY <1>4, <1>t, <1>p DEF DropListed, WorkerInv, Starting, Procs, rows, daemonVars
<1>5. ASSUME NEW j \in Jobs, Dispatch(j) PROVE WorkerInv'
  BY <1>5, <1>t, <1>p DEF Dispatch, SetPhase, InFlight, WorkerInv, Starting, Procs,
     rows, daemonVars
<1>6. ASSUME NEW j \in Jobs, NEW st \in States, PreflightFail(j, st) PROVE WorkerInv'
  BY <1>6, <1>t, <1>p DEF PreflightFail, Cas, SetState, SetPhase, WorkerInv,
     Starting, Procs, rows, daemonVars
<1>7. ASSUME NEW j \in Jobs, PreflightDefer(j) PROVE WorkerInv'
  BY <1>7, <1>t, <1>p DEF PreflightDefer, SetPhase, WorkerInv, Starting, Procs,
     rows, daemonVars
<1>8. ASSUME NEW p \in Procs, NEW j \in Jobs, Acquire(p, j) PROVE WorkerInv'
  BY <1>8, <1>t, <1>p DEF Acquire, SetPhase, WorkerInv, Starting, Procs, rows,
     daemonVars
<1>9. ASSUME NEW j \in Jobs, DaemonBusy(j) PROVE WorkerInv'
  BY <1>9, <1>t, <1>p DEF DaemonBusy, SetPhase, WorkerInv, Starting, Procs, rows,
     daemonVars
<1>10. ASSUME NEW j \in Jobs, FgBusy(j) PROVE WorkerInv'
  BY <1>10, <1>t, <1>p DEF FgBusy, Cas, SetState, SetPhase, WorkerInv, Starting,
     Procs, rows, daemonVars
<1>11. ASSUME NEW s \in Sessions, Heartbeat(s) PROVE WorkerInv'
  BY <1>11, <1>t, <1>p DEF Heartbeat, HasRow, LockRow, WorkerInv, Starting, Procs,
     rows, daemonVars
<1>12. ASSUME NEW s \in Sessions, LeaseLapse(s) PROVE WorkerInv'
  BY <1>12, <1>t, <1>p DEF LeaseLapse, Uncover, Holder, WorkerInv, Starting, Procs,
     rows, daemonVars
<1>13. ASSUME NEW p \in Procs, NEW j \in Jobs, Release(p, j) PROVE WorkerInv'
  BY <1>13, <1>t, <1>p DEF Release, SetPhase, DropRow, WorkerInv, Starting, Procs,
     rows, daemonVars
<1>14. ASSUME NEW j \in Jobs, NEW st \in States, SetupFail(j, st) PROVE WorkerInv'
  BY <1>14, <1>t, <1>p DEF SetupFail, Cas, SetState, SetPhase, WorkerInv, Starting,
     Procs, rows, daemonVars
<1>15. ASSUME NEW j \in Jobs, FgGiveUp(j) PROVE WorkerInv'
  BY <1>15, <1>t, <1>p DEF FgGiveUp, SetPhase, WorkerInv, Starting, Procs, rows,
     daemonVars
<1>16. ASSUME NEW p \in Procs, NEW j \in Jobs, Claim(p, j) PROVE WorkerInv'
  BY <1>16, <1>t, <1>p DEF Claim, SetState, SetPhase, AfterError, WorkerInv,
     Starting, Procs, rows, daemonVars
<1>17. ASSUME NEW p \in Procs, NEW j \in Jobs, NEW st \in States, RunFinish(p, j, st) PROVE WorkerInv'
  BY <1>17, <1>t, <1>p DEF RunFinish, Cas, SetState, SetPhase, AfterError,
     WorkerInv, Starting, Procs, rows, daemonVars
<1>18. ASSUME NEW p \in Procs, NEW j \in Jobs, RunFail(p, j) PROVE WorkerInv'
  BY <1>18, <1>t, <1>p DEF RunFail, Cas, SetState, SetPhase, AfterError, WorkerInv,
     Starting, Procs, rows, daemonVars
<1>19. ASSUME NEW p \in Procs, NEW j \in Jobs, RunAbort(p, j) PROVE WorkerInv'
  BY <1>19, <1>t, <1>p DEF RunAbort, SetPhase, AfterError, WorkerInv, Starting,
     Procs, rows, daemonVars
<1>20. ASSUME NEW j \in Jobs, DeferHold(j) PROVE WorkerInv'
  BY <1>20, <1>t, <1>p DEF DeferHold, SetPhase, WorkerInv, Starting, Procs, rows,
     daemonVars
<1>21. ASSUME NEW j \in Jobs, DeferRequeue(j) PROVE WorkerInv'
  BY <1>21, <1>t, <1>p DEF DeferRequeue, Cas, SetState, SetPhase, WorkerInv,
     Starting, Procs, rows, daemonVars
<1>22. ASSUME NEW p \in Procs, NEW j \in Jobs, AdvanceDone(p, j) PROVE WorkerInv'
  BY <1>22, <1>t, <1>p DEF AdvanceDone, SetPhase, AfterError, WorkerInv, Starting,
     Procs, rows, daemonVars
<1>23. ASSUME NEW j \in Jobs, HandleRunError(j) PROVE WorkerInv'
  BY <1>23, <1>t, <1>p DEF HandleRunError, SetState, SetPhase, WorkerInv, Starting,
     Procs, rows, daemonVars
<1>24. ASSUME NEW j \in Jobs, Cancel(j) PROVE WorkerInv'
  BY <1>24, <1>t, <1>p DEF Cancel, SetState, CancelUncover, Uncover, WorkerInv,
     Starting, Procs, rows, daemonVars
<1>25. ASSUME NEW j \in Jobs, CancelDropLocks(j) PROVE WorkerInv'
  BY <1>25, <1>t, <1>p DEF CancelDropLocks, DropOwned, Uncover, WorkerInv,
     Starting, Procs, rows, daemonVars
<1>26. ASSUME NEW j \in Jobs, Supersede(j) PROVE WorkerInv'
  BY <1>26, <1>t, <1>p DEF Supersede, SetState, CancelUncover, Uncover, WorkerInv,
     Starting, Procs, rows, daemonVars
<1>27. ASSUME NEW j \in Jobs, RetryCommit(j) PROVE WorkerInv'
  BY <1>27, <1>t, <1>p DEF RetryCommit, Cas, SetState, WorkerInv, Starting, Procs,
     rows, daemonVars
<1>28. ASSUME NEW j \in Jobs, KillCancel(j) PROVE WorkerInv'
  BY <1>28, <1>t, <1>p DEF KillCancel, Cas, SetState, WorkerInv, Starting, Procs,
     rows, daemonVars
<1>29. ASSUME NEW j \in Jobs, KillUnlock(j) PROVE WorkerInv'
  BY <1>29, <1>t, <1>p DEF KillUnlock, DropOwned, Uncover, WorkerInv, Starting,
     Procs, rows, daemonVars
<1>30. ASSUME DaemonStart PROVE WorkerInv'
  BY <1>30, <1>t, <1>p DEF DaemonStart, Goto, WorkerInv, Starting, Procs, rows,
     daemonVars
<1>31. ASSUME TickStart PROVE WorkerInv'
  BY <1>31, <1>t, <1>p DEF TickStart, Goto, WorkerInv, Starting, Procs, rows,
     daemonVars
<1>32. ASSUME NEW j \in Jobs, RecoverExpired(j) PROVE WorkerInv'
  BY <1>32, <1>t, <1>p DEF RecoverExpired, Cas, SetState, WorkerInv, Starting,
     Procs, rows, daemonVars
<1>33. ASSUME ReapExpired PROVE WorkerInv'
  BY <1>33, <1>t, <1>p DEF ReapExpired, WorkerInv, Starting, Procs, rows, daemonVars
<1>34. ASSUME RequeueForeignBoot PROVE WorkerInv'
  BY <1>34, <1>t, <1>p DEF RequeueForeignBoot, WorkerInv, Starting, Procs, rows,
     daemonVars
<1>35. ASSUME ReleaseForeignLocks PROVE WorkerInv'
  BY <1>35, <1>t, <1>p DEF ReleaseForeignLocks, Goto, WorkerInv, Starting, Procs,
     rows, daemonVars
<1>36. ASSUME RequeueStale PROVE WorkerInv'
  BY <1>36, <1>t, <1>p DEF RequeueStale, Cas, SetState, WorkerInv, Starting, Procs,
     rows, daemonVars
<1>37. ASSUME StaleDone PROVE WorkerInv'
  BY <1>37, <1>t, <1>p DEF StaleDone, Goto, WorkerInv, Starting, Procs, rows,
     daemonVars
<1>38. ASSUME StartupDone PROVE WorkerInv'
  BY <1>38, <1>t, <1>p DEF StartupDone, WorkerInv, Starting, Procs, rows, daemonVars
<1>39. ASSUME NEW S \in SUBSET Jobs, DaemonCrash(S) PROVE WorkerInv'
  BY <1>39, <1>t, <1>p DEF DaemonCrash, Inherit, Abandon, WorkerInv, Starting,
     Procs, rows, daemonVars
<1>40. ASSUME NEW j \in Jobs, NEW S \in SUBSET Jobs, FgCrash(j, S) PROVE WorkerInv'
  <2>1. /\ wk' = [wk EXCEPT !["fg"][j] = "idle"]
        /\ UNCHANGED <<state, foreign, pass, listed>>
    BY <1>40 DEF FgCrash, SetPhase, rows, daemonVars
  <2>2. /\ cover' = [Inherit("fg", S) EXCEPT !["fg"] = [cover["fg"] EXCEPT ![j] = "none"]]
        /\ Inherit("fg", S) = [h \in Holders |-> Inherit("fg", S)[h]]
    BY <1>40 DEF FgCrash, Inherit
  <2>3. cover'["fg"] = [cover["fg"] EXCEPT ![j] = "none"]
    BY <2>2, <1>p
  <2>4. cover'["daemon"] = cover["daemon"]
    <3>1. cover'["daemon"] = Inherit("fg", S)["daemon"]
      BY <2>2, <1>p
    <3>2. Inherit("fg", S)["daemon"] = [k \in Jobs |-> cover["daemon"][k]]
      BY <1>p DEF Inherit
    <3> QED
      BY <3>1, <3>2, <1>t, <1>p
  <2> QED
    BY <2>1, <2>3, <2>4, <1>t, <1>p DEF WorkerInv, Starting, Procs
<1>41. ASSUME Reboot PROVE WorkerInv'
  BY <1>41, <1>t, <1>p DEF Reboot, WorkerInv, Starting, Procs, rows, daemonVars
<1>42. ASSUME NEW j \in Jobs, OrphanExit(j) PROVE WorkerInv'
  BY <1>42, <1>t, <1>p DEF OrphanExit, WorkerInv, Starting, Procs, rows, daemonVars
<1>43. ASSUME NEW j \in Jobs, HoldElapse(j) \/ RetryRead(j) \/ OpCrash(j) \/ Age(j) \/
             CheckLease(j) \/ StartupSettle(j)
      PROVE  UNCHANGED <<cover, foreign, listed, pass, state, wk>>
  BY <1>43 DEF Age, CheckLease, HoldElapse, OpCrash, RetryRead, StartupSettle,
     rows, daemonVars, operatorVars
<1>44. ASSUME Kill
      PROVE  UNCHANGED <<cover, foreign, listed, pass, state, wk>>
  BY <1>44 DEF Kill, rows, daemonVars, operatorVars
<1>45. CASE UNCHANGED vars
  BY <1>45, <1>u DEF vars, rows, daemonVars, operatorVars
<1> QED
  BY <1>u, <1>1, <1>2, <1>3, <1>4, <1>5, <1>6, <1>7, <1>8, <1>9, <1>10, <1>11,
     <1>12, <1>13, <1>14, <1>15, <1>16, <1>17, <1>18, <1>19, <1>20, <1>21, <1>22,
     <1>23, <1>24, <1>25, <1>26, <1>27, <1>28, <1>29, <1>30, <1>31, <1>32, <1>33,
     <1>34, <1>35, <1>36, <1>37, <1>38, <1>39, <1>40, <1>41, <1>42, <1>43, <1>44,
     <1>45
     DEF Next, WorkerStep, DaemonStep, FgStep, OperatorStep, RecoveryStep, Failure, Time

\* Every step keeps CoverInv.
LEMMA CoverInvStep == Inv /\ [Next]_vars => CoverInv'
<1> SUFFICES ASSUME TypeOK, RowInv, WorkerInv, CoverInv, SkipInv, [Next]_vars PROVE CoverInv'
  BY DEF Inv
<1>t. /\ wk \in [Procs -> [Jobs -> Phases]] /\ cover \in [Holders -> [Jobs -> Covers]]
      /\ state \in [Jobs -> States] /\ lock \in [Sessions -> LockRow \cup {NoLock}]
  BY DEF TypeOK
<1>p. /\ "daemon" \in Procs /\ "fg" \in Procs /\ Procs \subseteq Holders
      /\ "orphan" \notin Procs /\ "stale" \notin Procs /\ "orphan" \in Holders
      /\ FgJobs \subseteq Jobs
  BY ConstantsAssumption DEF Procs, Holders
<1>r. \A s \in Sessions : HasRow(s) =>
         /\ lock[s] \in LockRow /\ lock[s].owner \in Jobs
         /\ lock[s].tok \in Procs \cup {"stale"} /\ lock[s].expired \in BOOLEAN
  BY DEF TypeOK, HasRow, LockRow
<1>u. ASSUME UNCHANGED <<cover, lock, state, wk>> PROVE CoverInv'
  BY <1>u DEF CoverInv, WorkerCovered, OrphanCovered, OwnRow, HasRow, rows
<1>1. ASSUME NEW j \in Jobs, Enqueue(j) PROVE CoverInv'
  BY <1>1, <1>t, <1>p, <1>r DEF Enqueue, SetState, CoverInv, WorkerCovered,
     OrphanCovered, OwnRow, HasRow, rows
<1>2. ASSUME NEW j \in Jobs, FgDispatch(j) PROVE CoverInv'
  BY <1>2, <1>t, <1>p, <1>r DEF FgDispatch, SetState, SetPhase, CoverInv,
     WorkerCovered, OrphanCovered, OwnRow, HasRow, rows
<1>3. ASSUME NEW j \in Jobs, Dispatch(j) PROVE CoverInv'
  BY <1>3, <1>t, <1>p, <1>r DEF Dispatch, SetPhase, CoverInv, WorkerCovered,
     OrphanCovered, OwnRow, HasRow, rows
<1>4. ASSUME NEW j \in Jobs, NEW st \in States, PreflightFail(j, st) PROVE CoverInv'
  BY <1>4, <1>t, <1>p, <1>r DEF PreflightFail, Cas, SetState, SetPhase, CoverInv,
     WorkerCovered, OrphanCovered, OwnRow, HasRow, rows
<1>5. ASSUME NEW j \in Jobs, PreflightDefer(j) PROVE CoverInv'
  BY <1>5, <1>t, <1>p, <1>r DEF PreflightDefer, SetPhase, CoverInv, WorkerCovered,
     OrphanCovered, OwnRow, HasRow, rows
<1>6. ASSUME NEW p \in Procs, NEW j \in Jobs, Acquire(p, j) PROVE CoverInv'
  <2>1. ASSUME NEW q \in Procs, NEW k \in Jobs PROVE WorkerCovered(q, k)'
    <3> SUFFICES ASSUME wk'[q][k] \in {"locked", "running"}, cover'[q][k] = "held"
                 PROVE  /\ OwnRow(q, k)'
                        /\ lock'[SessionOf[k]].expired =>
                             /\ q = "daemon" /\ k \notin FgJobs
                             /\ wk'[q][k] = "running" /\ state'[k] = "running"
      BY DEF WorkerCovered
    <3>1. CASE q = p /\ k = j
      <4>1. cover[p][j] = "none"
        BY <1>6 DEF Acquire, WorkerInv
      <4>2. /\ SessionOf[j] \in Sessions
            /\ lock' = [lock EXCEPT ![SessionOf[j]] =
                 [owner |-> j, tok |-> p, expired |-> FALSE, foreign |-> FALSE]]
        BY <1>6, <3>1, <4>1 DEF Acquire
      <4>3. lock'[SessionOf[k]] =
                 [owner |-> j, tok |-> p, expired |-> FALSE, foreign |-> FALSE]
        BY <4>2, <3>1, <1>t
      <4>4. lock'[SessionOf[k]] \in LockRow
        BY <4>3 DEF LockRow
      <4>5. lock'[SessionOf[k]] # NoLock
        BY <4>4, ConstantsAssumption
      <4> QED
        BY <4>2, <4>3, <4>5, <3>1 DEF OwnRow, HasRow
    <3>2. CASE ~(q = p /\ k = j)
      <4>1. /\ wk'[q][k] = wk[q][k] /\ state' = state
            /\ cover'[q][k] = cover[q][k]
        BY <1>6, <3>2, <1>t, <1>p DEF Acquire, SetPhase, rows
      <4>2. /\ OwnRow(q, k)
            /\ lock[SessionOf[k]].expired =>
                 /\ q = "daemon" /\ k \notin FgJobs
                 /\ wk[q][k] = "running" /\ state[k] = "running"
        BY <4>1 DEF CoverInv, WorkerCovered
      <4>3. lock'[SessionOf[k]] = lock[SessionOf[k]]
        BY <1>6, <4>2, <1>t DEF Acquire, Free, OwnRow, HasRow
      <4> QED
        BY <4>1, <4>2, <4>3 DEF OwnRow, HasRow
    <3> QED
      BY <3>1, <3>2
  <2>2. ASSUME NEW k \in Jobs PROVE OrphanCovered(k)'
    BY <1>6, <2>2, <1>t, <1>p, <1>r, SMTT(40) DEF OrphanCovered, CoverInv, OwnRow, HasRow,
       rows, Acquire, SetPhase, Free
  <2> QED
    BY <2>1, <2>2 DEF CoverInv
<1>7. ASSUME NEW j \in Jobs, DaemonBusy(j) PROVE CoverInv'
  BY <1>7, <1>t, <1>p, <1>r DEF DaemonBusy, SetPhase, CoverInv, WorkerCovered,
     OrphanCovered, OwnRow, HasRow, rows
<1>8. ASSUME NEW j \in Jobs, FgBusy(j) PROVE CoverInv'
  BY <1>8, <1>t, <1>p, <1>r DEF FgBusy, Cas, SetState, SetPhase, CoverInv,
     WorkerCovered, OrphanCovered, OwnRow, HasRow, rows
<1>9. ASSUME NEW s \in Sessions, Heartbeat(s) PROVE CoverInv'
  <2>1. ASSUME NEW q \in Procs, NEW k \in Jobs PROVE WorkerCovered(q, k)'
    <3> SUFFICES ASSUME wk'[q][k] \in {"locked", "running"}, cover'[q][k] = "held"
                 PROVE  /\ OwnRow(q, k)'
                        /\ lock'[SessionOf[k]].expired =>
                             /\ q = "daemon" /\ k \notin FgJobs
                             /\ wk'[q][k] = "running" /\ state'[k] = "running"
      BY DEF WorkerCovered
    <3>1. CASE q = lock[s].tok /\ k = lock[s].owner
      <4>1. /\ lock'[s] = [lock[s] EXCEPT !.expired = FALSE] /\ HasRow(s)
            /\ SessionOf[k] = s
        BY <1>9, <3>1, <1>t DEF Heartbeat, RowInv
      <4>2. /\ lock'[s] \in LockRow /\ lock'[s].owner = k /\ lock'[s].tok = q
            /\ lock'[s].expired = FALSE
        BY <4>1, <3>1, <1>r DEF LockRow
      <4> QED
        BY <4>1, <4>2, ConstantsAssumption DEF OwnRow, HasRow
    <3>2. CASE ~(q = lock[s].tok /\ k = lock[s].owner)
      <4>1. /\ wk' = wk /\ state' = state /\ cover'[q][k] = cover[q][k]
        BY <1>9, <3>2, <1>t, <1>p, <1>r DEF Heartbeat, rows
      <4>2. /\ OwnRow(q, k)
            /\ lock[SessionOf[k]].expired =>
                 /\ q = "daemon" /\ k \notin FgJobs
                 /\ wk[q][k] = "running" /\ state[k] = "running"
        BY <4>1 DEF CoverInv, WorkerCovered
      <4>3. lock'[SessionOf[k]] = lock[SessionOf[k]]
        BY <1>9, <4>2, <3>2, <1>t DEF Heartbeat, OwnRow
      <4> QED
        BY <4>1, <4>2, <4>3 DEF OwnRow, HasRow
    <3> QED
      BY <3>1, <3>2
  <2>2. ASSUME NEW k \in Jobs PROVE OrphanCovered(k)'
    BY <1>9, <2>2, <1>t, <1>p, <1>r DEF OrphanCovered, CoverInv, OwnRow, HasRow,
       rows, Heartbeat, RowInv
  <2> QED
    BY <2>1, <2>2 DEF CoverInv
<1>10. ASSUME NEW s \in Sessions, LeaseLapse(s) PROVE CoverInv'
  <2>1. ASSUME NEW q \in Procs, NEW k \in Jobs PROVE WorkerCovered(q, k)'
    <3> SUFFICES ASSUME wk'[q][k] \in {"locked", "running"}, cover'[q][k] = "held"
                 PROVE  /\ OwnRow(q, k)'
                        /\ lock'[SessionOf[k]].expired =>
                             /\ q = "daemon" /\ k \notin FgJobs
                             /\ wk'[q][k] = "running" /\ state'[k] = "running"
      BY DEF WorkerCovered
    <3>1. /\ wk' = wk /\ state' = state /\ cover[q][k] = "held"
      BY <1>10, <1>t, <1>p DEF LeaseLapse, Uncover, rows
    <3>2. /\ OwnRow(q, k)
          /\ lock[SessionOf[k]].expired =>
               /\ q = "daemon" /\ k \notin FgJobs
               /\ wk[q][k] = "running" /\ state[k] = "running"
      BY <3>1 DEF CoverInv, WorkerCovered
    <3>3. CASE SessionOf[k] # s
      BY <1>10, <3>1, <3>2, <3>3, <1>t DEF LeaseLapse, OwnRow, HasRow
    <3>4. CASE SessionOf[k] = s
      <4>1. /\ lock'[s] = [lock[s] EXCEPT !.expired = TRUE] /\ HasRow(s)
            /\ lock[s].owner = k /\ lock[s].tok = q
        BY <1>10, <3>2, <3>4, <1>t DEF LeaseLapse, OwnRow
      <4>2. /\ lock'[s] \in LockRow /\ lock'[s].owner = k /\ lock'[s].tok = q
        BY <4>1, <1>r DEF LockRow
      <4>3. KeptPastLease(lock[s])
        <5> SUFFICES ASSUME ~KeptPastLease(lock[s]) PROVE FALSE
          OBVIOUS
        <5>1. cover' = Uncover({Holder(lock[s])}, lock[s].owner, "lapsed")
          BY <1>10 DEF LeaseLapse
        <5>2. Holder(lock[s]) = q
          BY <4>1, <1>p DEF Holder
        <5>3. cover'[q][k] = "lapsed"
          BY <5>1, <5>2, <4>1, <3>1, <1>p DEF Uncover
        <5> QED
          BY <5>3
      <4> QED
        BY <4>1, <4>2, <4>3, <3>1, <3>4, ConstantsAssumption DEF KeptPastLease, OwnRow, HasRow
    <3> QED
      BY <3>3, <3>4
  <2>2. ASSUME NEW k \in Jobs PROVE OrphanCovered(k)'
    BY <1>10, <2>2, <1>t, <1>p, <1>r DEF OrphanCovered, CoverInv, OwnRow, HasRow,
       rows, LeaseLapse, Uncover, Holder, KeptPastLease, RowInv
  <2> QED
    BY <2>1, <2>2 DEF CoverInv
<1>11. ASSUME NEW p \in Procs, NEW j \in Jobs, Release(p, j) PROVE CoverInv'
  <2>1. ASSUME NEW q \in Procs, NEW k \in Jobs PROVE WorkerCovered(q, k)'
    <3> SUFFICES ASSUME wk'[q][k] \in {"locked", "running"}, cover'[q][k] = "held"
                 PROVE  /\ OwnRow(q, k)'
                        /\ lock'[SessionOf[k]].expired =>
                             /\ q = "daemon" /\ k \notin FgJobs
                             /\ wk'[q][k] = "running" /\ state'[k] = "running"
      BY DEF WorkerCovered
    <3>1. ~(q = p /\ k = j)
      BY <1>11, <1>t, <1>p DEF Release, SetPhase
    <3>2. /\ wk'[q][k] = wk[q][k] /\ state' = state /\ cover'[q][k] = cover[q][k]
      BY <1>11, <3>1, <1>t, <1>p DEF Release, SetPhase, rows
    <3>3. /\ OwnRow(q, k)
          /\ lock[SessionOf[k]].expired =>
               /\ q = "daemon" /\ k \notin FgJobs
               /\ wk[q][k] = "running" /\ state[k] = "running"
      BY <3>2 DEF CoverInv, WorkerCovered
    <3>4. lock'[SessionOf[k]] = lock[SessionOf[k]]
      BY <1>11, <3>1, <3>3, <1>t DEF Release, DropRow, OwnRow
    <3> QED
      BY <3>2, <3>3, <3>4 DEF OwnRow, HasRow
  <2>2. ASSUME NEW k \in Jobs PROVE OrphanCovered(k)'
    <3> SUFFICES ASSUME cover'["orphan"][k] = "held"
                 PROVE  /\ OwnRow("stale", k)'
                        /\ ~lock'[SessionOf[k]].expired /\ ~lock'[SessionOf[k]].foreign
      BY DEF OrphanCovered
    <3>1. cover["orphan"][k] = "held"
      BY <1>11, <1>t, <1>p DEF Release
    <3>2. /\ OwnRow("stale", k)
          /\ ~lock[SessionOf[k]].expired /\ ~lock[SessionOf[k]].foreign
      BY <3>1 DEF CoverInv, OrphanCovered
    <3>3. lock'[SessionOf[k]] = lock[SessionOf[k]]
      BY <1>11, <3>2, <1>t, <1>p DEF Release, DropRow, OwnRow
    <3> QED
      BY <3>2, <3>3 DEF OwnRow, HasRow
  <2> QED
    BY <2>1, <2>2 DEF CoverInv
<1>12. ASSUME NEW j \in Jobs, NEW st \in States, SetupFail(j, st) PROVE CoverInv'
  BY <1>12, <1>t, <1>p, <1>r DEF SetupFail, Cas, SetState, SetPhase, CoverInv,
     WorkerCovered, OrphanCovered, OwnRow, HasRow, rows
<1>13. ASSUME NEW j \in Jobs, FgGiveUp(j) PROVE CoverInv'
  BY <1>13, <1>t, <1>p, <1>r DEF FgGiveUp, SetPhase, CoverInv, WorkerCovered,
     OrphanCovered, OwnRow, HasRow, rows
<1>14. ASSUME NEW p \in Procs, NEW j \in Jobs, Claim(p, j) PROVE CoverInv'
  <2>1. ASSUME NEW q \in Procs, NEW k \in Jobs PROVE WorkerCovered(q, k)'
    <3> SUFFICES ASSUME wk'[q][k] \in {"locked", "running"}, cover'[q][k] = "held"
                 PROVE  /\ OwnRow(q, k)'
                        /\ lock'[SessionOf[k]].expired =>
                             /\ q = "daemon" /\ k \notin FgJobs
                             /\ wk'[q][k] = "running" /\ state'[k] = "running"
      BY DEF WorkerCovered
    <3>1. cover' = cover /\ lock' = lock
      BY <1>14 DEF Claim
    <3>2. wk[q][k] \in {"locked", "running"}
      BY <1>14, <1>t, <1>p DEF Claim, SetPhase, AfterError
    <3>3. /\ OwnRow(q, k)
          /\ lock[SessionOf[k]].expired =>
               /\ q = "daemon" /\ k \notin FgJobs
               /\ wk[q][k] = "running" /\ state[k] = "running"
      BY <3>1, <3>2 DEF CoverInv, WorkerCovered
    <3>4. wk[q][k] = "running" => ~(q = p /\ k = j)
      BY <1>14 DEF Claim
    <3>5. ~(q = p /\ k = j) => wk'[q][k] = wk[q][k]
      BY <1>14, <1>t, <1>p DEF Claim, SetPhase
    <3>6. state[k] = "running" => state'[k] = "running"
      BY <1>14, <1>t DEF Claim, SetState
    <3> QED
      BY <3>1, <3>3, <3>4, <3>5, <3>6 DEF OwnRow, HasRow
  <2>2. ASSUME NEW k \in Jobs PROVE OrphanCovered(k)'
    BY <1>14, <2>2 DEF OrphanCovered, CoverInv, OwnRow, HasRow, Claim
  <2> QED
    BY <2>1, <2>2 DEF CoverInv
<1>15. ASSUME NEW p \in Procs, NEW j \in Jobs, NEW st \in States, RunFinish(p, j, st) PROVE CoverInv'
  <2>1. ASSUME NEW q \in Procs, NEW k \in Jobs PROVE WorkerCovered(q, k)'
    <3> SUFFICES ASSUME wk'[q][k] \in {"locked", "running"}, cover'[q][k] = "held"
                 PROVE  /\ OwnRow(q, k)'
                        /\ lock'[SessionOf[k]].expired =>
                             /\ q = "daemon" /\ k \notin FgJobs
                             /\ wk'[q][k] = "running" /\ state'[k] = "running"
      BY DEF WorkerCovered
    <3>1. ~(q = p /\ k = j)
      BY <1>15, <1>t, <1>p DEF RunFinish, SetPhase, AfterError
    <3>2. wk'[q][k] = wk[q][k] /\ cover' = cover /\ lock' = lock
      BY <1>15, <3>1, <1>t, <1>p DEF RunFinish, SetPhase
    <3>3. /\ OwnRow(q, k)
          /\ lock[SessionOf[k]].expired =>
               /\ q = "daemon" /\ k \notin FgJobs
               /\ wk[q][k] = "running" /\ state[k] = "running"
      BY <3>2 DEF CoverInv, WorkerCovered
    <3>4. wk["fg"][j] = "running" => j \in FgJobs
      BY DEF WorkerInv
    <3>5. k # j => state'[k] = state[k]
      BY <1>15, <1>t DEF RunFinish, Cas, SetState
    <3>6. q = "daemon" /\ k \notin FgJobs => k # j
      BY <1>15, <3>1, <3>4 DEF RunFinish, Procs
    <3> QED
      BY <3>2, <3>3, <3>5, <3>6 DEF OwnRow, HasRow
  <2>2. ASSUME NEW k \in Jobs PROVE OrphanCovered(k)'
    BY <1>15, <2>2, <1>t, <1>p, <1>r DEF OrphanCovered, CoverInv, OwnRow, HasRow,
       rows, RunFinish, Cas, SetState
  <2> QED
    BY <2>1, <2>2 DEF CoverInv
<1>16. ASSUME NEW p \in Procs, NEW j \in Jobs, RunFail(p, j) PROVE CoverInv'
  <2>1. ASSUME NEW q \in Procs, NEW k \in Jobs PROVE WorkerCovered(q, k)'
    <3> SUFFICES ASSUME wk'[q][k] \in {"locked", "running"}, cover'[q][k] = "held"
                 PROVE  /\ OwnRow(q, k)'
                        /\ lock'[SessionOf[k]].expired =>
                             /\ q = "daemon" /\ k \notin FgJobs
                             /\ wk'[q][k] = "running" /\ state'[k] = "running"
      BY DEF WorkerCovered
    <3>1. ~(q = p /\ k = j)
      BY <1>16, <1>t, <1>p DEF RunFail, SetPhase, AfterError
    <3>2. wk'[q][k] = wk[q][k] /\ cover' = cover /\ lock' = lock
      BY <1>16, <3>1, <1>t, <1>p DEF RunFail, SetPhase
    <3>3. /\ OwnRow(q, k)
          /\ lock[SessionOf[k]].expired =>
               /\ q = "daemon" /\ k \notin FgJobs
               /\ wk[q][k] = "running" /\ state[k] = "running"
      BY <3>2 DEF CoverInv, WorkerCovered
    <3>4. wk["fg"][j] = "running" => j \in FgJobs
      BY DEF WorkerInv
    <3>5. k # j => state'[k] = state[k]
      BY <1>16, <1>t DEF RunFail, Cas, SetState
    <3>6. q = "daemon" /\ k \notin FgJobs => k # j
      BY <1>16, <3>1, <3>4 DEF RunFail, Procs
    <3> QED
      BY <3>2, <3>3, <3>5, <3>6 DEF OwnRow, HasRow
  <2>2. ASSUME NEW k \in Jobs PROVE OrphanCovered(k)'
    BY <1>16, <2>2, <1>t, <1>p, <1>r DEF OrphanCovered, CoverInv, OwnRow, HasRow,
       rows, RunFail, Cas, SetState
  <2> QED
    BY <2>1, <2>2 DEF CoverInv
<1>17. ASSUME NEW p \in Procs, NEW j \in Jobs, RunAbort(p, j) PROVE CoverInv'
  BY <1>17, <1>t, <1>p, <1>r DEF RunAbort, SetPhase, AfterError, CoverInv,
     WorkerCovered, OrphanCovered, OwnRow, HasRow, rows
<1>18. ASSUME NEW j \in Jobs, DeferHold(j) PROVE CoverInv'
  BY <1>18, <1>t, <1>p, <1>r DEF DeferHold, SetPhase, CoverInv, WorkerCovered,
     OrphanCovered, OwnRow, HasRow, rows
<1>19. ASSUME NEW j \in Jobs, DeferRequeue(j) PROVE CoverInv'
  BY <1>19, <1>t, <1>p, <1>r DEF DeferRequeue, Cas, SetState, SetPhase, CoverInv,
     WorkerCovered, OrphanCovered, OwnRow, HasRow, rows
<1>20. ASSUME NEW p \in Procs, NEW j \in Jobs, AdvanceDone(p, j) PROVE CoverInv'
  <2>1. ASSUME NEW q \in Procs, NEW k \in Jobs PROVE WorkerCovered(q, k)'
    BY <1>20, <2>1, <1>t, <1>p, <1>r, SMTT(40) DEF WorkerCovered, CoverInv, OwnRow, HasRow,
       rows, AdvanceDone, SetPhase, AfterError
  <2>2. ASSUME NEW k \in Jobs PROVE OrphanCovered(k)'
    BY <1>20, <2>2, <1>t, <1>p, <1>r DEF OrphanCovered, CoverInv, OwnRow, HasRow,
       rows, AdvanceDone, SetPhase, AfterError
  <2> QED
    BY <2>1, <2>2 DEF CoverInv
<1>21. ASSUME NEW j \in Jobs, HandleRunError(j) PROVE CoverInv'
  BY <1>21, <1>t, <1>p, <1>r DEF HandleRunError, SetState, SetPhase, CoverInv,
     WorkerCovered, OrphanCovered, OwnRow, HasRow, rows
<1>22. ASSUME NEW j \in Jobs, Cancel(j) PROVE CoverInv'
  BY <1>22, <1>t, <1>p, <1>r DEF Cancel, SetState, CancelUncover, Uncover,
     CoverInv, WorkerCovered, OrphanCovered, OwnRow, HasRow, rows
<1>23. ASSUME NEW j \in Jobs, CancelDropLocks(j) PROVE CoverInv'
  BY <1>23, <1>t, <1>p, <1>r DEF CancelDropLocks, DropOwned, Uncover, CoverInv,
     WorkerCovered, OrphanCovered, OwnRow, HasRow, rows
<1>24. ASSUME NEW j \in Jobs, Supersede(j) PROVE CoverInv'
  BY <1>24, <1>t, <1>p, <1>r DEF Supersede, SetState, CancelUncover, Uncover,
     CoverInv, WorkerCovered, OrphanCovered, OwnRow, HasRow, rows
<1>25. ASSUME NEW j \in Jobs, RetryCommit(j) PROVE CoverInv'
  BY <1>25, <1>t, <1>p, <1>r DEF RetryCommit, Cas, SetState, CoverInv,
     WorkerCovered, OrphanCovered, OwnRow, HasRow, rows
<1>26. ASSUME NEW j \in Jobs, KillCancel(j) PROVE CoverInv'
  BY <1>26, <1>t, <1>p, <1>r DEF KillCancel, Cas, SetState, CoverInv,
     WorkerCovered, OrphanCovered, OwnRow, HasRow, rows
<1>27. ASSUME NEW j \in Jobs, KillUnlock(j) PROVE CoverInv'
  <2>1. ASSUME NEW q \in Procs, NEW k \in Jobs PROVE WorkerCovered(q, k)'
    BY <1>27, <2>1, <1>t, <1>p, <1>r DEF WorkerCovered, CoverInv, OwnRow, HasRow,
       rows, KillUnlock, DropOwned, Uncover
  <2>2. ASSUME NEW k \in Jobs PROVE OrphanCovered(k)'
    BY <1>27, <2>2, <1>t, <1>p, <1>r DEF OrphanCovered, CoverInv, OwnRow, HasRow,
       rows, KillUnlock, DropOwned, Uncover
  <2> QED
    BY <2>1, <2>2 DEF CoverInv
<1>28. ASSUME NEW j \in Jobs, RecoverExpired(j) PROVE CoverInv'
  <2>1. ASSUME NEW q \in Procs, NEW k \in Jobs PROVE WorkerCovered(q, k)'
    BY <1>28, <2>1, <1>t, <1>p, <1>r DEF WorkerCovered, CoverInv, OwnRow, HasRow,
       rows, RecoverExpired, Cas, SetState, SkipInv, InPass
  <2>2. ASSUME NEW k \in Jobs PROVE OrphanCovered(k)'
    BY <1>28, <2>2, <1>t, <1>p, <1>r DEF OrphanCovered, CoverInv, OwnRow, HasRow,
       rows, RecoverExpired, Cas, SetState, SkipInv, InPass
  <2> QED
    BY <2>1, <2>2 DEF CoverInv
<1>29. ASSUME ReapExpired PROVE CoverInv'
  <2>1. ASSUME NEW q \in Procs, NEW k \in Jobs PROVE WorkerCovered(q, k)'
    BY <1>29, <2>1, <1>t, <1>p, <1>r DEF WorkerCovered, CoverInv, OwnRow, HasRow,
       rows, ReapExpired, SkipInv, InPass
  <2>2. ASSUME NEW k \in Jobs PROVE OrphanCovered(k)'
    BY <1>29, <2>2, <1>t, <1>p, <1>r DEF OrphanCovered, CoverInv, OwnRow, HasRow,
       rows, ReapExpired, SkipInv, InPass
  <2> QED
    BY <2>1, <2>2 DEF CoverInv
<1>30. ASSUME RequeueForeignBoot PROVE CoverInv'
  <2>1. ASSUME NEW q \in Procs, NEW k \in Jobs PROVE WorkerCovered(q, k)'
    BY <1>30, <2>1, <1>t, <1>p, <1>r DEF WorkerCovered, CoverInv, OwnRow, HasRow,
       rows, RequeueForeignBoot, WorkerInv
  <2>2. ASSUME NEW k \in Jobs PROVE OrphanCovered(k)'
    BY <1>30, <2>2, <1>t, <1>p, <1>r DEF OrphanCovered, CoverInv, OwnRow, HasRow,
       rows, RequeueForeignBoot, WorkerInv
  <2> QED
    BY <2>1, <2>2 DEF CoverInv
<1>31. ASSUME ReleaseForeignLocks PROVE CoverInv'
  <2>1. ASSUME NEW q \in Procs, NEW k \in Jobs PROVE WorkerCovered(q, k)'
    BY <1>31, <2>1, <1>t, <1>p, <1>r DEF WorkerCovered, CoverInv, OwnRow, HasRow,
       rows, ReleaseForeignLocks, Goto, RowInv
  <2>2. ASSUME NEW k \in Jobs PROVE OrphanCovered(k)'
    BY <1>31, <2>2, <1>t, <1>p, <1>r DEF OrphanCovered, CoverInv, OwnRow, HasRow,
       rows, ReleaseForeignLocks, Goto, RowInv
  <2> QED
    BY <2>1, <2>2 DEF CoverInv
<1>32. ASSUME RequeueStale PROVE CoverInv'
  <2>1. ASSUME NEW q \in Procs, NEW k \in Jobs PROVE WorkerCovered(q, k)'
    BY <1>32, <2>1, <1>t, <1>p, <1>r DEF WorkerCovered, CoverInv, OwnRow, HasRow,
       rows, RequeueStale, Cas, SetState, SkipInv, InPass
  <2>2. ASSUME NEW k \in Jobs PROVE OrphanCovered(k)'
    BY <1>32, <2>2, <1>t, <1>p, <1>r DEF OrphanCovered, CoverInv, OwnRow, HasRow,
       rows, RequeueStale, Cas, SetState, SkipInv, InPass
  <2> QED
    BY <2>1, <2>2 DEF CoverInv
<1>33. ASSUME NEW S \in SUBSET Jobs, DaemonCrash(S) PROVE CoverInv'
  <2>1. ASSUME NEW q \in Procs, NEW k \in Jobs PROVE WorkerCovered(q, k)'
    BY <1>33, <2>1, <1>t, <1>p, <1>r DEF WorkerCovered, CoverInv, OwnRow, HasRow,
       rows, DaemonCrash, Inherit, Abandon, SetPhase, LeaseHeld, RowInv
  <2>2. ASSUME NEW k \in Jobs PROVE OrphanCovered(k)'
    <3> SUFFICES ASSUME cover'["orphan"][k] = "held"
                 PROVE  /\ OwnRow("stale", k)'
                        /\ ~lock'[SessionOf[k]].expired /\ ~lock'[SessionOf[k]].foreign
      BY DEF OrphanCovered
    <3>1. \/ cover["orphan"][k] = "held"
          \/ k \in S /\ cover["daemon"][k] = "held" /\ LeaseHeld(k)
      BY <1>33, <1>t, <1>p DEF DaemonCrash, Inherit
    <3>2. CASE cover["orphan"][k] = "held"
      <4>1. /\ OwnRow("stale", k)
            /\ ~lock[SessionOf[k]].expired /\ ~lock[SessionOf[k]].foreign
        BY <3>2 DEF CoverInv, OrphanCovered
      <4>2. lock'[SessionOf[k]] = lock[SessionOf[k]]
        BY <1>33, <4>1, <1>t DEF DaemonCrash, Abandon, OwnRow
      <4> QED
        BY <4>1, <4>2 DEF OwnRow, HasRow
    <3>3. CASE k \in S /\ cover["daemon"][k] = "held" /\ LeaseHeld(k)
      <4>1. wk["daemon"][k] = "running" /\ k \in Jobs
        BY <1>33, <3>3 DEF DaemonCrash
      <4>2. OwnRow("daemon", k)
        BY <4>1, <3>3, <1>p DEF CoverInv, WorkerCovered
      <4>3. ~lock[SessionOf[k]].expired
        BY <3>3, <1>r DEF LeaseHeld, RowInv
      <4>4. ~lock[SessionOf[k]].foreign
        BY <4>2, <1>p DEF RowInv, OwnRow
      <4>5. lock'[SessionOf[k]] = [lock[SessionOf[k]] EXCEPT !.tok = "stale"]
        BY <1>33, <4>1, <4>2 DEF DaemonCrash, Abandon, OwnRow
      <4>6. /\ lock'[SessionOf[k]] \in LockRow
            /\ lock'[SessionOf[k]].owner = k /\ lock'[SessionOf[k]].tok = "stale"
            /\ lock'[SessionOf[k]].expired = lock[SessionOf[k]].expired
            /\ lock'[SessionOf[k]].foreign = lock[SessionOf[k]].foreign
        BY <4>2, <4>5, <1>r DEF LockRow, OwnRow
      <4> QED
        BY <4>2, <4>3, <4>4, <4>6, ConstantsAssumption DEF OwnRow, HasRow
    <3> QED
      BY <3>1, <3>2, <3>3
  <2> QED
    BY <2>1, <2>2 DEF CoverInv
<1>34. ASSUME NEW j \in Jobs, NEW S \in SUBSET Jobs, FgCrash(j, S) PROVE CoverInv'
  <2>1. ASSUME NEW q \in Procs, NEW k \in Jobs PROVE WorkerCovered(q, k)'
    BY <1>34, <2>1, <1>t, <1>p, <1>r DEF WorkerCovered, CoverInv, OwnRow, HasRow,
       rows, FgCrash, Inherit, Abandon, SetPhase, LeaseHeld, RowInv
  <2>2. ASSUME NEW k \in Jobs PROVE OrphanCovered(k)'
    <3> SUFFICES ASSUME cover'["orphan"][k] = "held"
                 PROVE  /\ OwnRow("stale", k)'
                        /\ ~lock'[SessionOf[k]].expired /\ ~lock'[SessionOf[k]].foreign
      BY DEF OrphanCovered
    <3>1. \/ cover["orphan"][k] = "held"
          \/ k \in S /\ cover["fg"][k] = "held" /\ LeaseHeld(k)
      BY <1>34, <1>t, <1>p DEF FgCrash, Inherit
    <3>2. CASE cover["orphan"][k] = "held"
      <4>1. /\ OwnRow("stale", k)
            /\ ~lock[SessionOf[k]].expired /\ ~lock[SessionOf[k]].foreign
        BY <3>2 DEF CoverInv, OrphanCovered
      <4>2. lock'[SessionOf[k]] = lock[SessionOf[k]]
        BY <1>34, <4>1, <1>t DEF FgCrash, Abandon, OwnRow
      <4> QED
        BY <4>1, <4>2 DEF OwnRow, HasRow
    <3>3. CASE k \in S /\ cover["fg"][k] = "held" /\ LeaseHeld(k)
      <4>1. wk["fg"][k] = "running" /\ k = j
        BY <1>34, <3>3 DEF FgCrash
      <4>2. OwnRow("fg", k)
        BY <4>1, <3>3, <1>p DEF CoverInv, WorkerCovered
      <4>3. ~lock[SessionOf[k]].expired
        BY <3>3, <1>r DEF LeaseHeld, RowInv
      <4>4. ~lock[SessionOf[k]].foreign
        BY <4>2, <1>p DEF RowInv, OwnRow
      <4>5. lock'[SessionOf[k]] = [lock[SessionOf[k]] EXCEPT !.tok = "stale"]
        BY <1>34, <4>1, <4>2 DEF FgCrash, Abandon, OwnRow
      <4>6. /\ lock'[SessionOf[k]] \in LockRow
            /\ lock'[SessionOf[k]].owner = k /\ lock'[SessionOf[k]].tok = "stale"
            /\ lock'[SessionOf[k]].expired = lock[SessionOf[k]].expired
            /\ lock'[SessionOf[k]].foreign = lock[SessionOf[k]].foreign
        BY <4>2, <4>5, <1>r DEF LockRow, OwnRow
      <4> QED
        BY <4>2, <4>3, <4>4, <4>6, ConstantsAssumption DEF OwnRow, HasRow
    <3> QED
      BY <3>1, <3>2, <3>3
  <2> QED
    BY <2>1, <2>2 DEF CoverInv
<1>35. ASSUME Reboot PROVE CoverInv'
  BY <1>35, <1>t, <1>p, <1>r DEF Reboot, CoverInv, WorkerCovered, OrphanCovered,
     OwnRow, HasRow, rows
<1>36. ASSUME NEW j \in Jobs, OrphanExit(j) PROVE CoverInv'
  BY <1>36, <1>t, <1>p, <1>r DEF OrphanExit, CoverInv, WorkerCovered,
     OrphanCovered, OwnRow, HasRow, rows
<1>37. ASSUME NEW j \in Jobs, List(j) \/ DropListed(j) \/ HoldElapse(j) \/ RetryRead(j) \/
             OpCrash(j) \/ Age(j) \/ CheckLease(j) \/ StartupSettle(j)
      PROVE  UNCHANGED <<cover, lock, state, wk>>
  BY <1>37 DEF Age, CheckLease, DropListed, HoldElapse, List, OpCrash, RetryRead,
     StartupSettle, rows, daemonVars, operatorVars
<1>38. ASSUME Kill \/ DaemonStart \/ TickStart \/ StaleDone \/ StartupDone
      PROVE  UNCHANGED <<cover, lock, state, wk>>
  BY <1>38 DEF DaemonStart, Goto, Kill, StaleDone, StartupDone, TickStart, rows,
     daemonVars, operatorVars
<1>39. CASE UNCHANGED vars
  BY <1>39, <1>u DEF vars, rows, daemonVars, operatorVars
<1> QED
  BY <1>u, <1>1, <1>2, <1>3, <1>4, <1>5, <1>6, <1>7, <1>8, <1>9, <1>10, <1>11,
     <1>12, <1>13, <1>14, <1>15, <1>16, <1>17, <1>18, <1>19, <1>20, <1>21, <1>22,
     <1>23, <1>24, <1>25, <1>26, <1>27, <1>28, <1>29, <1>30, <1>31, <1>32, <1>33,
     <1>34, <1>35, <1>36, <1>37, <1>38, <1>39
     DEF Next, WorkerStep, DaemonStep, FgStep, OperatorStep, RecoveryStep, Failure, Time

\* Every step keeps SkipInv.
LEMMA SkipInvStep == Inv /\ [Next]_vars => SkipInv'
<1> SUFFICES ASSUME TypeOK, RowInv, WorkerInv, CoverInv, SkipInv, [Next]_vars PROVE SkipInv'
  BY DEF Inv
<1>t. /\ wk \in [Procs -> [Jobs -> Phases]] /\ lock \in [Sessions -> LockRow \cup {NoLock}]
      /\ pass \in Passes /\ cur \in Jobs \cup {NoJob} /\ skip \subseteq Jobs /\ todo \subseteq Jobs
  BY DEF TypeOK
<1>r. \A s \in Sessions : HasRow(s) =>
         /\ lock[s] \in LockRow /\ lock[s].owner \in Jobs
         /\ lock[s].tok \in Procs \cup {"stale"} /\ lock[s].expired \in BOOLEAN
  BY DEF TypeOK, HasRow, LockRow
<1>n. NoJob \notin Jobs
  BY ConstantsAssumption
<1>u. ASSUME UNCHANGED <<cur, lock, pass, skip, todo>> PROVE SkipInv'
  BY <1>u DEF SkipInv, InPass, HasRow, Procs, rows, daemonVars
<1>1. ASSUME NEW p \in Procs, NEW j \in Jobs, Acquire(p, j) PROVE SkipInv'
  BY <1>1, <1>t, <1>r, <1>n DEF Acquire, SetPhase, SkipInv, InPass, HasRow, Procs,
     rows, daemonVars
<1>2. ASSUME NEW s \in Sessions, Heartbeat(s) PROVE SkipInv'
  BY <1>2, <1>t, <1>r, <1>n DEF Heartbeat, SkipInv, InPass, HasRow, Procs, rows,
     daemonVars
<1>3. ASSUME NEW s \in Sessions, LeaseLapse(s) PROVE SkipInv'
  BY <1>3, <1>t, <1>r, <1>n DEF LeaseLapse, Uncover, Quiet, SkipInv, InPass,
     HasRow, Procs, rows, daemonVars
<1>4. ASSUME NEW p \in Procs, NEW j \in Jobs, Release(p, j) PROVE SkipInv'
  BY <1>4, <1>t, <1>r, <1>n DEF Release, SetPhase, DropRow, SkipInv, InPass,
     HasRow, Procs, rows, daemonVars
<1>5. ASSUME NEW j \in Jobs, CancelDropLocks(j) PROVE SkipInv'
  BY <1>5, <1>t, <1>r, <1>n DEF CancelDropLocks, DropOwned, Uncover, SkipInv,
     InPass, HasRow, Procs, rows, daemonVars
<1>6. ASSUME NEW j \in Jobs, KillUnlock(j) PROVE SkipInv'
  BY <1>6, <1>t, <1>r, <1>n DEF KillUnlock, DropOwned, Uncover, SkipInv, InPass,
     HasRow, Procs, rows, daemonVars
<1>7. ASSUME DaemonStart PROVE SkipInv'
  BY <1>7, <1>t, <1>r, <1>n DEF DaemonStart, Goto, RowInv, WorkerInv, Starting,
     SkipInv, InPass, HasRow, Procs, rows, daemonVars
<1>8. ASSUME TickStart PROVE SkipInv'
  BY <1>8, <1>t, <1>r, <1>n DEF TickStart, Goto, RowInv, InFlight, SkipInv, InPass,
     HasRow, Procs, rows, daemonVars
<1>9. ASSUME NEW j \in Jobs, RecoverExpired(j) PROVE SkipInv'
  BY <1>9, <1>t, <1>r, <1>n DEF RecoverExpired, Cas, SetState, SkipInv, InPass,
     HasRow, Procs, rows, daemonVars
<1>10. ASSUME ReapExpired PROVE SkipInv'
  BY <1>10, <1>t, <1>r, <1>n DEF ReapExpired, RowInv, WorkerInv, Starting, SkipInv,
     InPass, HasRow, Procs, rows, daemonVars
<1>11. ASSUME RequeueForeignBoot PROVE SkipInv'
  BY <1>11, <1>t, <1>r, <1>n DEF RequeueForeignBoot, SkipInv, InPass, HasRow,
     Procs, rows, daemonVars
<1>12. ASSUME ReleaseForeignLocks PROVE SkipInv'
  BY <1>12, <1>t, <1>r, <1>n DEF ReleaseForeignLocks, Goto, SkipInv, InPass,
     HasRow, Procs, rows, daemonVars
<1>13. ASSUME NEW j \in Jobs, CheckLease(j) PROVE SkipInv'
  BY <1>13, <1>t, <1>r, <1>n DEF CheckLease, SkipInv, InPass, HasRow, Procs, rows,
     daemonVars
<1>14. ASSUME RequeueStale PROVE SkipInv'
  BY <1>14, <1>t, <1>r, <1>n DEF RequeueStale, Cas, SetState, SkipInv, InPass,
     HasRow, Procs, rows, daemonVars
<1>15. ASSUME StaleDone PROVE SkipInv'
  BY <1>15, <1>t, <1>r, <1>n DEF StaleDone, Goto, SkipInv, InPass, HasRow, Procs,
     rows, daemonVars
<1>16. ASSUME NEW j \in Jobs, StartupSettle(j) PROVE SkipInv'
  BY <1>16, <1>t, <1>r, <1>n DEF StartupSettle, SkipInv, InPass, HasRow, Procs,
     rows, daemonVars
<1>17. ASSUME StartupDone PROVE SkipInv'
  BY <1>17, <1>t, <1>r, <1>n DEF StartupDone, SkipInv, InPass, HasRow, Procs, rows,
     daemonVars
<1>18. ASSUME NEW S \in SUBSET Jobs, DaemonCrash(S) PROVE SkipInv'
  BY <1>18, <1>t, <1>r, <1>n DEF DaemonCrash, Inherit, Abandon, SkipInv, InPass,
     HasRow, Procs, rows, daemonVars
<1>19. ASSUME NEW j \in Jobs, NEW S \in SUBSET Jobs, FgCrash(j, S) PROVE SkipInv'
  BY <1>19, <1>t, <1>r, <1>n DEF FgCrash, Inherit, Abandon, SkipInv, InPass,
     HasRow, Procs, rows, daemonVars
<1>20. ASSUME Reboot PROVE SkipInv'
  BY <1>20, <1>t, <1>r, <1>n DEF Reboot, SkipInv, InPass, HasRow, Procs, rows,
     daemonVars
<1>21. ASSUME NEW j \in Jobs, Enqueue(j) \/ FgDispatch(j) \/ List(j) \/ DropListed(j) \/
             Dispatch(j) \/ PreflightDefer(j) \/ HoldElapse(j) \/
             DaemonBusy(j) \/ FgBusy(j) \/ FgGiveUp(j) \/
             DeferHold(j) \/ DeferRequeue(j) \/ HandleRunError(j) \/
             Cancel(j) \/ Supersede(j) \/ RetryRead(j) \/
             RetryCommit(j) \/ OpCrash(j) \/ KillCancel(j) \/
             Age(j) \/ OrphanExit(j)
      PROVE  UNCHANGED <<cur, lock, pass, skip, todo>>
  BY <1>21 DEF Age, Cancel, CancelUncover, Cas, DaemonBusy, DeferHold,
     DeferRequeue, Dispatch, DropListed, Enqueue, FgBusy, FgDispatch, FgGiveUp,
     HandleRunError, HoldElapse, KillCancel, List, OpCrash, OrphanExit,
     PreflightDefer, RetryCommit, RetryRead, SetPhase, SetState, Supersede,
     Uncover, rows, daemonVars, operatorVars
<1>22. ASSUME NEW j \in Jobs, NEW st \in States, PreflightFail(j, st) \/ SetupFail(j, st)
      PROVE  UNCHANGED <<cur, lock, pass, skip, todo>>
  BY <1>22 DEF Cas, PreflightFail, SetPhase, SetState, SetupFail, rows, daemonVars,
     operatorVars
<1>23. ASSUME NEW p \in Procs, NEW j \in Jobs, Claim(p, j) \/ RunFail(p, j) \/ RunAbort(p, j) \/ AdvanceDone(p, j)
      PROVE  UNCHANGED <<cur, lock, pass, skip, todo>>
  BY <1>23 DEF AdvanceDone, AfterError, Cas, Claim, RunAbort, RunFail, SetPhase,
     SetState, rows, daemonVars, operatorVars
<1>24. ASSUME NEW p \in Procs, NEW j \in Jobs, NEW st \in States, RunFinish(p, j, st)
      PROVE  UNCHANGED <<cur, lock, pass, skip, todo>>
  BY <1>24 DEF AfterError, Cas, RunFinish, SetPhase, SetState, rows, daemonVars,
     operatorVars
<1>25. ASSUME Kill
      PROVE  UNCHANGED <<cur, lock, pass, skip, todo>>
  BY <1>25 DEF Kill, rows, daemonVars, operatorVars
<1>26. CASE UNCHANGED vars
  BY <1>26, <1>u DEF vars, rows, daemonVars, operatorVars
<1> QED
  BY <1>u, <1>1, <1>2, <1>3, <1>4, <1>5, <1>6, <1>7, <1>8, <1>9, <1>10, <1>11,
     <1>12, <1>13, <1>14, <1>15, <1>16, <1>17, <1>18, <1>19, <1>20, <1>21, <1>22,
     <1>23, <1>24, <1>25, <1>26
     DEF Next, WorkerStep, DaemonStep, FgStep, OperatorStep, RecoveryStep, Failure, Time

\* Every step leaves terminal rows as LeavesTerminalOnPurpose says.
LEMMA TerminalStep == TypeOK /\ [Next]_vars => LeavesTerminalOnPurpose
<1> SUFFICES ASSUME TypeOK, [Next]_vars PROVE LeavesTerminalOnPurpose
  OBVIOUS
<1>t. /\ state \in [Jobs -> States] /\ op \in [Jobs -> {"idle", "dropping", "failed", "blocked", "cancelled"}]
  BY DEF TypeOK
<1>u. ASSUME UNCHANGED <<state>> PROVE LeavesTerminalOnPurpose
  BY <1>u DEF LeavesTerminalOnPurpose, Terminal, rows
<1>1. ASSUME NEW j \in Jobs, Enqueue(j) PROVE LeavesTerminalOnPurpose
  BY <1>1, <1>t DEF Enqueue, SetState, LeavesTerminalOnPurpose, Terminal, rows
<1>2. ASSUME NEW j \in Jobs, FgDispatch(j) PROVE LeavesTerminalOnPurpose
  BY <1>2, <1>t DEF FgDispatch, SetState, SetPhase, LeavesTerminalOnPurpose,
     Terminal, rows
<1>3. ASSUME NEW j \in Jobs, NEW st \in States, PreflightFail(j, st) PROVE LeavesTerminalOnPurpose
  BY <1>3, <1>t DEF PreflightFail, Cas, SetState, SetPhase,
     LeavesTerminalOnPurpose, Terminal, rows
<1>4. ASSUME NEW j \in Jobs, FgBusy(j) PROVE LeavesTerminalOnPurpose
  BY <1>4, <1>t DEF FgBusy, Cas, SetState, SetPhase, LeavesTerminalOnPurpose,
     Terminal, rows
<1>5. ASSUME NEW j \in Jobs, NEW st \in States, SetupFail(j, st) PROVE LeavesTerminalOnPurpose
  BY <1>5, <1>t DEF SetupFail, Cas, SetState, SetPhase, LeavesTerminalOnPurpose,
     Terminal, rows
<1>6. ASSUME NEW p \in Procs, NEW j \in Jobs, Claim(p, j) PROVE LeavesTerminalOnPurpose
  BY <1>6, <1>t DEF Claim, SetState, SetPhase, AfterError, LeavesTerminalOnPurpose,
     Terminal, rows
<1>7. ASSUME NEW p \in Procs, NEW j \in Jobs, NEW st \in States, RunFinish(p, j, st)
      PROVE  LeavesTerminalOnPurpose
  BY <1>7, <1>t DEF RunFinish, Cas, SetState, SetPhase, AfterError,
     LeavesTerminalOnPurpose, Terminal, rows
<1>8. ASSUME NEW p \in Procs, NEW j \in Jobs, RunFail(p, j) PROVE LeavesTerminalOnPurpose
  BY <1>8, <1>t DEF RunFail, Cas, SetState, SetPhase, AfterError,
     LeavesTerminalOnPurpose, Terminal, rows
<1>9. ASSUME NEW j \in Jobs, DeferRequeue(j) PROVE LeavesTerminalOnPurpose
  BY <1>9, <1>t DEF DeferRequeue, Cas, SetState, SetPhase, LeavesTerminalOnPurpose,
     Terminal, rows
<1>10. ASSUME NEW j \in Jobs, HandleRunError(j) PROVE LeavesTerminalOnPurpose
  BY <1>10, <1>t DEF HandleRunError, SetState, SetPhase, LeavesTerminalOnPurpose,
     Terminal, rows
<1>11. ASSUME NEW j \in Jobs, Cancel(j) PROVE LeavesTerminalOnPurpose
  BY <1>11, <1>t DEF Cancel, SetState, CancelUncover, Uncover,
     LeavesTerminalOnPurpose, Terminal, rows
<1>12. ASSUME NEW j \in Jobs, Supersede(j) PROVE LeavesTerminalOnPurpose
  BY <1>12, <1>t DEF Supersede, SetState, CancelUncover, Uncover,
     LeavesTerminalOnPurpose, Terminal, rows
<1>13. ASSUME NEW j \in Jobs, RetryCommit(j) PROVE LeavesTerminalOnPurpose
  BY <1>13, <1>t DEF RetryCommit, Cas, SetState, LeavesTerminalOnPurpose, Terminal,
     rows
<1>14. ASSUME NEW j \in Jobs, KillCancel(j) PROVE LeavesTerminalOnPurpose
  BY <1>14, <1>t DEF KillCancel, Cas, SetState, LeavesTerminalOnPurpose, Terminal,
     rows
<1>15. ASSUME NEW j \in Jobs, RecoverExpired(j) PROVE LeavesTerminalOnPurpose
  BY <1>15, <1>t DEF RecoverExpired, Cas, SetState, LeavesTerminalOnPurpose,
     Terminal, rows
<1>16. ASSUME RequeueForeignBoot PROVE LeavesTerminalOnPurpose
  BY <1>16, <1>t DEF RequeueForeignBoot, LeavesTerminalOnPurpose, Terminal, rows
<1>17. ASSUME RequeueStale PROVE LeavesTerminalOnPurpose
  BY <1>17, <1>t DEF RequeueStale, Cas, SetState, LeavesTerminalOnPurpose,
     Terminal, rows
<1>18. ASSUME NEW j \in Jobs, List(j) \/ DropListed(j) \/ Dispatch(j) \/ PreflightDefer(j) \/
             HoldElapse(j) \/ DaemonBusy(j) \/ FgGiveUp(j) \/
             DeferHold(j) \/ CancelDropLocks(j) \/ RetryRead(j) \/
             OpCrash(j) \/ KillUnlock(j) \/ Age(j) \/
             CheckLease(j) \/ StartupSettle(j) \/ OrphanExit(j)
      PROVE  UNCHANGED <<state>>
  BY <1>18 DEF Age, CancelDropLocks, CheckLease, DaemonBusy, DeferHold, Dispatch,
     DropListed, DropOwned, FgGiveUp, HoldElapse, KillUnlock, List, OpCrash,
     OrphanExit, PreflightDefer, RetryRead, SetPhase, StartupSettle, Uncover, rows,
     daemonVars, operatorVars
<1>19. ASSUME NEW p \in Procs, NEW j \in Jobs, Acquire(p, j) \/ Release(p, j) \/ RunAbort(p, j) \/ AdvanceDone(p, j)
      PROVE  UNCHANGED <<state>>
  BY <1>19 DEF Acquire, AdvanceDone, AfterError, DropRow, Release, RunAbort,
     SetPhase, rows, daemonVars, operatorVars
<1>20. ASSUME NEW s \in Sessions, Heartbeat(s) \/ LeaseLapse(s)
      PROVE  UNCHANGED <<state>>
  BY <1>20 DEF Heartbeat, LeaseLapse, Uncover, rows, daemonVars, operatorVars
<1>21. ASSUME Kill \/ DaemonStart \/ TickStart \/ ReapExpired \/
             ReleaseForeignLocks \/ StaleDone \/ StartupDone \/ Reboot
      PROVE  UNCHANGED <<state>>
  BY <1>21 DEF DaemonStart, Goto, Kill, ReapExpired, Reboot, ReleaseForeignLocks,
     StaleDone, StartupDone, TickStart, rows, daemonVars, operatorVars
<1>22. ASSUME NEW S \in SUBSET Jobs, DaemonCrash(S)
      PROVE  UNCHANGED <<state>>
  BY <1>22 DEF Abandon, DaemonCrash, Inherit, rows, daemonVars, operatorVars
<1>23. ASSUME NEW j \in Jobs, NEW S \in SUBSET Jobs, FgCrash(j, S)
      PROVE  UNCHANGED <<state>>
  BY <1>23 DEF Abandon, FgCrash, Inherit, rows, daemonVars, operatorVars
<1>24. CASE UNCHANGED vars
  BY <1>24, <1>u DEF vars, rows, daemonVars, operatorVars
<1> QED
  BY <1>u, <1>1, <1>2, <1>3, <1>4, <1>5, <1>6, <1>7, <1>8, <1>9, <1>10, <1>11,
     <1>12, <1>13, <1>14, <1>15, <1>16, <1>17, <1>18, <1>19, <1>20, <1>21, <1>22,
     <1>23, <1>24
     DEF Next, WorkerStep, DaemonStep, FgStep, OperatorStep, RecoveryStep, Failure, Time

-----------------------------------------------------------------------------
(* The theorems *)

\* The initial state satisfies the invariant.
LEMMA InitInv == Init => Inv
<1> SUFFICES ASSUME Init PROVE Inv
  OBVIOUS
<1>1. TypeOK
  <2>1. 0 \in 0 .. MaxBlockerRetries /\ 0 \in 0 .. MaxCrashes
    BY ConstantsAssumption
  <2>2. /\ attempts \in [Jobs -> 0 .. MaxBlockerRetries]
        /\ crashes \in 0 .. MaxCrashes
    BY <2>1 DEF Init
  <2>3. /\ wk \in [Procs -> [Jobs -> Phases]]
        /\ cover \in [Holders -> [Jobs -> Covers]]
    BY DEF Init, Phases, Covers
  <2> QED
    BY <2>2, <2>3 DEF Init, TypeOK, States, Passes
<1>2. RowInv
  BY DEF Init, RowInv, HasRow
<1>3. WorkerInv
  BY ConstantsAssumption DEF Init, WorkerInv, Procs, Holders
<1>4. CoverInv
  BY DEF Init, CoverInv, WorkerCovered, OrphanCovered, Procs, Holders
<1>5. SkipInv
  BY DEF Init, SkipInv, InPass
<1> QED
  BY <1>1, <1>2, <1>3, <1>4, <1>5 DEF Inv

\* Every step keeps the invariant.
LEMMA InvStep == Inv /\ [Next]_vars => Inv'
<1> SUFFICES ASSUME Inv, [Next]_vars PROVE Inv'
  OBVIOUS
<1>1. TypeOK'
  BY TypeStep DEF Inv
<1>2. RowInv' /\ WorkerInv' /\ CoverInv' /\ SkipInv'
  BY RowStep, WorkerInvStep, CoverInvStep, SkipInvStep
<1> QED
  BY <1>1, <1>2 DEF Inv

\* A runtime that is executing and covered is the one its session's row names.
LEMMA CoveredLive ==
    ASSUME Inv, NEW r \in Live, cover[r[1]][r[2]] = "held"
    PROVE  /\ lock[SessionOf[r[2]]].owner = r[2]
           /\ Holder(lock[SessionOf[r[2]]]) = r[1]
<1>1. r[1] \in Holders /\ r[2] \in Jobs
  BY DEF Live
<1>2. CASE r[1] = "orphan"
  BY <1>1, <1>2 DEF Inv, CoverInv, OrphanCovered, OwnRow, Holder
<1>3. CASE r[1] # "orphan"
  <2>1. r[1] \in Procs /\ wk[r[1]][r[2]] = "running"
    BY <1>1, <1>3 DEF Live, Holders
  <2>2. OwnRow(r[1], r[2])
    BY <2>1, <1>1 DEF Inv, CoverInv, WorkerCovered
  <2> QED
    BY <2>1, <2>2 DEF OwnRow, Holder, Procs
<1> QED
  BY <1>2, <1>3

\* The invariant implies that covered runtimes exclude one another.
LEMMA ExclusiveFromInv == Inv => SessionExclusive
<1> SUFFICES ASSUME Inv, NEW a \in Live, NEW b \in Live,
                    SessionOf[a[2]] = SessionOf[b[2]],
                    cover[a[1]][a[2]] = "held", cover[b[1]][b[2]] = "held"
             PROVE  a = b
  BY DEF SessionExclusive
<1>1. a[1] = b[1] /\ a[2] = b[2]
  BY CoveredLive
<1>2. a \in Holders \X Jobs /\ b \in Holders \X Jobs
  BY DEF Live
<1> QED
  BY <1>1, <1>2

\* The columns, the locks and the workers keep their types in every behaviour;
\* the shared blocker-retry budget is never exceeded.
THEOREM TypeCorrect == Spec => []TypeOK
<1>1. Init => TypeOK
  BY InitInv DEF Inv
<1> QED
  BY <1>1, TypeStep, PTL DEF Spec

\* Inv is an invariant of the program.
LEMMA InvHolds == Spec => []Inv
  BY InitInv, InvStep, PTL DEF Spec

\* Two covered runtimes never drive one session, for any number of jobs,
\* sessions, foreground processes, orphans, crashes and reboots, whether the
\* pool or the barrier dispatches.
THEOREM SessionSafety == Spec => []SessionExclusive
  BY InvHolds, ExclusiveFromInv, PTL

\* A covered run holds its own row: neither recovery nor another worker's
\* release ever takes it.
THEOREM RowOwnership == Spec => []CoveredRunOwnsRow
<1>1. Inv => CoveredRunOwnsRow
  BY DEF Inv, CoverInv, WorkerCovered, CoveredRunOwnsRow
<1> QED
  BY <1>1, InvHolds, PTL

\* Terminal rows are only left by a retry, by the cancel of a blocked job or by
\* the failing worker's own permission verdict.
THEOREM TerminalRespected == Spec => TerminalLeftOnPurpose
<1>1. TypeOK /\ [Next]_vars => [LeavesTerminalOnPurpose]_vars
  BY TerminalStep
<1> QED
  BY <1>1, TypeCorrect, PTL DEF Spec, TerminalLeftOnPurpose

-----------------------------------------------------------------------------
(* The barrier dispatcher: jobs in flight are never requeued *)

\* Within a pass, every job in flight is skipped.
LEMMA InFlightStep == ~PoolDispatch /\ BarrierInv /\ [Next]_vars => InFlightInv'
<1> SUFFICES ASSUME ~PoolDispatch, TypeOK, RowInv, WorkerInv, CoverInv, SkipInv, InFlightInv, RetryInv,
                    ActiveRunAccounted, [Next]_vars
             PROVE  InFlightInv'
  BY DEF BarrierInv, Inv
<1>t. /\ wk \in [Procs -> [Jobs -> Phases]] /\ state \in [Jobs -> States]
      /\ unsettled \in [Jobs -> BOOLEAN] /\ cur \in Jobs \cup {NoJob}
      /\ op \in [Jobs -> {"idle", "dropping", "failed", "blocked", "cancelled"}]
      /\ skip \subseteq Jobs /\ foreign \subseteq Jobs
  BY DEF TypeOK
<1>p. "daemon" \in Procs /\ "fg" \in Procs /\ FgJobs \subseteq Jobs /\ NoJob \notin Jobs
  BY ConstantsAssumption DEF Procs
<1>u. ASSUME UNCHANGED <<listed, pass, skip, wk>> PROVE InFlightInv'
  BY <1>u DEF InFlightInv, InPass, InFlight, rows, daemonVars
<1>1. ASSUME NEW j \in Jobs, FgDispatch(j) PROVE InFlightInv'
  BY <1>1, <1>t, <1>p DEF FgDispatch, SetState, SetPhase, InFlightInv, InPass,
     InFlight, rows, daemonVars
<1>2. ASSUME NEW j \in Jobs, List(j) PROVE InFlightInv'
  BY <1>2, <1>t, <1>p DEF List, Dispatching, InFlightInv, InPass, InFlight, rows,
     daemonVars
<1>3. ASSUME NEW j \in Jobs, DropListed(j) PROVE InFlightInv'
  BY <1>3, <1>t, <1>p DEF DropListed, InFlightInv, InPass, InFlight, rows,
     daemonVars
<1>4. ASSUME NEW j \in Jobs, Dispatch(j) PROVE InFlightInv'
  BY <1>4, <1>t, <1>p DEF Dispatch, SetPhase, InFlightInv, InPass, InFlight, rows,
     daemonVars
<1>5. ASSUME NEW j \in Jobs, NEW st \in States, PreflightFail(j, st) PROVE InFlightInv'
  BY <1>5, <1>t, <1>p DEF PreflightFail, Cas, SetState, SetPhase, InFlightInv,
     InPass, InFlight, rows, daemonVars
<1>6. ASSUME NEW j \in Jobs, PreflightDefer(j) PROVE InFlightInv'
  BY <1>6, <1>t, <1>p DEF PreflightDefer, SetPhase, InFlightInv, InPass, InFlight,
     rows, daemonVars
<1>7. ASSUME NEW p \in Procs, NEW j \in Jobs, Acquire(p, j) PROVE InFlightInv'
  BY <1>7, <1>t, <1>p DEF Acquire, SetPhase, InFlightInv, InPass, InFlight, rows,
     daemonVars
<1>8. ASSUME NEW j \in Jobs, DaemonBusy(j) PROVE InFlightInv'
  BY <1>8, <1>t, <1>p DEF DaemonBusy, SetPhase, InFlightInv, InPass, InFlight,
     rows, daemonVars
<1>9. ASSUME NEW j \in Jobs, FgBusy(j) PROVE InFlightInv'
  BY <1>9, <1>t, <1>p DEF FgBusy, Cas, SetState, SetPhase, InFlightInv, InPass,
     InFlight, rows, daemonVars
<1>10. ASSUME NEW p \in Procs, NEW j \in Jobs, Release(p, j) PROVE InFlightInv'
  BY <1>10, <1>t, <1>p DEF Release, SetPhase, DropRow, InFlightInv, InPass,
     InFlight, rows, daemonVars
<1>11. ASSUME NEW j \in Jobs, NEW st \in States, SetupFail(j, st) PROVE InFlightInv'
  BY <1>11, <1>t, <1>p DEF SetupFail, Cas, SetState, SetPhase, InFlightInv, InPass,
     InFlight, rows, daemonVars
<1>12. ASSUME NEW j \in Jobs, FgGiveUp(j) PROVE InFlightInv'
  BY <1>12, <1>t, <1>p DEF FgGiveUp, SetPhase, InFlightInv, InPass, InFlight, rows,
     daemonVars
<1>13. ASSUME NEW p \in Procs, NEW j \in Jobs, Claim(p, j) PROVE InFlightInv'
  BY <1>13, <1>t, <1>p DEF Claim, SetState, SetPhase, AfterError, InFlightInv,
     InPass, InFlight, rows, daemonVars
<1>14. ASSUME NEW p \in Procs, NEW j \in Jobs, NEW st \in States, RunFinish(p, j, st) PROVE InFlightInv'
  BY <1>14, <1>t, <1>p DEF RunFinish, Cas, SetState, SetPhase, AfterError,
     InFlightInv, InPass, InFlight, rows, daemonVars
<1>15. ASSUME NEW p \in Procs, NEW j \in Jobs, RunFail(p, j) PROVE InFlightInv'
  BY <1>15, <1>t, <1>p DEF RunFail, Cas, SetState, SetPhase, AfterError,
     InFlightInv, InPass, InFlight, rows, daemonVars
<1>16. ASSUME NEW p \in Procs, NEW j \in Jobs, RunAbort(p, j) PROVE InFlightInv'
  BY <1>16, <1>t, <1>p DEF RunAbort, SetPhase, AfterError, InFlightInv, InPass,
     InFlight, rows, daemonVars
<1>17. ASSUME NEW j \in Jobs, DeferHold(j) PROVE InFlightInv'
  BY <1>17, <1>t, <1>p DEF DeferHold, SetPhase, InFlightInv, InPass, InFlight,
     rows, daemonVars
<1>18. ASSUME NEW j \in Jobs, DeferRequeue(j) PROVE InFlightInv'
  BY <1>18, <1>t, <1>p DEF DeferRequeue, Cas, SetState, SetPhase, InFlightInv,
     InPass, InFlight, rows, daemonVars
<1>19. ASSUME NEW p \in Procs, NEW j \in Jobs, AdvanceDone(p, j) PROVE InFlightInv'
  BY <1>19, <1>t, <1>p DEF AdvanceDone, SetPhase, AfterError, InFlightInv, InPass,
     InFlight, rows, daemonVars
<1>20. ASSUME NEW j \in Jobs, HandleRunError(j) PROVE InFlightInv'
  BY <1>20, <1>t, <1>p DEF HandleRunError, SetState, SetPhase, InFlightInv, InPass,
     InFlight, rows, daemonVars
<1>21. ASSUME DaemonStart PROVE InFlightInv'
  BY <1>21, <1>t, <1>p DEF DaemonStart, Goto, WorkerInv, Starting, InFlightInv,
     InPass, InFlight, rows, daemonVars
<1>22. ASSUME TickStart PROVE InFlightInv'
  BY <1>22, <1>t, <1>p DEF TickStart, Goto, InFlightInv, InPass, InFlight, rows,
     daemonVars
<1>23. ASSUME ReapExpired PROVE InFlightInv'
  BY <1>23, <1>t, <1>p DEF ReapExpired, WorkerInv, Starting, InFlightInv, InPass,
     InFlight, rows, daemonVars
<1>24. ASSUME RequeueForeignBoot PROVE InFlightInv'
  BY <1>24, <1>t, <1>p DEF RequeueForeignBoot, InFlightInv, InPass, InFlight, rows,
     daemonVars
<1>25. ASSUME ReleaseForeignLocks PROVE InFlightInv'
  BY <1>25, <1>t, <1>p DEF ReleaseForeignLocks, Goto, InFlightInv, InPass,
     InFlight, rows, daemonVars
<1>26. ASSUME StaleDone PROVE InFlightInv'
  BY <1>26, <1>t, <1>p DEF StaleDone, Goto, InFlightInv, InPass, InFlight, rows,
     daemonVars
<1>27. ASSUME StartupDone PROVE InFlightInv'
  BY <1>27, <1>t, <1>p DEF StartupDone, WorkerInv, Starting, InFlightInv, InPass,
     InFlight, rows, daemonVars
<1>28. ASSUME NEW S \in SUBSET Jobs, DaemonCrash(S) PROVE InFlightInv'
  BY <1>28, <1>t, <1>p DEF DaemonCrash, Inherit, Abandon, InFlightInv, InPass,
     InFlight, rows, daemonVars
<1>29. ASSUME NEW j \in Jobs, NEW S \in SUBSET Jobs, FgCrash(j, S) PROVE InFlightInv'
  BY <1>29, <1>t, <1>p DEF FgCrash, Inherit, Abandon, SetPhase, InFlightInv,
     InPass, InFlight, rows, daemonVars
<1>30. ASSUME Reboot PROVE InFlightInv'
  BY <1>30, <1>t, <1>p DEF Reboot, InFlightInv, InPass, InFlight, rows, daemonVars
<1>31. ASSUME NEW j \in Jobs, Enqueue(j) \/ HoldElapse(j) \/ Cancel(j) \/ CancelDropLocks(j) \/
             Supersede(j) \/ RetryRead(j) \/ RetryCommit(j) \/
             OpCrash(j) \/ KillCancel(j) \/ KillUnlock(j) \/
             Age(j) \/ RecoverExpired(j) \/ CheckLease(j) \/
             StartupSettle(j) \/ OrphanExit(j)
      PROVE  UNCHANGED <<listed, pass, skip, wk>>
  BY <1>31 DEF Age, Cancel, CancelDropLocks, CancelUncover, Cas, CheckLease,
     DropOwned, Enqueue, HoldElapse, KillCancel, KillUnlock, OpCrash, OrphanExit,
     RecoverExpired, RetryCommit, RetryRead, SetState, StartupSettle, Supersede,
     Uncover, rows, daemonVars, operatorVars
<1>32. ASSUME NEW s \in Sessions, Heartbeat(s) \/ LeaseLapse(s)
      PROVE  UNCHANGED <<listed, pass, skip, wk>>
  BY <1>32 DEF Heartbeat, LeaseLapse, Uncover, rows, daemonVars, operatorVars
<1>33. ASSUME Kill \/ RequeueStale
      PROVE  UNCHANGED <<listed, pass, skip, wk>>
  BY <1>33 DEF Cas, Kill, RequeueStale, SetState, rows, daemonVars, operatorVars
<1>34. CASE UNCHANGED vars
  BY <1>34, <1>u DEF vars, rows, daemonVars, operatorVars
<1> QED
  BY <1>u, <1>1, <1>2, <1>3, <1>4, <1>5, <1>6, <1>7, <1>8, <1>9, <1>10, <1>11,
     <1>12, <1>13, <1>14, <1>15, <1>16, <1>17, <1>18, <1>19, <1>20, <1>21, <1>22,
     <1>23, <1>24, <1>25, <1>26, <1>27, <1>28, <1>29, <1>30, <1>31, <1>32, <1>33,
     <1>34
     DEF Next, WorkerStep, DaemonStep, FgStep, OperatorStep, RecoveryStep, Failure, Time

\* Between its two statements, a retry that read a settled cancelled row still
\* faces one.
LEMMA RetryStep == BarrierInv /\ [Next]_vars => RetryInv'
<1> SUFFICES ASSUME TypeOK, RowInv, WorkerInv, CoverInv, SkipInv, InFlightInv, RetryInv,
                    ActiveRunAccounted, [Next]_vars
             PROVE  RetryInv'
  BY DEF BarrierInv, Inv
<1>t. /\ wk \in [Procs -> [Jobs -> Phases]] /\ state \in [Jobs -> States]
      /\ unsettled \in [Jobs -> BOOLEAN] /\ cur \in Jobs \cup {NoJob}
      /\ op \in [Jobs -> {"idle", "dropping", "failed", "blocked", "cancelled"}]
      /\ skip \subseteq Jobs /\ foreign \subseteq Jobs
  BY DEF TypeOK
<1>p. "daemon" \in Procs /\ "fg" \in Procs /\ FgJobs \subseteq Jobs /\ NoJob \notin Jobs
  BY ConstantsAssumption DEF Procs
<1>u. ASSUME UNCHANGED <<op, state, unsettled>> PROVE RetryInv'
  BY <1>u DEF RetryInv, rows, operatorVars
<1>1. ASSUME NEW j \in Jobs, Enqueue(j) PROVE RetryInv'
  BY <1>1, <1>t, <1>p DEF Enqueue, SetState, RetryInv, rows, operatorVars
<1>2. ASSUME NEW j \in Jobs, FgDispatch(j) PROVE RetryInv'
  BY <1>2, <1>t, <1>p DEF FgDispatch, SetState, SetPhase, RetryInv, rows,
     operatorVars
<1>3. ASSUME NEW j \in Jobs, NEW st \in States, PreflightFail(j, st) PROVE RetryInv'
  BY <1>3, <1>t, <1>p DEF PreflightFail, Cas, SetState, SetPhase, RetryInv, rows,
     operatorVars
<1>4. ASSUME NEW j \in Jobs, FgBusy(j) PROVE RetryInv'
  BY <1>4, <1>t, <1>p DEF FgBusy, Cas, SetState, SetPhase, RetryInv, rows,
     operatorVars
<1>5. ASSUME NEW j \in Jobs, NEW st \in States, SetupFail(j, st) PROVE RetryInv'
  BY <1>5, <1>t, <1>p DEF SetupFail, Cas, SetState, SetPhase, RetryInv, rows,
     operatorVars
<1>6. ASSUME NEW p \in Procs, NEW j \in Jobs, Claim(p, j) PROVE RetryInv'
  BY <1>6, <1>t, <1>p DEF Claim, SetState, SetPhase, AfterError, RetryInv, rows,
     operatorVars
<1>7. ASSUME NEW p \in Procs, NEW j \in Jobs, NEW st \in States, RunFinish(p, j, st) PROVE RetryInv'
  BY <1>7, <1>t, <1>p DEF RunFinish, Cas, SetState, SetPhase, AfterError, RetryInv,
     rows, operatorVars
<1>8. ASSUME NEW p \in Procs, NEW j \in Jobs, RunFail(p, j) PROVE RetryInv'
  BY <1>8, <1>t, <1>p DEF RunFail, Cas, SetState, SetPhase, AfterError, RetryInv,
     rows, operatorVars
<1>9. ASSUME NEW j \in Jobs, DeferRequeue(j) PROVE RetryInv'
  BY <1>9, <1>t, <1>p DEF DeferRequeue, Cas, SetState, SetPhase, RetryInv, rows,
     operatorVars
<1>10. ASSUME NEW j \in Jobs, HandleRunError(j) PROVE RetryInv'
  BY <1>10, <1>t, <1>p DEF HandleRunError, SetState, SetPhase, RetryInv, rows,
     operatorVars
<1>11. ASSUME NEW j \in Jobs, Cancel(j) PROVE RetryInv'
  BY <1>11, <1>t, <1>p DEF Cancel, SetState, CancelUncover, Uncover, RetryInv,
     rows, operatorVars
<1>12. ASSUME NEW j \in Jobs, CancelDropLocks(j) PROVE RetryInv'
  BY <1>12, <1>t, <1>p DEF CancelDropLocks, DropOwned, Uncover, RetryInv, rows,
     operatorVars
<1>13. ASSUME NEW j \in Jobs, Supersede(j) PROVE RetryInv'
  BY <1>13, <1>t, <1>p DEF Supersede, SetState, CancelUncover, Uncover, RetryInv,
     rows, operatorVars
<1>14. ASSUME NEW j \in Jobs, RetryRead(j) PROVE RetryInv'
  BY <1>14, <1>t, <1>p DEF RetryRead, Settled, RetryInv, rows, operatorVars
<1>15. ASSUME NEW j \in Jobs, RetryCommit(j) PROVE RetryInv'
  BY <1>15, <1>t, <1>p DEF RetryCommit, Cas, SetState, RetryInv, rows, operatorVars
<1>16. ASSUME NEW j \in Jobs, OpCrash(j) PROVE RetryInv'
  BY <1>16, <1>t, <1>p DEF OpCrash, RetryInv, rows, operatorVars
<1>17. ASSUME NEW j \in Jobs, KillCancel(j) PROVE RetryInv'
  BY <1>17, <1>t, <1>p DEF KillCancel, Cas, SetState, RetryInv, rows, operatorVars
<1>18. ASSUME NEW j \in Jobs, RecoverExpired(j) PROVE RetryInv'
  BY <1>18, <1>t, <1>p DEF RecoverExpired, Cas, SetState, RetryInv, rows,
     operatorVars
<1>19. ASSUME RequeueForeignBoot PROVE RetryInv'
  BY <1>19, <1>t, <1>p DEF RequeueForeignBoot, RetryInv, rows, operatorVars
<1>20. ASSUME RequeueStale PROVE RetryInv'
  BY <1>20, <1>t, <1>p DEF RequeueStale, Cas, SetState, RetryInv, rows, operatorVars
<1>21. ASSUME NEW j \in Jobs, StartupSettle(j) PROVE RetryInv'
  BY <1>21, <1>t, <1>p DEF StartupSettle, RetryInv, rows, operatorVars
<1>22. ASSUME Reboot PROVE RetryInv'
  BY <1>22, <1>t, <1>p DEF Reboot, RetryInv, rows, operatorVars
<1>23. ASSUME NEW j \in Jobs, List(j) \/ DropListed(j) \/ Dispatch(j) \/ PreflightDefer(j) \/
             HoldElapse(j) \/ DaemonBusy(j) \/ FgGiveUp(j) \/
             DeferHold(j) \/ KillUnlock(j) \/ Age(j) \/
             CheckLease(j) \/ OrphanExit(j)
      PROVE  UNCHANGED <<op, state, unsettled>>
  BY <1>23 DEF Age, CheckLease, DaemonBusy, DeferHold, Dispatch, DropListed,
     DropOwned, FgGiveUp, HoldElapse, KillUnlock, List, OrphanExit, PreflightDefer,
     SetPhase, Uncover, rows, daemonVars, operatorVars
<1>24. ASSUME NEW p \in Procs, NEW j \in Jobs, Acquire(p, j) \/ Release(p, j) \/ RunAbort(p, j) \/ AdvanceDone(p, j)
      PROVE  UNCHANGED <<op, state, unsettled>>
  BY <1>24 DEF Acquire, AdvanceDone, AfterError, DropRow, Release, RunAbort,
     SetPhase, rows, daemonVars, operatorVars
<1>25. ASSUME NEW s \in Sessions, Heartbeat(s) \/ LeaseLapse(s)
      PROVE  UNCHANGED <<op, state, unsettled>>
  BY <1>25 DEF Heartbeat, LeaseLapse, Uncover, rows, daemonVars, operatorVars
<1>26. ASSUME Kill \/ DaemonStart \/ TickStart \/ ReapExpired \/
             ReleaseForeignLocks \/ StaleDone \/ StartupDone
      PROVE  UNCHANGED <<op, state, unsettled>>
  BY <1>26 DEF DaemonStart, Goto, Kill, ReapExpired, ReleaseForeignLocks,
     StaleDone, StartupDone, TickStart, rows, daemonVars, operatorVars
<1>27. ASSUME NEW S \in SUBSET Jobs, DaemonCrash(S)
      PROVE  UNCHANGED <<op, state, unsettled>>
  BY <1>27 DEF Abandon, DaemonCrash, Inherit, rows, daemonVars, operatorVars
<1>28. ASSUME NEW j \in Jobs, NEW S \in SUBSET Jobs, FgCrash(j, S)
      PROVE  UNCHANGED <<op, state, unsettled>>
  BY <1>28 DEF Abandon, FgCrash, Inherit, rows, daemonVars, operatorVars
<1>29. CASE UNCHANGED vars
  BY <1>29, <1>u DEF vars, rows, daemonVars, operatorVars
<1> QED
  BY <1>u, <1>1, <1>2, <1>3, <1>4, <1>5, <1>6, <1>7, <1>8, <1>9, <1>10, <1>11,
     <1>12, <1>13, <1>14, <1>15, <1>16, <1>17, <1>18, <1>19, <1>20, <1>21, <1>22,
     <1>23, <1>24, <1>25, <1>26, <1>27, <1>28, <1>29
     DEF Next, WorkerStep, DaemonStep, FgStep, OperatorStep, RecoveryStep, Failure, Time

\* No step takes the row of a job from under the daemon worker that runs it.
LEMMA AccountedStep == ~PoolDispatch /\ BarrierInv /\ [Next]_vars => ActiveRunAccounted'
<1> SUFFICES ASSUME ~PoolDispatch, TypeOK, RowInv, WorkerInv, CoverInv, SkipInv, InFlightInv, RetryInv,
                    ActiveRunAccounted, [Next]_vars
             PROVE  ActiveRunAccounted'
  BY DEF BarrierInv, Inv
<1>t. /\ wk \in [Procs -> [Jobs -> Phases]] /\ state \in [Jobs -> States]
      /\ unsettled \in [Jobs -> BOOLEAN] /\ cur \in Jobs \cup {NoJob}
      /\ op \in [Jobs -> {"idle", "dropping", "failed", "blocked", "cancelled"}]
      /\ skip \subseteq Jobs /\ foreign \subseteq Jobs
  BY DEF TypeOK
<1>p. "daemon" \in Procs /\ "fg" \in Procs /\ FgJobs \subseteq Jobs /\ NoJob \notin Jobs
  BY ConstantsAssumption DEF Procs
<1>u. ASSUME UNCHANGED <<state, unsettled, wk>> PROVE ActiveRunAccounted'
  BY <1>u DEF ActiveRunAccounted, rows, operatorVars
<1>1. ASSUME NEW j \in Jobs, Enqueue(j) PROVE ActiveRunAccounted'
  BY <1>1, <1>t, <1>p DEF Enqueue, SetState, ActiveRunAccounted, rows, operatorVars
<1>2. ASSUME NEW j \in Jobs, FgDispatch(j) PROVE ActiveRunAccounted'
  BY <1>2, <1>t, <1>p DEF FgDispatch, SetState, SetPhase, ActiveRunAccounted, rows,
     operatorVars
<1>3. ASSUME NEW j \in Jobs, Dispatch(j) PROVE ActiveRunAccounted'
  BY <1>3, <1>t, <1>p DEF Dispatch, SetPhase, ActiveRunAccounted, rows, operatorVars
<1>4. ASSUME NEW j \in Jobs, NEW st \in States, PreflightFail(j, st) PROVE ActiveRunAccounted'
  BY <1>4, <1>t, <1>p DEF PreflightFail, Cas, SetState, SetPhase,
     ActiveRunAccounted, rows, operatorVars
<1>5. ASSUME NEW j \in Jobs, PreflightDefer(j) PROVE ActiveRunAccounted'
  BY <1>5, <1>t, <1>p DEF PreflightDefer, SetPhase, ActiveRunAccounted, rows,
     operatorVars
<1>6. ASSUME NEW p \in Procs, NEW j \in Jobs, Acquire(p, j) PROVE ActiveRunAccounted'
  BY <1>6, <1>t, <1>p DEF Acquire, SetPhase, ActiveRunAccounted, rows, operatorVars
<1>7. ASSUME NEW j \in Jobs, DaemonBusy(j) PROVE ActiveRunAccounted'
  BY <1>7, <1>t, <1>p DEF DaemonBusy, SetPhase, ActiveRunAccounted, rows,
     operatorVars
<1>8. ASSUME NEW j \in Jobs, FgBusy(j) PROVE ActiveRunAccounted'
  BY <1>8, <1>t, <1>p DEF FgBusy, Cas, SetState, SetPhase, ActiveRunAccounted,
     rows, operatorVars
<1>9. ASSUME NEW p \in Procs, NEW j \in Jobs, Release(p, j) PROVE ActiveRunAccounted'
  BY <1>9, <1>t, <1>p DEF Release, SetPhase, DropRow, ActiveRunAccounted, rows,
     operatorVars
<1>10. ASSUME NEW j \in Jobs, NEW st \in States, SetupFail(j, st) PROVE ActiveRunAccounted'
  BY <1>10, <1>t, <1>p DEF SetupFail, Cas, SetState, SetPhase, ActiveRunAccounted,
     rows, operatorVars
<1>11. ASSUME NEW j \in Jobs, FgGiveUp(j) PROVE ActiveRunAccounted'
  BY <1>11, <1>t, <1>p DEF FgGiveUp, SetPhase, ActiveRunAccounted, rows,
     operatorVars
<1>12. ASSUME NEW p \in Procs, NEW j \in Jobs, Claim(p, j) PROVE ActiveRunAccounted'
  BY <1>12, <1>t, <1>p DEF Claim, SetState, SetPhase, AfterError,
     ActiveRunAccounted, rows, operatorVars
<1>13. ASSUME NEW p \in Procs, NEW j \in Jobs, NEW st \in States, RunFinish(p, j, st)
       PROVE  ActiveRunAccounted'
  <2>1. ASSUME NEW k \in Jobs \ FgJobs, wk'["daemon"][k] \in {"running", "deferring"}
        PROVE  k # j
    <3> SUFFICES ASSUME k = j PROVE FALSE
      OBVIOUS
    <3>1. p = "fg"
      BY <1>13, <2>1, <1>t, <1>p DEF RunFinish, SetPhase, AfterError, Procs
    <3> QED
      BY <1>13, <3>1, <2>1 DEF RunFinish, WorkerInv
  <2>2. \A k \in Jobs : k # j =>
           /\ wk'["daemon"][k] = wk["daemon"][k]
           /\ state'[k] = state[k] /\ unsettled'[k] = unsettled[k]
    BY <1>13, <1>t, <1>p DEF RunFinish, SetPhase, Cas, SetState
  <2> QED
    BY <2>1, <2>2 DEF ActiveRunAccounted
<1>14. ASSUME NEW p \in Procs, NEW j \in Jobs, RunFail(p, j) PROVE ActiveRunAccounted'
  <2>1. ASSUME NEW k \in Jobs \ FgJobs, wk'["daemon"][k] \in {"running", "deferring"}
        PROVE  k # j
    <3> SUFFICES ASSUME k = j PROVE FALSE
      OBVIOUS
    <3>1. p = "fg"
      BY <1>14, <2>1, <1>t, <1>p DEF RunFail, SetPhase, AfterError, Procs
    <3> QED
      BY <1>14, <3>1, <2>1 DEF RunFail, WorkerInv
  <2>2. \A k \in Jobs : k # j =>
           /\ wk'["daemon"][k] = wk["daemon"][k]
           /\ state'[k] = state[k] /\ unsettled'[k] = unsettled[k]
    BY <1>14, <1>t, <1>p DEF RunFail, SetPhase, Cas, SetState
  <2> QED
    BY <2>1, <2>2 DEF ActiveRunAccounted
<1>15. ASSUME NEW p \in Procs, NEW j \in Jobs, RunAbort(p, j) PROVE ActiveRunAccounted'
  BY <1>15, <1>t, <1>p DEF RunAbort, SetPhase, AfterError, ActiveRunAccounted,
     rows, operatorVars
<1>16. ASSUME NEW j \in Jobs, DeferHold(j) PROVE ActiveRunAccounted'
  BY <1>16, <1>t, <1>p DEF DeferHold, SetPhase, ActiveRunAccounted, rows,
     operatorVars
<1>17. ASSUME NEW j \in Jobs, DeferRequeue(j) PROVE ActiveRunAccounted'
  BY <1>17, <1>t, <1>p DEF DeferRequeue, Cas, SetState, SetPhase,
     ActiveRunAccounted, rows, operatorVars
<1>18. ASSUME NEW p \in Procs, NEW j \in Jobs, AdvanceDone(p, j) PROVE ActiveRunAccounted'
  BY <1>18, <1>t, <1>p DEF AdvanceDone, SetPhase, AfterError, WorkerInv,
     ActiveRunAccounted, rows, operatorVars
<1>19. ASSUME NEW j \in Jobs, HandleRunError(j) PROVE ActiveRunAccounted'
  BY <1>19, <1>t, <1>p DEF HandleRunError, SetState, SetPhase, ActiveRunAccounted,
     rows, operatorVars
<1>20. ASSUME NEW j \in Jobs, Cancel(j) PROVE ActiveRunAccounted'
  BY <1>20, <1>t, <1>p DEF Cancel, SetState, CancelUncover, Uncover,
     ActiveRunAccounted, rows, operatorVars
<1>21. ASSUME NEW j \in Jobs, Supersede(j) PROVE ActiveRunAccounted'
  BY <1>21, <1>t, <1>p DEF Supersede, SetState, CancelUncover, Uncover,
     ActiveRunAccounted, rows, operatorVars
<1>22. ASSUME NEW j \in Jobs, RetryCommit(j) PROVE ActiveRunAccounted'
  BY <1>22, <1>t, <1>p DEF RetryCommit, Cas, SetState, RetryInv,
     ActiveRunAccounted, rows, operatorVars
<1>23. ASSUME NEW j \in Jobs, KillCancel(j) PROVE ActiveRunAccounted'
  BY <1>23, <1>t, <1>p DEF KillCancel, Cas, SetState, ActiveRunAccounted, rows,
     operatorVars
<1>24. ASSUME NEW j \in Jobs, RecoverExpired(j) PROVE ActiveRunAccounted'
  BY <1>24, <1>t, <1>p DEF RecoverExpired, Cas, SetState, InFlightInv, InPass,
     InFlight, ActiveRunAccounted, rows, operatorVars
<1>25. ASSUME RequeueForeignBoot PROVE ActiveRunAccounted'
  BY <1>25, <1>t, <1>p DEF RequeueForeignBoot, WorkerInv, ActiveRunAccounted, rows,
     operatorVars
<1>26. ASSUME RequeueStale PROVE ActiveRunAccounted'
  BY <1>26, <1>t, <1>p DEF RequeueStale, Cas, SetState, SkipInv, InFlightInv,
     InPass, InFlight, ActiveRunAccounted, rows, operatorVars
<1>27. ASSUME NEW j \in Jobs, StartupSettle(j) PROVE ActiveRunAccounted'
  BY <1>27, <1>t, <1>p DEF StartupSettle, WorkerInv, Starting, ActiveRunAccounted,
     rows, operatorVars
<1>28. ASSUME NEW S \in SUBSET Jobs, DaemonCrash(S) PROVE ActiveRunAccounted'
  BY <1>28, <1>t, <1>p DEF DaemonCrash, Inherit, Abandon, ActiveRunAccounted, rows,
     operatorVars
<1>29. ASSUME NEW j \in Jobs, NEW S \in SUBSET Jobs, FgCrash(j, S) PROVE ActiveRunAccounted'
  BY <1>29, <1>t, <1>p DEF FgCrash, Inherit, Abandon, SetPhase, ActiveRunAccounted,
     rows, operatorVars
<1>30. ASSUME Reboot PROVE ActiveRunAccounted'
  BY <1>30, <1>t, <1>p DEF Reboot, ActiveRunAccounted, rows, operatorVars
<1>31. ASSUME NEW j \in Jobs, List(j) \/ DropListed(j) \/ HoldElapse(j) \/ CancelDropLocks(j) \/
             RetryRead(j) \/ OpCrash(j) \/ KillUnlock(j) \/ Age(j) \/
             CheckLease(j) \/ OrphanExit(j)
      PROVE  UNCHANGED <<state, unsettled, wk>>
  BY <1>31 DEF Age, CancelDropLocks, CheckLease, DropListed, DropOwned, HoldElapse,
     KillUnlock, List, OpCrash, OrphanExit, RetryRead, Uncover, rows, daemonVars,
     operatorVars
<1>32. ASSUME NEW s \in Sessions, Heartbeat(s) \/ LeaseLapse(s)
      PROVE  UNCHANGED <<state, unsettled, wk>>
  BY <1>32 DEF Heartbeat, LeaseLapse, Uncover, rows, daemonVars, operatorVars
<1>33. ASSUME Kill \/ DaemonStart \/ TickStart \/ ReapExpired \/
             ReleaseForeignLocks \/ StaleDone \/ StartupDone
      PROVE  UNCHANGED <<state, unsettled, wk>>
  BY <1>33 DEF DaemonStart, Goto, Kill, ReapExpired, ReleaseForeignLocks,
     StaleDone, StartupDone, TickStart, rows, daemonVars, operatorVars
<1>34. CASE UNCHANGED vars
  BY <1>34, <1>u DEF vars, rows, daemonVars, operatorVars
<1> QED
  BY <1>u, <1>1, <1>2, <1>3, <1>4, <1>5, <1>6, <1>7, <1>8, <1>9, <1>10, <1>11,
     <1>12, <1>13, <1>14, <1>15, <1>16, <1>17, <1>18, <1>19, <1>20, <1>21, <1>22,
     <1>23, <1>24, <1>25, <1>26, <1>27, <1>28, <1>29, <1>30, <1>31, <1>32, <1>33,
     <1>34
     DEF Next, WorkerStep, DaemonStep, FgStep, OperatorStep, RecoveryStep, Failure, Time

\* BarrierInv is an invariant where only the barrier dispatches.
LEMMA BarrierHolds ==
    ASSUME ~PoolDispatch
    PROVE  Spec => []BarrierInv
<1>1. Init => BarrierInv
  <2>1. Init => InFlightInv /\ RetryInv
    BY DEF Init, InFlightInv, InPass, RetryInv
  <2>2. Init => ActiveRunAccounted
    BY ConstantsAssumption DEF Init, ActiveRunAccounted, Procs
  <2> QED
    BY <2>1, <2>2, InitInv DEF BarrierInv
<1>2. BarrierInv /\ [Next]_vars => BarrierInv'
  <2> SUFFICES ASSUME BarrierInv, [Next]_vars PROVE BarrierInv'
    OBVIOUS
  <2>1. Inv'
    BY InvStep DEF BarrierInv
  <2>2. InFlightInv' /\ RetryInv' /\ ActiveRunAccounted'
    BY InFlightStep, RetryStep, AccountedStep
  <2> QED
    BY <2>1, <2>2 DEF BarrierInv
<1> QED
  BY <1>1, <1>2, PTL DEF Spec

\* With the barrier dispatcher, for every set of jobs and any number of crashes:
\* while the daemon runs a job of its own, the row stays running, or cancelled
\* with the retry gate closed.
THEOREM BarrierAccounted ==
    ASSUME ~PoolDispatch
    PROVE  Spec => []ActiveRunAccounted
<1>1. BarrierInv => ActiveRunAccounted
  BY DEF BarrierInv
<1> QED
  BY <1>1, BarrierHolds, PTL

-----------------------------------------------------------------------------
(* A killed tree *)

\* Every step keeps KillInv.
LEMMA KillInvStep == Inv /\ KillInv /\ [Next]_vars => KillInv'
<1> SUFFICES ASSUME TypeOK, WorkerInv, KillInv, [Next]_vars PROVE KillInv'
  BY DEF Inv
<1>t. /\ wk \in [Procs -> [Jobs -> Phases]] /\ state \in [Jobs -> States]
      /\ op \in [Jobs -> {"idle", "dropping", "failed", "blocked", "cancelled"}]
      /\ ktodo \in [Jobs -> {"none", "cancel", "unlock"}] /\ cur \in Jobs \cup {NoJob}
  BY DEF TypeOK
<1>p. /\ "daemon" \in Procs /\ "fg" \in Procs /\ NoJob \notin Jobs
      /\ Legs \subseteq Tree /\ Tree \subseteq Jobs /\ OpJobs \subseteq Jobs
      /\ FgJobs \cap Legs = {}
  BY ConstantsAssumption DEF Procs
<1>u. ASSUME UNCHANGED <<killed, ktodo, listed, op, state, wk>> PROVE KillInv'
  BY <1>u DEF KillInv, rows, operatorVars
<1>1. ASSUME NEW j \in Jobs, Enqueue(j) PROVE KillInv'
  BY <1>1, <1>t, <1>p DEF Enqueue, SetState, WorkerInv, KillInv, rows, operatorVars
<1>2. ASSUME NEW j \in Jobs, FgDispatch(j) PROVE KillInv'
  BY <1>2, <1>t, <1>p DEF FgDispatch, SetState, SetPhase, WorkerInv, KillInv, rows,
     operatorVars
<1>3. ASSUME NEW j \in Jobs, List(j) PROVE KillInv'
  BY <1>3, <1>t, <1>p DEF List, KillInv, rows, operatorVars
<1>4. ASSUME NEW j \in Jobs, DropListed(j) PROVE KillInv'
  BY <1>4, <1>t, <1>p DEF DropListed, KillInv, rows, operatorVars
<1>5. ASSUME NEW j \in Jobs, Dispatch(j) PROVE KillInv'
  BY <1>5, <1>t, <1>p DEF Dispatch, SetPhase, InFlight, KillInv, rows, operatorVars
<1>6. ASSUME NEW j \in Jobs, NEW st \in States, PreflightFail(j, st) PROVE KillInv'
  BY <1>6, <1>t, <1>p DEF PreflightFail, Cas, SetState, SetPhase, KillInv, rows,
     operatorVars
<1>7. ASSUME NEW j \in Jobs, PreflightDefer(j) PROVE KillInv'
  BY <1>7, <1>t, <1>p DEF PreflightDefer, SetPhase, KillInv, rows, operatorVars
<1>8. ASSUME NEW p \in Procs, NEW j \in Jobs, Acquire(p, j) PROVE KillInv'
  BY <1>8, <1>t, <1>p DEF Acquire, SetPhase, KillInv, rows, operatorVars
<1>9. ASSUME NEW j \in Jobs, DaemonBusy(j) PROVE KillInv'
  BY <1>9, <1>t, <1>p DEF DaemonBusy, SetPhase, KillInv, rows, operatorVars
<1>10. ASSUME NEW j \in Jobs, FgBusy(j) PROVE KillInv'
  BY <1>10, <1>t, <1>p DEF FgBusy, Cas, SetState, SetPhase, KillInv, rows,
     operatorVars
<1>11. ASSUME NEW p \in Procs, NEW j \in Jobs, Release(p, j) PROVE KillInv'
  BY <1>11, <1>t, <1>p DEF Release, SetPhase, DropRow, KillInv, rows, operatorVars
<1>12. ASSUME NEW j \in Jobs, NEW st \in States, SetupFail(j, st) PROVE KillInv'
  BY <1>12, <1>t, <1>p DEF SetupFail, Cas, SetState, SetPhase, KillInv, rows,
     operatorVars
<1>13. ASSUME NEW j \in Jobs, FgGiveUp(j) PROVE KillInv'
  BY <1>13, <1>t, <1>p DEF FgGiveUp, SetPhase, KillInv, rows, operatorVars
<1>14. ASSUME NEW p \in Procs, NEW j \in Jobs, Claim(p, j) PROVE KillInv'
  <2>1. UNCHANGED <<op, killed, ktodo, listed>>
    BY <1>14 DEF Claim, operatorVars
  <2>2. CASE p = "daemon"
    BY <1>14, <2>1, <2>2, <1>t, <1>p DEF Claim, SetState, SetPhase, AfterError, KillInv
  <2>3. CASE p = "fg"
    <3>1. j \in FgJobs
      BY <1>14, <2>3 DEF Claim, WorkerInv
    <3>2. wk'["daemon"] = wk["daemon"]
      BY <1>14, <2>3, <1>t, <1>p DEF Claim, SetPhase
    <3>3. \A k \in Jobs : k # j => state'[k] = state[k]
      BY <1>14, <1>t DEF Claim, SetState
    <3> QED
      BY <2>1, <3>1, <3>2, <3>3, <1>p DEF KillInv
  <2> QED
    BY <2>2, <2>3 DEF Procs
<1>15. ASSUME NEW p \in Procs, NEW j \in Jobs, NEW st \in States, RunFinish(p, j, st) PROVE KillInv'
  BY <1>15, <1>t, <1>p DEF RunFinish, Cas, SetState, SetPhase, AfterError, KillInv,
     rows, operatorVars
<1>16. ASSUME NEW p \in Procs, NEW j \in Jobs, RunFail(p, j) PROVE KillInv'
  BY <1>16, <1>t, <1>p DEF RunFail, Cas, SetState, SetPhase, AfterError, KillInv,
     rows, operatorVars
<1>17. ASSUME NEW p \in Procs, NEW j \in Jobs, RunAbort(p, j) PROVE KillInv'
  BY <1>17, <1>t, <1>p DEF RunAbort, SetPhase, AfterError, KillInv, rows,
     operatorVars
<1>18. ASSUME NEW j \in Jobs, DeferHold(j) PROVE KillInv'
  BY <1>18, <1>t, <1>p DEF DeferHold, SetPhase, KillInv, rows, operatorVars
<1>19. ASSUME NEW j \in Jobs, DeferRequeue(j) PROVE KillInv'
  BY <1>19, <1>t, <1>p DEF DeferRequeue, Cas, SetState, SetPhase, KillInv, rows,
     operatorVars
<1>20. ASSUME NEW p \in Procs, NEW j \in Jobs, AdvanceDone(p, j) PROVE KillInv'
  BY <1>20, <1>t, <1>p DEF AdvanceDone, SetPhase, AfterError, KillInv, rows,
     operatorVars
<1>21. ASSUME NEW j \in Jobs, HandleRunError(j) PROVE KillInv'
  <2>1. /\ wk'["daemon"][j] = "releasing" /\ wk["daemon"][j] \in {"failing", "erred"}
        /\ \A k \in Jobs : k # j => /\ wk'["daemon"][k] = wk["daemon"][k]
                                    /\ state'[k] = state[k]
        /\ UNCHANGED <<op, killed, ktodo, listed>>
    BY <1>21, <1>t, <1>p DEF HandleRunError, SetPhase, SetState, operatorVars
  <2>2. j \in Legs => state'[j] \notin {"queued", "running"}
    BY <1>21, <1>t DEF HandleRunError, SetState, Terminal, States
  <2> QED
    BY <2>1, <2>2, <1>p DEF KillInv
<1>22. ASSUME NEW j \in Jobs, Cancel(j) PROVE KillInv'
  BY <1>22, <1>t, <1>p DEF Cancel, SetState, CancelUncover, Uncover, KillInv, rows,
     operatorVars
<1>23. ASSUME NEW j \in Jobs, CancelDropLocks(j) PROVE KillInv'
  BY <1>23, <1>t, <1>p DEF CancelDropLocks, DropOwned, Uncover, KillInv, rows,
     operatorVars
<1>24. ASSUME NEW j \in Jobs, Supersede(j) PROVE KillInv'
  BY <1>24, <1>t, <1>p DEF Supersede, SetState, CancelUncover, Uncover, KillInv,
     rows, operatorVars
<1>25. ASSUME NEW j \in Jobs, RetryRead(j) PROVE KillInv'
  BY <1>25, <1>t, <1>p DEF RetryRead, KillInv, rows, operatorVars
<1>26. ASSUME NEW j \in Jobs, RetryCommit(j) PROVE KillInv'
  BY <1>26, <1>t, <1>p DEF RetryCommit, Cas, SetState, KillInv, rows, operatorVars
<1>27. ASSUME NEW j \in Jobs, OpCrash(j) PROVE KillInv'
  BY <1>27, <1>t, <1>p DEF OpCrash, KillInv, rows, operatorVars
<1>28. ASSUME Kill PROVE KillInv'
  BY <1>28, <1>t, <1>p DEF Kill, KillInv, rows, operatorVars
<1>29. ASSUME NEW j \in Jobs, KillCancel(j) PROVE KillInv'
  BY <1>29, <1>t, <1>p DEF KillCancel, Cas, SetState, KillInv, rows, operatorVars
<1>30. ASSUME NEW j \in Jobs, KillUnlock(j) PROVE KillInv'
  BY <1>30, <1>t, <1>p DEF KillUnlock, DropOwned, Uncover, KillInv, rows,
     operatorVars
<1>31. ASSUME NEW j \in Jobs, RecoverExpired(j) PROVE KillInv'
  BY <1>31, <1>t, <1>p DEF RecoverExpired, Cas, SetState, KillInv, rows,
     operatorVars
<1>32. ASSUME RequeueForeignBoot PROVE KillInv'
  BY <1>32, <1>t, <1>p DEF RequeueForeignBoot, KillInv, rows, operatorVars
<1>33. ASSUME RequeueStale PROVE KillInv'
  BY <1>33, <1>t, <1>p DEF RequeueStale, Cas, SetState, KillInv, rows, operatorVars
<1>34. ASSUME NEW S \in SUBSET Jobs, DaemonCrash(S) PROVE KillInv'
  BY <1>34, <1>t, <1>p DEF DaemonCrash, Inherit, Abandon, KillInv, rows,
     operatorVars
<1>35. ASSUME NEW j \in Jobs, NEW S \in SUBSET Jobs, FgCrash(j, S) PROVE KillInv'
  BY <1>35, <1>t, <1>p DEF FgCrash, Inherit, Abandon, SetPhase, KillInv, rows,
     operatorVars
<1>36. ASSUME Reboot PROVE KillInv'
  BY <1>36, <1>t, <1>p DEF Reboot, KillInv, rows, operatorVars
<1>37. ASSUME NEW j \in Jobs, HoldElapse(j) \/ Age(j) \/ CheckLease(j) \/ StartupSettle(j) \/
             OrphanExit(j)
      PROVE  UNCHANGED <<killed, ktodo, listed, op, state, wk>>
  BY <1>37 DEF Age, CheckLease, HoldElapse, OrphanExit, StartupSettle, rows,
     daemonVars, operatorVars
<1>38. ASSUME NEW s \in Sessions, Heartbeat(s) \/ LeaseLapse(s)
      PROVE  UNCHANGED <<killed, ktodo, listed, op, state, wk>>
  BY <1>38 DEF Heartbeat, LeaseLapse, Uncover, rows, daemonVars, operatorVars
<1>39. ASSUME DaemonStart \/ TickStart \/ ReapExpired \/ ReleaseForeignLocks \/
             StaleDone \/ StartupDone
      PROVE  UNCHANGED <<killed, ktodo, listed, op, state, wk>>
  BY <1>39 DEF DaemonStart, Goto, ReapExpired, ReleaseForeignLocks, StaleDone,
     StartupDone, TickStart, rows, daemonVars, operatorVars
<1>40. CASE UNCHANGED vars
  BY <1>40, <1>u DEF vars, rows, daemonVars, operatorVars
<1> QED
  BY <1>u, <1>1, <1>2, <1>3, <1>4, <1>5, <1>6, <1>7, <1>8, <1>9, <1>10, <1>11,
     <1>12, <1>13, <1>14, <1>15, <1>16, <1>17, <1>18, <1>19, <1>20, <1>21, <1>22,
     <1>23, <1>24, <1>25, <1>26, <1>27, <1>28, <1>29, <1>30, <1>31, <1>32, <1>33,
     <1>34, <1>35, <1>36, <1>37, <1>38, <1>39, <1>40
     DEF Next, WorkerStep, DaemonStep, FgStep, OperatorStep, RecoveryStep, Failure, Time

\* Only a claim, of a queued row, makes a row running.
LEMMA OnlyClaimRuns == 
    ASSUME TypeOK, [Next]_vars, NEW i \in Jobs, state[i] # "running", state'[i] = "running"
    PROVE  \E p \in Procs : Claim(p, i) /\ state[i] = "queued"
<1>t. /\ wk \in [Procs -> [Jobs -> Phases]] /\ state \in [Jobs -> States]
      /\ op \in [Jobs -> {"idle", "dropping", "failed", "blocked", "cancelled"}]
      /\ ktodo \in [Jobs -> {"none", "cancel", "unlock"}] /\ cur \in Jobs \cup {NoJob}
  BY DEF TypeOK
<1>p. /\ "daemon" \in Procs /\ "fg" \in Procs /\ NoJob \notin Jobs
      /\ Legs \subseteq Tree /\ Tree \subseteq Jobs /\ OpJobs \subseteq Jobs
      /\ FgJobs \cap Legs = {}
  BY ConstantsAssumption DEF Procs
<1>u. ASSUME UNCHANGED <<state>> PROVE \E q \in Procs : Claim(q, i) /\ state[i] = "queued"
  BY <1>u DEF rows
<1>1. ASSUME NEW j \in Jobs, Enqueue(j) PROVE \E q \in Procs : Claim(q, i) /\ state[i] = "queued"
  BY <1>1, <1>t, <1>p DEF Enqueue, SetState, rows
<1>2. ASSUME NEW j \in Jobs, FgDispatch(j) PROVE \E q \in Procs : Claim(q, i) /\ state[i] = "queued"
  BY <1>2, <1>t, <1>p DEF FgDispatch, SetState, SetPhase, rows
<1>3. ASSUME NEW j \in Jobs, NEW st \in States, PreflightFail(j, st)
      PROVE  \E q \in Procs : Claim(q, i) /\ state[i] = "queued"
  BY <1>3, <1>t, <1>p DEF PreflightFail, Cas, SetState, SetPhase, rows
<1>4. ASSUME NEW j \in Jobs, FgBusy(j) PROVE \E q \in Procs : Claim(q, i) /\ state[i] = "queued"
  BY <1>4, <1>t, <1>p DEF FgBusy, Cas, SetState, SetPhase, rows
<1>5. ASSUME NEW j \in Jobs, NEW st \in States, SetupFail(j, st)
      PROVE  \E q \in Procs : Claim(q, i) /\ state[i] = "queued"
  BY <1>5, <1>t, <1>p DEF SetupFail, Cas, SetState, SetPhase, rows
<1>6. ASSUME NEW p \in Procs, NEW j \in Jobs, Claim(p, j)
      PROVE  \E q \in Procs : Claim(q, i) /\ state[i] = "queued"
  BY <1>6, <1>t, <1>p DEF Claim, SetState, SetPhase, AfterError, rows
<1>7. ASSUME NEW p \in Procs, NEW j \in Jobs, NEW st \in States, RunFinish(p, j, st)
      PROVE  \E q \in Procs : Claim(q, i) /\ state[i] = "queued"
  BY <1>7, <1>t, <1>p DEF RunFinish, Cas, SetState, SetPhase, AfterError, rows
<1>8. ASSUME NEW p \in Procs, NEW j \in Jobs, RunFail(p, j)
      PROVE  \E q \in Procs : Claim(q, i) /\ state[i] = "queued"
  BY <1>8, <1>t, <1>p DEF RunFail, Cas, SetState, SetPhase, AfterError, rows
<1>9. ASSUME NEW j \in Jobs, DeferRequeue(j) PROVE \E q \in Procs : Claim(q, i) /\ state[i] = "queued"
  BY <1>9, <1>t, <1>p DEF DeferRequeue, Cas, SetState, SetPhase, rows
<1>10. ASSUME NEW j \in Jobs, HandleRunError(j) PROVE \E q \in Procs : Claim(q, i) /\ state[i] = "queued"
  BY <1>10, <1>t, <1>p DEF HandleRunError, SetState, SetPhase, rows
<1>11. ASSUME NEW j \in Jobs, Cancel(j) PROVE \E q \in Procs : Claim(q, i) /\ state[i] = "queued"
  BY <1>11, <1>t, <1>p DEF Cancel, SetState, CancelUncover, Uncover, rows
<1>12. ASSUME NEW j \in Jobs, Supersede(j) PROVE \E q \in Procs : Claim(q, i) /\ state[i] = "queued"
  BY <1>12, <1>t, <1>p DEF Supersede, SetState, CancelUncover, Uncover, rows
<1>13. ASSUME NEW j \in Jobs, RetryCommit(j) PROVE \E q \in Procs : Claim(q, i) /\ state[i] = "queued"
  BY <1>13, <1>t, <1>p DEF RetryCommit, Cas, SetState, rows
<1>14. ASSUME NEW j \in Jobs, KillCancel(j) PROVE \E q \in Procs : Claim(q, i) /\ state[i] = "queued"
  BY <1>14, <1>t, <1>p DEF KillCancel, Cas, SetState, rows
<1>15. ASSUME NEW j \in Jobs, RecoverExpired(j) PROVE \E q \in Procs : Claim(q, i) /\ state[i] = "queued"
  BY <1>15, <1>t, <1>p DEF RecoverExpired, Cas, SetState, rows
<1>16. ASSUME RequeueForeignBoot PROVE \E q \in Procs : Claim(q, i) /\ state[i] = "queued"
  BY <1>16, <1>t, <1>p DEF RequeueForeignBoot, rows
<1>17. ASSUME RequeueStale PROVE \E q \in Procs : Claim(q, i) /\ state[i] = "queued"
  BY <1>17, <1>t, <1>p DEF RequeueStale, Cas, SetState, rows
<1>18. ASSUME NEW j \in Jobs, List(j) \/ DropListed(j) \/ Dispatch(j) \/ PreflightDefer(j) \/
             HoldElapse(j) \/ DaemonBusy(j) \/ FgGiveUp(j) \/
             DeferHold(j) \/ CancelDropLocks(j) \/ RetryRead(j) \/
             OpCrash(j) \/ KillUnlock(j) \/ Age(j) \/
             CheckLease(j) \/ StartupSettle(j) \/ OrphanExit(j)
      PROVE  UNCHANGED <<state>>
  BY <1>18 DEF Age, CancelDropLocks, CheckLease, DaemonBusy, DeferHold, Dispatch,
     DropListed, DropOwned, FgGiveUp, HoldElapse, KillUnlock, List, OpCrash,
     OrphanExit, PreflightDefer, RetryRead, SetPhase, StartupSettle, Uncover, rows,
     daemonVars, operatorVars
<1>19. ASSUME NEW p \in Procs, NEW j \in Jobs, Acquire(p, j) \/ Release(p, j) \/ RunAbort(p, j) \/ AdvanceDone(p, j)
      PROVE  UNCHANGED <<state>>
  BY <1>19 DEF Acquire, AdvanceDone, AfterError, DropRow, Release, RunAbort,
     SetPhase, rows, daemonVars, operatorVars
<1>20. ASSUME NEW s \in Sessions, Heartbeat(s) \/ LeaseLapse(s)
      PROVE  UNCHANGED <<state>>
  BY <1>20 DEF Heartbeat, LeaseLapse, Uncover, rows, daemonVars, operatorVars
<1>21. ASSUME Kill \/ DaemonStart \/ TickStart \/ ReapExpired \/
             ReleaseForeignLocks \/ StaleDone \/ StartupDone \/ Reboot
      PROVE  UNCHANGED <<state>>
  BY <1>21 DEF DaemonStart, Goto, Kill, ReapExpired, Reboot, ReleaseForeignLocks,
     StaleDone, StartupDone, TickStart, rows, daemonVars, operatorVars
<1>22. ASSUME NEW S \in SUBSET Jobs, DaemonCrash(S)
      PROVE  UNCHANGED <<state>>
  BY <1>22 DEF Abandon, DaemonCrash, Inherit, rows, daemonVars, operatorVars
<1>23. ASSUME NEW j \in Jobs, NEW S \in SUBSET Jobs, FgCrash(j, S)
      PROVE  UNCHANGED <<state>>
  BY <1>23 DEF Abandon, FgCrash, Inherit, rows, daemonVars, operatorVars
<1>24. CASE UNCHANGED vars
  BY <1>24, <1>u DEF vars, rows, daemonVars, operatorVars
<1> QED
  BY <1>u, <1>1, <1>2, <1>3, <1>4, <1>5, <1>6, <1>7, <1>8, <1>9, <1>10, <1>11,
     <1>12, <1>13, <1>14, <1>15, <1>16, <1>17, <1>18, <1>19, <1>20, <1>21, <1>22,
     <1>23, <1>24
     DEF Next, WorkerStep, DaemonStep, FgStep, OperatorStep, RecoveryStep, Failure, Time

\* With any number of legs, workers, crashes and reboots: after the kill is done
\* with a leg that does not run, the leg does not start running.
THEOREM KilledTreeStaysDown == Spec => KilledLegStaysDown
<1>1. Init => KillInv
  BY ConstantsAssumption DEF Init, KillInv, Procs
<1>2. Inv /\ KillInv /\ [Next]_vars => [LegsStayDown]_vars
  <2> SUFFICES ASSUME Inv, KillInv, Next, NEW j \in Legs \ OpJobs,
                      killed, ktodo[j] = "none", state[j] # "running", state'[j] = "running"
               PROVE  FALSE
    BY DEF LegsStayDown
  <2>1. j \in Jobs /\ j \notin FgJobs /\ "fg" \in Procs
    BY ConstantsAssumption DEF Procs
  <2>2. PICK p \in Procs : Claim(p, j) /\ state[j] = "queued"
    BY <2>1, OnlyClaimRuns DEF Inv
  <2>3. p = "daemon"
    BY <2>1, <2>2 DEF Inv, WorkerInv, Claim, Procs
  <2> QED
    BY <2>2, <2>3 DEF KillInv, Claim
<1> QED
  BY <1>1, <1>2, KillInvStep, InvHolds, PTL DEF Spec, KilledLegStaysDown

-----------------------------------------------------------------------------
(* What the kill's lock cleanup finds *)

\* Operators leave the tree alone; a kill works on its jobs only.
LeftAlone ==
    /\ \A j \in Tree : ~unsettled[j] /\ op[j] = "idle"
    /\ \A j \in Jobs \ Tree : ktodo[j] = "none"

\* The row of a tree job whose reparented runtime is covered is running, nobody
\* else has the job in hand, and no recovery pass is about to requeue it.
OrphanSpared(j) ==
    cover["orphan"][j] = "held" =>
        /\ state[j] = "running" /\ j \notin foreign
        /\ wk["daemon"][j] = "idle" /\ j \notin listed /\ cur # j
        /\ pass \in {"s_expired", "t_expired"} => j \notin todo

SpareInv == LeftAlone /\ \A j \in Tree : OrphanSpared(j)

\* Every step leaves the tree to the kill.
LEMMA LeftAloneStep ==
    ASSUME TypeOK, LeftAlone, [Next]_vars, Tree \cap (FgJobs \cup OpJobs) = {}
    PROVE  LeftAlone'
<1>t. /\ wk \in [Procs -> [Jobs -> Phases]] /\ cover \in [Holders -> [Jobs -> Covers]]
      /\ state \in [Jobs -> States] /\ lock \in [Sessions -> LockRow \cup {NoLock}]
      /\ unsettled \in [Jobs -> BOOLEAN] /\ cur \in Jobs \cup {NoJob}
      /\ op \in [Jobs -> {"idle", "dropping", "failed", "blocked", "cancelled"}]
      /\ ktodo \in [Jobs -> {"none", "cancel", "unlock"}]
      /\ foreign \subseteq Jobs /\ listed \subseteq Jobs /\ todo \subseteq Jobs /\ skip \subseteq Jobs
  BY DEF TypeOK
<1>p. "daemon" \in Procs /\ "fg" \in Procs /\ Tree \subseteq Jobs
  BY ConstantsAssumption DEF Procs
<1>1. ASSUME NEW j \in Jobs, Enqueue(j) PROVE LeftAlone'
  BY <1>1, <1>t, <1>p DEF Enqueue, SetState, LeftAlone, rows, daemonVars,
     operatorVars
<1>2. ASSUME NEW j \in Jobs, FgDispatch(j) PROVE LeftAlone'
  BY <1>2, <1>t, <1>p DEF FgDispatch, SetState, SetPhase, LeftAlone, rows,
     daemonVars, operatorVars
<1>3. ASSUME NEW j \in Jobs, List(j) PROVE LeftAlone'
  BY <1>3, <1>t, <1>p DEF List, Dispatching, LeftAlone, rows, daemonVars,
     operatorVars
<1>4. ASSUME NEW j \in Jobs, DropListed(j) PROVE LeftAlone'
  BY <1>4, <1>t, <1>p DEF DropListed, LeftAlone, rows, daemonVars, operatorVars
<1>5. ASSUME NEW j \in Jobs, Dispatch(j) PROVE LeftAlone'
  BY <1>5, <1>t, <1>p DEF Dispatch, SetPhase, InFlight, LeftAlone, rows, daemonVars,
     operatorVars
<1>6. ASSUME NEW j \in Jobs, NEW st \in States, PreflightFail(j, st) PROVE LeftAlone'
  BY <1>6, <1>t, <1>p DEF PreflightFail, Cas, SetState, SetPhase, LeftAlone, rows,
     daemonVars, operatorVars
<1>7. ASSUME NEW j \in Jobs, PreflightDefer(j) PROVE LeftAlone'
  BY <1>7, <1>t, <1>p DEF PreflightDefer, SetPhase, LeftAlone, rows, daemonVars,
     operatorVars
<1>8. ASSUME NEW j \in Jobs, HoldElapse(j) PROVE LeftAlone'
  BY <1>8, <1>t, <1>p DEF HoldElapse, LeftAlone, rows, daemonVars, operatorVars
<1>9. ASSUME NEW p \in Procs, NEW j \in Jobs, Acquire(p, j) PROVE LeftAlone'
  BY <1>9, <1>t, <1>p DEF Acquire, Free, HasRow, SetPhase, LeftAlone, rows,
     daemonVars, operatorVars
<1>10. ASSUME NEW j \in Jobs, DaemonBusy(j) PROVE LeftAlone'
  BY <1>10, <1>t, <1>p DEF DaemonBusy, SetPhase, LeftAlone, rows, daemonVars,
     operatorVars
<1>11. ASSUME NEW j \in Jobs, FgBusy(j) PROVE LeftAlone'
  BY <1>11, <1>t, <1>p DEF FgBusy, Cas, SetState, SetPhase, LeftAlone, rows,
     daemonVars, operatorVars
<1>12. ASSUME NEW s \in Sessions, Heartbeat(s) PROVE LeftAlone'
  BY <1>12, <1>t, <1>p DEF Heartbeat, HasRow, LeftAlone, rows, daemonVars,
     operatorVars
<1>13. ASSUME NEW s \in Sessions, LeaseLapse(s) PROVE LeftAlone'
  BY <1>13, <1>t, <1>p DEF LeaseLapse, HasRow, Uncover, Holder, Quiet,
     KeptPastLease, LeftAlone, rows, daemonVars, operatorVars
<1>14. ASSUME NEW p \in Procs, NEW j \in Jobs, Release(p, j) PROVE LeftAlone'
  BY <1>14, <1>t, <1>p DEF Release, SetPhase, DropRow, OwnRow, HasRow, LeftAlone,
     rows, daemonVars, operatorVars
<1>15. ASSUME NEW j \in Jobs, NEW st \in States, SetupFail(j, st) PROVE LeftAlone'
  BY <1>15, <1>t, <1>p DEF SetupFail, Cas, SetState, SetPhase, LeftAlone, rows,
     daemonVars, operatorVars
<1>16. ASSUME NEW j \in Jobs, FgGiveUp(j) PROVE LeftAlone'
  BY <1>16, <1>t, <1>p DEF FgGiveUp, SetPhase, LeftAlone, rows, daemonVars,
     operatorVars
<1>17. ASSUME NEW p \in Procs, NEW j \in Jobs, Claim(p, j) PROVE LeftAlone'
  BY <1>17, <1>t, <1>p DEF Claim, SetState, SetPhase, AfterError, LeftAlone, rows,
     daemonVars, operatorVars
<1>18. ASSUME NEW p \in Procs, NEW j \in Jobs, NEW st \in States, RunFinish(p, j, st)
      PROVE  LeftAlone'
  BY <1>18, <1>t, <1>p DEF RunFinish, Cas, SetState, SetPhase, AfterError,
     LeftAlone, rows, daemonVars, operatorVars
<1>19. ASSUME NEW p \in Procs, NEW j \in Jobs, RunFail(p, j) PROVE LeftAlone'
  BY <1>19, <1>t, <1>p DEF RunFail, Cas, SetState, SetPhase, AfterError, LeftAlone,
     rows, daemonVars, operatorVars
<1>20. ASSUME NEW p \in Procs, NEW j \in Jobs, RunAbort(p, j) PROVE LeftAlone'
  BY <1>20, <1>t, <1>p DEF RunAbort, SetPhase, AfterError, LeftAlone, rows,
     daemonVars, operatorVars
<1>21. ASSUME NEW j \in Jobs, DeferHold(j) PROVE LeftAlone'
  BY <1>21, <1>t, <1>p DEF DeferHold, SetPhase, LeftAlone, rows, daemonVars,
     operatorVars
<1>22. ASSUME NEW j \in Jobs, DeferRequeue(j) PROVE LeftAlone'
  BY <1>22, <1>t, <1>p DEF DeferRequeue, Cas, SetState, SetPhase, LeftAlone, rows,
     daemonVars, operatorVars
<1>23. ASSUME NEW p \in Procs, NEW j \in Jobs, AdvanceDone(p, j) PROVE LeftAlone'
  BY <1>23, <1>t, <1>p DEF AdvanceDone, SetPhase, AfterError, LeftAlone, rows,
     daemonVars, operatorVars
<1>24. ASSUME NEW j \in Jobs, HandleRunError(j) PROVE LeftAlone'
  BY <1>24, <1>t, <1>p DEF HandleRunError, SetState, SetPhase, LeftAlone, rows,
     daemonVars, operatorVars
<1>25. ASSUME NEW j \in Jobs, Cancel(j) PROVE LeftAlone'
  BY <1>25, <1>t, <1>p DEF Cancel, SetState, CancelUncover, Uncover, LeftAlone,
     rows, daemonVars, operatorVars
<1>26. ASSUME NEW j \in Jobs, CancelDropLocks(j) PROVE LeftAlone'
  BY <1>26, <1>t, <1>p DEF CancelDropLocks, DropOwned, Uncover, LeftAlone, rows,
     daemonVars, operatorVars
<1>27. ASSUME NEW j \in Jobs, Supersede(j) PROVE LeftAlone'
  BY <1>27, <1>t, <1>p DEF Supersede, SetState, CancelUncover, Uncover, LeftAlone,
     rows, daemonVars, operatorVars
<1>28. ASSUME NEW j \in Jobs, RetryRead(j) PROVE LeftAlone'
  BY <1>28, <1>t, <1>p DEF RetryRead, LeftAlone, rows, daemonVars, operatorVars
<1>29. ASSUME NEW j \in Jobs, RetryCommit(j) PROVE LeftAlone'
  BY <1>29, <1>t, <1>p DEF RetryCommit, Cas, SetState, LeftAlone, rows, daemonVars,
     operatorVars
<1>30. ASSUME NEW j \in Jobs, OpCrash(j) PROVE LeftAlone'
  BY <1>30, <1>t, <1>p DEF OpCrash, LeftAlone, rows, daemonVars, operatorVars
<1>31. ASSUME Kill PROVE LeftAlone'
  BY <1>31, <1>t, <1>p DEF Kill, LeftAlone, rows, daemonVars, operatorVars
<1>32. ASSUME NEW j \in Jobs, KillCancel(j) PROVE LeftAlone'
  BY <1>32, <1>t, <1>p DEF KillCancel, Cas, SetState, LeftAlone, rows, daemonVars,
     operatorVars
<1>33. ASSUME NEW j \in Jobs, KillUnlock(j) PROVE LeftAlone'
  BY <1>33, <1>t, <1>p DEF KillUnlock, DropOwned, Uncover, LeftAlone, rows,
     daemonVars, operatorVars
<1>34. ASSUME NEW j \in Jobs, Age(j) PROVE LeftAlone'
  BY <1>34, <1>t, <1>p DEF Age, LeftAlone, rows, daemonVars, operatorVars
<1>35. ASSUME DaemonStart PROVE LeftAlone'
  BY <1>35, <1>t, <1>p DEF DaemonStart, Goto, ExpiredOwners, LeftAlone, rows,
     daemonVars, operatorVars
<1>36. ASSUME TickStart PROVE LeftAlone'
  BY <1>36, <1>t, <1>p DEF TickStart, Goto, LeftAlone, rows, daemonVars,
     operatorVars
<1>37. ASSUME NEW j \in Jobs, RecoverExpired(j) PROVE LeftAlone'
  BY <1>37, <1>t, <1>p DEF RecoverExpired, Cas, SetState, LeftAlone, rows,
     daemonVars, operatorVars
<1>38. ASSUME ReapExpired PROVE LeftAlone'
  BY <1>38, <1>t, <1>p DEF ReapExpired, LeftAlone, rows, daemonVars, operatorVars
<1>39. ASSUME RequeueForeignBoot PROVE LeftAlone'
  BY <1>39, <1>t, <1>p DEF RequeueForeignBoot, LeftAlone, rows, daemonVars,
     operatorVars
<1>40. ASSUME ReleaseForeignLocks PROVE LeftAlone'
  BY <1>40, <1>t, <1>p DEF ReleaseForeignLocks, Goto, LeftAlone, rows, daemonVars,
     operatorVars
<1>41. ASSUME NEW j \in Jobs, CheckLease(j) PROVE LeftAlone'
  BY <1>41, <1>t, <1>p DEF CheckLease, LeaseHeld, LeftAlone, rows, daemonVars,
     operatorVars
<1>42. ASSUME RequeueStale PROVE LeftAlone'
  BY <1>42, <1>t, <1>p DEF RequeueStale, Cas, SetState, LeftAlone, rows, daemonVars,
     operatorVars
<1>43. ASSUME StaleDone PROVE LeftAlone'
  BY <1>43, <1>t, <1>p DEF StaleDone, Goto, ExpiredOwners, LeftAlone, rows,
     daemonVars, operatorVars
<1>44. ASSUME NEW j \in Jobs, StartupSettle(j) PROVE LeftAlone'
  BY <1>44, <1>t, <1>p DEF StartupSettle, LeftAlone, rows, daemonVars, operatorVars
<1>45. ASSUME StartupDone PROVE LeftAlone'
  BY <1>45, <1>t, <1>p DEF StartupDone, LeftAlone, rows, daemonVars, operatorVars
<1>46. ASSUME NEW S \in SUBSET Jobs, DaemonCrash(S) PROVE LeftAlone'
  BY <1>46, <1>t, <1>p DEF DaemonCrash, Inherit, Abandon, LeftAlone, rows,
     daemonVars, operatorVars
<1>47. ASSUME NEW j \in Jobs, NEW S \in SUBSET Jobs, FgCrash(j, S) PROVE LeftAlone'
  BY <1>47, <1>t, <1>p DEF FgCrash, Inherit, Abandon, SetPhase, LeftAlone, rows,
     daemonVars, operatorVars
<1>48. ASSUME Reboot PROVE LeftAlone'
  <2>1. op' = [j \in Jobs |-> "idle"]
    BY <1>48, Zenon DEF Reboot
  <2>2. ktodo' = [j \in Jobs |-> "none"]
    BY <1>48, Zenon DEF Reboot
  <2>3. unsettled' = unsettled
    BY <1>48, Zenon DEF Reboot
  <2> QED
    BY <2>1, <2>2, <2>3, <1>p DEF LeftAlone
<1>49. ASSUME NEW j \in Jobs, OrphanExit(j) PROVE LeftAlone'
  BY <1>49, <1>t, <1>p DEF OrphanExit, LeftAlone, rows, daemonVars, operatorVars
<1>50. CASE UNCHANGED vars
  BY <1>50 DEF LeftAlone, vars, rows, operatorVars
<1> QED
  BY <1>1, <1>2, <1>3, <1>4, <1>5, <1>6, <1>7, <1>8, <1>9, <1>10, <1>11, <1>12,
     <1>13, <1>14, <1>15, <1>16, <1>17, <1>18, <1>19, <1>20, <1>21, <1>22, <1>23,
     <1>24, <1>25, <1>26, <1>27, <1>28, <1>29, <1>30, <1>31, <1>32, <1>33, <1>34,
     <1>35, <1>36, <1>37, <1>38, <1>39, <1>40, <1>41, <1>42, <1>43, <1>44, <1>45,
     <1>46, <1>47, <1>48, <1>49, <1>50
     DEF Next, WorkerStep, DaemonStep, FgStep, OperatorStep, RecoveryStep, Failure, Time

\* No step puts the row of a covered orphan at risk.
LEMMA OrphanSparedStep ==
    ASSUME BarrierInv, LeftAlone, ~PoolDispatch, [Next]_vars,
           NEW t \in Tree, t \notin FgJobs, t \notin OpJobs, OrphanSpared(t)
    PROVE  OrphanSpared(t)'
<1> USE DEF OrphanSpared
<1>t. /\ wk \in [Procs -> [Jobs -> Phases]] /\ cover \in [Holders -> [Jobs -> Covers]]
      /\ state \in [Jobs -> States] /\ lock \in [Sessions -> LockRow \cup {NoLock}]
      /\ unsettled \in [Jobs -> BOOLEAN] /\ cur \in Jobs \cup {NoJob}
      /\ op \in [Jobs -> {"idle", "dropping", "failed", "blocked", "cancelled"}]
      /\ ktodo \in [Jobs -> {"none", "cancel", "unlock"}]
      /\ foreign \subseteq Jobs /\ listed \subseteq Jobs /\ todo \subseteq Jobs /\ skip \subseteq Jobs
  BY DEF BarrierInv, Inv, TypeOK
<1>p. /\ "daemon" \in Procs /\ "fg" \in Procs /\ Procs \subseteq Holders /\ "orphan" \in Holders
      /\ "orphan" \notin Procs /\ "stale" \notin Procs /\ t \in Jobs /\ NoJob \notin Jobs
  BY ConstantsAssumption DEF Procs, Holders
<1>w. /\ wk["fg"][t] = "idle"
      /\ wk["daemon"][t] = "running" => state[t] = "running" /\ t \notin foreign
  BY <1>p DEF BarrierInv, Inv, WorkerInv, ActiveRunAccounted, LeftAlone
<1>o. op[t] = "idle"
  BY DEF LeftAlone
<1>r. cover["orphan"][t] = "held" => t \notin ExpiredOwners /\ LeaseHeld(t)
  <2> SUFFICES ASSUME cover["orphan"][t] = "held" PROVE t \notin ExpiredOwners /\ LeaseHeld(t)
    OBVIOUS
  <2>1. OwnRow("stale", t) /\ ~lock[SessionOf[t]].expired
    BY <1>p DEF BarrierInv, Inv, CoverInv, OrphanCovered
  <2> QED BY <2>1 DEF BarrierInv, Inv, RowInv, ExpiredOwners, OwnRow, LeaseHeld
<1>1. ASSUME NEW j \in Jobs, Enqueue(j) PROVE OrphanSpared(t)'
  BY <1>1, <1>t, <1>p, <1>w, <1>o DEF Enqueue, SetState, rows, daemonVars,
     operatorVars
<1>2. ASSUME NEW j \in Jobs, FgDispatch(j) PROVE OrphanSpared(t)'
  BY <1>2, <1>t, <1>p, <1>w, <1>o DEF FgDispatch, SetState, SetPhase, rows,
     daemonVars, operatorVars
<1>3. ASSUME NEW j \in Jobs, List(j) PROVE OrphanSpared(t)'
  BY <1>3, <1>t, <1>p, <1>w, <1>o DEF List, Dispatching, rows, daemonVars,
     operatorVars
<1>4. ASSUME NEW j \in Jobs, DropListed(j) PROVE OrphanSpared(t)'
  BY <1>4, <1>t, <1>p, <1>w, <1>o DEF DropListed, rows, daemonVars, operatorVars
<1>5. ASSUME NEW j \in Jobs, Dispatch(j) PROVE OrphanSpared(t)'
  BY <1>5, <1>t, <1>p, <1>w, <1>o DEF Dispatch, SetPhase, InFlight, rows,
     daemonVars, operatorVars
<1>6. ASSUME NEW j \in Jobs, NEW st \in States, PreflightFail(j, st) PROVE OrphanSpared(t)'
  BY <1>6, <1>t, <1>p, <1>w, <1>o DEF PreflightFail, Cas, SetState, SetPhase, rows,
     daemonVars, operatorVars
<1>7. ASSUME NEW j \in Jobs, PreflightDefer(j) PROVE OrphanSpared(t)'
  BY <1>7, <1>t, <1>p, <1>w, <1>o DEF PreflightDefer, SetPhase, rows, daemonVars,
     operatorVars
<1>8. ASSUME NEW j \in Jobs, HoldElapse(j) PROVE OrphanSpared(t)'
  BY <1>8, <1>t, <1>p, <1>w, <1>o DEF HoldElapse, rows, daemonVars, operatorVars
<1>9. ASSUME NEW p \in Procs, NEW j \in Jobs, Acquire(p, j) PROVE OrphanSpared(t)'
  BY <1>9, <1>t, <1>p, <1>w, <1>o DEF Acquire, Free, HasRow, SetPhase, rows,
     daemonVars, operatorVars
<1>10. ASSUME NEW j \in Jobs, DaemonBusy(j) PROVE OrphanSpared(t)'
  BY <1>10, <1>t, <1>p, <1>w, <1>o DEF DaemonBusy, SetPhase, rows, daemonVars,
     operatorVars
<1>11. ASSUME NEW j \in Jobs, FgBusy(j) PROVE OrphanSpared(t)'
  BY <1>11, <1>t, <1>p, <1>w, <1>o DEF FgBusy, Cas, SetState, SetPhase, rows,
     daemonVars, operatorVars
<1>12. ASSUME NEW s \in Sessions, Heartbeat(s) PROVE OrphanSpared(t)'
  BY <1>12, <1>t, <1>p, <1>w, <1>o DEF Heartbeat, HasRow, rows, daemonVars,
     operatorVars
<1>13. ASSUME NEW s \in Sessions, LeaseLapse(s) PROVE OrphanSpared(t)'
  BY <1>13, <1>t, <1>p, <1>w, <1>o DEF LeaseLapse, HasRow, Uncover, Holder, Quiet,
     KeptPastLease, rows, daemonVars, operatorVars
<1>14. ASSUME NEW p \in Procs, NEW j \in Jobs, Release(p, j) PROVE OrphanSpared(t)'
  BY <1>14, <1>t, <1>p, <1>w, <1>o DEF Release, SetPhase, DropRow, OwnRow, HasRow,
     rows, daemonVars, operatorVars
<1>15. ASSUME NEW j \in Jobs, NEW st \in States, SetupFail(j, st) PROVE OrphanSpared(t)'
  BY <1>15, <1>t, <1>p, <1>w, <1>o DEF SetupFail, Cas, SetState, SetPhase, rows,
     daemonVars, operatorVars
<1>16. ASSUME NEW j \in Jobs, FgGiveUp(j) PROVE OrphanSpared(t)'
  BY <1>16, <1>t, <1>p, <1>w, <1>o DEF FgGiveUp, SetPhase, rows, daemonVars,
     operatorVars
<1>17. ASSUME NEW p \in Procs, NEW j \in Jobs, Claim(p, j) PROVE OrphanSpared(t)'
  <2> SUFFICES ASSUME cover["orphan"][t] = "held" PROVE OrphanSpared(t)'
    BY <1>17 DEF Claim
  <2>1. j # t
    BY <1>17, <1>w DEF Claim, Procs
  <2>2. /\ state'[t] = state[t] /\ foreign' \subseteq foreign
        /\ wk'["daemon"][t] = wk["daemon"][t]
        /\ UNCHANGED <<cover, listed, pass, todo, cur>>
    BY <1>17, <2>1, <1>t, <1>p DEF Claim, SetState, SetPhase, daemonVars
  <2> QED
    BY <2>2
<1>18. ASSUME NEW p \in Procs, NEW j \in Jobs, NEW st \in States, RunFinish(p, j, st)
      PROVE  OrphanSpared(t)'
  <2> SUFFICES ASSUME cover["orphan"][t] = "held" PROVE OrphanSpared(t)'
    BY <1>18 DEF RunFinish
  <2>1. j # t
    BY <1>18, <1>w DEF RunFinish, Procs
  <2>2. /\ state'[t] = state[t] /\ wk'["daemon"][t] = wk["daemon"][t]
        /\ UNCHANGED <<cover, foreign, listed, pass, todo, cur>>
    BY <1>18, <2>1, <1>t, <1>p DEF RunFinish, Cas, SetState, SetPhase, daemonVars
  <2> QED
    BY <2>2
<1>19. ASSUME NEW p \in Procs, NEW j \in Jobs, RunFail(p, j)
      PROVE  OrphanSpared(t)'
  <2> SUFFICES ASSUME cover["orphan"][t] = "held" PROVE OrphanSpared(t)'
    BY <1>19 DEF RunFail
  <2>1. j # t
    BY <1>19, <1>w DEF RunFail, Procs
  <2>2. /\ state'[t] = state[t] /\ wk'["daemon"][t] = wk["daemon"][t]
        /\ UNCHANGED <<cover, foreign, listed, pass, todo, cur>>
    BY <1>19, <2>1, <1>t, <1>p DEF RunFail, Cas, SetState, SetPhase, daemonVars
  <2> QED
    BY <2>2
<1>20. ASSUME NEW p \in Procs, NEW j \in Jobs, RunAbort(p, j) PROVE OrphanSpared(t)'
  BY <1>20, <1>t, <1>p, <1>w, <1>o DEF RunAbort, SetPhase, AfterError, rows,
     daemonVars, operatorVars
<1>21. ASSUME NEW j \in Jobs, DeferHold(j) PROVE OrphanSpared(t)'
  BY <1>21, <1>t, <1>p, <1>w, <1>o DEF DeferHold, SetPhase, rows, daemonVars,
     operatorVars
<1>22. ASSUME NEW j \in Jobs, DeferRequeue(j) PROVE OrphanSpared(t)'
  BY <1>22, <1>t, <1>p, <1>w, <1>o DEF DeferRequeue, Cas, SetState, SetPhase, rows,
     daemonVars, operatorVars
<1>23. ASSUME NEW p \in Procs, NEW j \in Jobs, AdvanceDone(p, j) PROVE OrphanSpared(t)'
  BY <1>23, <1>t, <1>p, <1>w, <1>o DEF AdvanceDone, SetPhase, AfterError, rows,
     daemonVars, operatorVars
<1>24. ASSUME NEW j \in Jobs, HandleRunError(j) PROVE OrphanSpared(t)'
  BY <1>24, <1>t, <1>p, <1>w, <1>o DEF HandleRunError, SetState, SetPhase, rows,
     daemonVars, operatorVars
<1>25. ASSUME NEW j \in Jobs, Cancel(j) PROVE OrphanSpared(t)'
  BY <1>25, <1>t, <1>p, <1>w, <1>o DEF Cancel, SetState, CancelUncover, Uncover,
     rows, daemonVars, operatorVars
<1>26. ASSUME NEW j \in Jobs, CancelDropLocks(j) PROVE OrphanSpared(t)'
  BY <1>26, <1>t, <1>p, <1>w, <1>o DEF CancelDropLocks, DropOwned, Uncover, rows,
     daemonVars, operatorVars
<1>27. ASSUME NEW j \in Jobs, Supersede(j) PROVE OrphanSpared(t)'
  BY <1>27, <1>t, <1>p, <1>w, <1>o DEF Supersede, SetState, CancelUncover, Uncover,
     rows, daemonVars, operatorVars
<1>28. ASSUME NEW j \in Jobs, RetryRead(j) PROVE OrphanSpared(t)'
  BY <1>28, <1>t, <1>p, <1>w, <1>o DEF RetryRead, rows, daemonVars, operatorVars
<1>29. ASSUME NEW j \in Jobs, RetryCommit(j) PROVE OrphanSpared(t)'
  BY <1>29, <1>t, <1>p, <1>w, <1>o DEF RetryCommit, Cas, SetState, rows, daemonVars,
     operatorVars
<1>30. ASSUME NEW j \in Jobs, OpCrash(j) PROVE OrphanSpared(t)'
  BY <1>30, <1>t, <1>p, <1>w, <1>o DEF OpCrash, rows, daemonVars, operatorVars
<1>31. ASSUME Kill PROVE OrphanSpared(t)'
  BY <1>31, <1>t, <1>p, <1>w, <1>o DEF Kill, rows, daemonVars, operatorVars
<1>32. ASSUME NEW j \in Jobs, KillCancel(j) PROVE OrphanSpared(t)'
  BY <1>32, <1>t, <1>p, <1>w, <1>o DEF KillCancel, Cas, SetState, rows, daemonVars,
     operatorVars
<1>33. ASSUME NEW j \in Jobs, KillUnlock(j) PROVE OrphanSpared(t)'
  BY <1>33, <1>t, <1>p, <1>w, <1>o DEF KillUnlock, DropOwned, Uncover, rows,
     daemonVars, operatorVars
<1>34. ASSUME NEW j \in Jobs, Age(j) PROVE OrphanSpared(t)'
  BY <1>34, <1>t, <1>p, <1>w, <1>o DEF Age, rows, daemonVars, operatorVars
<1>35. ASSUME DaemonStart PROVE OrphanSpared(t)'
  BY <1>35, <1>t, <1>p, <1>r DEF DaemonStart, Goto, rows, daemonVars, operatorVars
<1>36. ASSUME TickStart PROVE OrphanSpared(t)'
  BY <1>36, <1>t, <1>p, <1>w, <1>o DEF TickStart, Goto, rows, daemonVars,
     operatorVars
<1>37. ASSUME NEW j \in Jobs, RecoverExpired(j) PROVE OrphanSpared(t)'
  BY <1>37, <1>t, <1>p, <1>w, <1>o DEF RecoverExpired, Cas, SetState, rows,
     daemonVars, operatorVars
<1>38. ASSUME ReapExpired PROVE OrphanSpared(t)'
  BY <1>38, <1>t, <1>p, <1>w, <1>o DEF ReapExpired, rows, daemonVars, operatorVars
<1>39. ASSUME RequeueForeignBoot PROVE OrphanSpared(t)'
  BY <1>39, <1>t, <1>p, <1>w, <1>o DEF RequeueForeignBoot, rows, daemonVars,
     operatorVars
<1>40. ASSUME ReleaseForeignLocks PROVE OrphanSpared(t)'
  BY <1>40, <1>t, <1>p, <1>w, <1>o DEF ReleaseForeignLocks, Goto, rows, daemonVars,
     operatorVars
<1>41. ASSUME NEW j \in Jobs, CheckLease(j) PROVE OrphanSpared(t)'
  BY <1>41, <1>t, <1>p, <1>r DEF CheckLease, rows, daemonVars, operatorVars
<1>42. ASSUME RequeueStale PROVE OrphanSpared(t)'
  BY <1>42, <1>t, <1>p, <1>w, <1>o DEF RequeueStale, Cas, SetState, rows,
     daemonVars, operatorVars
<1>43. ASSUME StaleDone PROVE OrphanSpared(t)'
  BY <1>43, <1>t, <1>p, <1>r DEF StaleDone, Goto, rows, daemonVars, operatorVars
<1>44. ASSUME NEW j \in Jobs, StartupSettle(j) PROVE OrphanSpared(t)'
  BY <1>44, <1>t, <1>p, <1>w, <1>o DEF StartupSettle, rows, daemonVars, operatorVars
<1>45. ASSUME StartupDone PROVE OrphanSpared(t)'
  BY <1>45, <1>t, <1>p, <1>w, <1>o DEF StartupDone, rows, daemonVars, operatorVars
<1>46. ASSUME NEW S \in SUBSET Jobs, DaemonCrash(S) PROVE OrphanSpared(t)'
  BY <1>46, <1>t, <1>p, <1>w, <1>o DEF DaemonCrash, Inherit, Abandon, rows,
     daemonVars, operatorVars
<1>47. ASSUME NEW j \in Jobs, NEW S \in SUBSET Jobs, FgCrash(j, S) PROVE OrphanSpared(t)'
  BY <1>47, <1>t, <1>p, <1>w, <1>o DEF FgCrash, Inherit, Abandon, SetPhase, rows,
     daemonVars, operatorVars
<1>48. ASSUME Reboot PROVE OrphanSpared(t)'
  <2>1. cover' = [h \in Holders |-> [j \in Jobs |-> "none"]]
    BY <1>48, Zenon DEF Reboot
  <2> QED
    BY <2>1, <1>p
<1>49. ASSUME NEW j \in Jobs, OrphanExit(j) PROVE OrphanSpared(t)'
  BY <1>49, <1>t, <1>p, <1>w, <1>o DEF OrphanExit, rows, daemonVars, operatorVars
<1>50. CASE UNCHANGED vars
  BY <1>50 DEF vars, rows, daemonVars, operatorVars
<1> QED
  BY <1>1, <1>2, <1>3, <1>4, <1>5, <1>6, <1>7, <1>8, <1>9, <1>10, <1>11, <1>12,
     <1>13, <1>14, <1>15, <1>16, <1>17, <1>18, <1>19, <1>20, <1>21, <1>22, <1>23,
     <1>24, <1>25, <1>26, <1>27, <1>28, <1>29, <1>30, <1>31, <1>32, <1>33, <1>34,
     <1>35, <1>36, <1>37, <1>38, <1>39, <1>40, <1>41, <1>42, <1>43, <1>44, <1>45,
     <1>46, <1>47, <1>48, <1>49, <1>50
     DEF Next, WorkerStep, DaemonStep, FgStep, OperatorStep, RecoveryStep, Failure, Time

\* Only the kill's lock cleanup takes the row of a runtime as killed.
LEMMA OnlyUnlockKills ==
    ASSUME TypeOK, [Next]_vars, NEW h \in Holders, NEW i \in Jobs,
           cover[h][i] = "held", cover'[h][i] = "killed"
    PROVE  KillUnlock(i) /\ state[i] # "running"
<1>t. /\ wk \in [Procs -> [Jobs -> Phases]] /\ cover \in [Holders -> [Jobs -> Covers]]
      /\ state \in [Jobs -> States] /\ lock \in [Sessions -> LockRow \cup {NoLock}]
      /\ unsettled \in [Jobs -> BOOLEAN] /\ cur \in Jobs \cup {NoJob}
      /\ op \in [Jobs -> {"idle", "dropping", "failed", "blocked", "cancelled"}]
      /\ ktodo \in [Jobs -> {"none", "cancel", "unlock"}]
      /\ foreign \subseteq Jobs /\ listed \subseteq Jobs /\ todo \subseteq Jobs /\ skip \subseteq Jobs
  BY DEF TypeOK
<1>p. /\ "daemon" \in Procs /\ "fg" \in Procs /\ Procs \subseteq Holders
      /\ "orphan" \notin Procs /\ "stale" \notin Procs
  BY ConstantsAssumption DEF Procs, Holders
<1>r. \A s \in Sessions : HasRow(s) => lock[s].owner \in Jobs /\ lock[s].tok \in Procs \cup {"stale"}
  BY <1>t DEF HasRow, LockRow
<1>1. ASSUME NEW p \in Procs, NEW j \in Jobs, Acquire(p, j) PROVE cover'[h][i] # "killed"
  BY <1>1, <1>t, <1>p, <1>r DEF Acquire, Free, HasRow, SetPhase, rows, daemonVars,
     operatorVars
<1>2. ASSUME NEW s \in Sessions, Heartbeat(s) PROVE cover'[h][i] # "killed"
  BY <1>2, <1>t, <1>p, <1>r DEF Heartbeat, HasRow, rows, daemonVars, operatorVars
<1>3. ASSUME NEW s \in Sessions, LeaseLapse(s) PROVE cover'[h][i] # "killed"
  BY <1>3, <1>t, <1>p, <1>r DEF LeaseLapse, HasRow, Uncover, Holder, Quiet,
     KeptPastLease, rows, daemonVars, operatorVars
<1>4. ASSUME NEW p \in Procs, NEW j \in Jobs, Release(p, j) PROVE cover'[h][i] # "killed"
  BY <1>4, <1>t, <1>p, <1>r DEF Release, SetPhase, DropRow, OwnRow, HasRow, rows,
     daemonVars, operatorVars
<1>5. ASSUME NEW j \in Jobs, Cancel(j) PROVE cover'[h][i] # "killed"
  BY <1>5, <1>t, <1>p, <1>r DEF Cancel, SetState, CancelUncover, Uncover, rows,
     daemonVars, operatorVars
<1>6. ASSUME NEW j \in Jobs, CancelDropLocks(j) PROVE cover'[h][i] # "killed"
  BY <1>6, <1>t, <1>p, <1>r DEF CancelDropLocks, DropOwned, Uncover, rows,
     daemonVars, operatorVars
<1>7. ASSUME NEW j \in Jobs, Supersede(j) PROVE cover'[h][i] # "killed"
  BY <1>7, <1>t, <1>p, <1>r DEF Supersede, SetState, CancelUncover, Uncover, rows,
     daemonVars, operatorVars
<1>8. ASSUME NEW j \in Jobs, KillUnlock(j) PROVE j = i /\ state[i] # "running"
  BY <1>8, <1>t, <1>p, <1>r DEF KillUnlock, DropOwned, Uncover, rows, daemonVars,
     operatorVars
<1>9. ASSUME NEW S \in SUBSET Jobs, DaemonCrash(S) PROVE cover'[h][i] # "killed"
  BY <1>9, <1>t, <1>p, <1>r DEF DaemonCrash, Inherit, Abandon, rows, daemonVars,
     operatorVars
<1>10. ASSUME NEW j \in Jobs, NEW S \in SUBSET Jobs, FgCrash(j, S)
      PROVE  cover'[h][i] # "killed"
  <2>1. cover' = [Inherit("fg", S) EXCEPT !["fg"] = [cover["fg"] EXCEPT ![j] = "none"]]
    BY <1>10 DEF FgCrash
  <2>2. Inherit("fg", S) \in [Holders -> [Jobs -> Covers]]
    BY <1>t, <1>p DEF Inherit, Covers
  <2>3. CASE h = "fg"
    <3>1. cover'["fg"] = [cover["fg"] EXCEPT ![j] = "none"]
      BY <2>1, <2>2, <1>p
    <3> QED
      BY <3>1, <2>3, <1>t
  <2>4. CASE h # "fg"
    <3>1. cover'[h] = Inherit("fg", S)[h]
      BY <2>1, <2>2, <2>4, <1>p
    <3>2. Inherit("fg", S)[h][i] = "held"
      BY <2>4 DEF Inherit
    <3> QED
      BY <3>1, <3>2
  <2> QED
    BY <2>3, <2>4
<1>11. ASSUME Reboot PROVE cover'[h][i] # "killed"
  <2>1. cover' = [g \in Holders |-> [j \in Jobs |-> "none"]]
    BY <1>11, Zenon DEF Reboot
  <2> QED
    BY <2>1
<1>12. ASSUME NEW j \in Jobs, OrphanExit(j) PROVE cover'[h][i] # "killed"
  BY <1>12, <1>t, <1>p, <1>r DEF OrphanExit, rows, daemonVars, operatorVars
<1>13. ASSUME NEW j \in Jobs, NEW st \in States,
             PreflightFail(j, st) \/ SetupFail(j, st)
      PROVE  UNCHANGED cover
  BY <1>13 DEF PreflightFail, SetupFail
<1>14. ASSUME NEW j \in Jobs,
             Enqueue(j) \/ FgDispatch(j) \/ List(j) \/ DropListed(j) \/
             Dispatch(j) \/ PreflightDefer(j) \/ HoldElapse(j) \/ DaemonBusy(j)
             \/ FgBusy(j) \/ FgGiveUp(j) \/ DeferHold(j) \/ DeferRequeue(j) \/
             HandleRunError(j) \/ RetryRead(j) \/ RetryCommit(j) \/ OpCrash(j)
             \/ KillCancel(j) \/ Age(j) \/ RecoverExpired(j) \/ CheckLease(j) \/
             StartupSettle(j)
      PROVE  UNCHANGED cover
  BY <1>14 DEF Enqueue, FgDispatch, List, DropListed, Dispatch, PreflightDefer,
     HoldElapse, DaemonBusy, FgBusy, FgGiveUp, DeferHold, DeferRequeue,
     HandleRunError, RetryRead, RetryCommit, OpCrash, KillCancel, Age,
     RecoverExpired, CheckLease, StartupSettle
<1>15. ASSUME NEW p \in Procs, NEW j \in Jobs, NEW st \in States,
             RunFinish(p, j, st)
      PROVE  UNCHANGED cover
  BY <1>15 DEF RunFinish
<1>16. ASSUME NEW p \in Procs, NEW j \in Jobs,
             Claim(p, j) \/ RunFail(p, j) \/ RunAbort(p, j) \/ AdvanceDone(p, j)
      PROVE  UNCHANGED cover
  BY <1>16 DEF Claim, RunFail, RunAbort, AdvanceDone
<1>17. ASSUME 
             Kill \/ DaemonStart \/ TickStart \/ ReapExpired \/
             RequeueForeignBoot \/ ReleaseForeignLocks \/ RequeueStale \/
             StaleDone \/ StartupDone
      PROVE  UNCHANGED cover
  BY <1>17 DEF Kill, DaemonStart, TickStart, ReapExpired, RequeueForeignBoot,
     ReleaseForeignLocks, RequeueStale, StaleDone, StartupDone
<1>18. CASE UNCHANGED vars
  BY <1>18 DEF vars
<1> QED
  BY <1>1, <1>2, <1>3, <1>4, <1>5, <1>6, <1>7, <1>8, <1>9, <1>10, <1>11, <1>12,
     <1>13, <1>14, <1>15, <1>16, <1>17, <1>18
     DEF Next, WorkerStep, DaemonStep, FgStep, OperatorStep, RecoveryStep, Failure, Time

\* With the barrier dispatcher and a tree that only the daemon runs and no
\* operator cancels, for any number of jobs, sessions, crashes and lapses of live
\* leases: the kill's lock cleanup takes no row of a runtime that still has it.
THEOREM KillSpares ==
    ASSUME ~PoolDispatch, Tree \cap (FgJobs \cup OpJobs) = {}
    PROVE  Spec => KillSparesRunning
<1> DEFINE Spares == \A h \in Holders, j \in Jobs :
              <<h, j>> \in Live /\ cover[h][j] = "held" => cover'[h][j] # "killed"
<1>1. Init => SpareInv
  BY ConstantsAssumption DEF Init, SpareInv, LeftAlone, OrphanSpared, Holders
<1>2. BarrierInv /\ SpareInv /\ [Next]_vars => SpareInv'
  <2> SUFFICES ASSUME BarrierInv, SpareInv, [Next]_vars PROVE SpareInv'
    OBVIOUS
  <2>1. LeftAlone'
    BY LeftAloneStep DEF BarrierInv, Inv, SpareInv
  <2>2. ASSUME NEW t \in Tree PROVE OrphanSpared(t)'
    BY <2>2, OrphanSparedStep DEF SpareInv
  <2> QED
    BY <2>1, <2>2 DEF SpareInv
<1>3. BarrierInv /\ SpareInv /\ [Next]_vars => [Spares]_vars
  <2> SUFFICES ASSUME BarrierInv, SpareInv, Next, NEW h \in Holders, NEW j \in Jobs,
                      <<h, j>> \in Live, cover[h][j] = "held", cover'[h][j] = "killed"
               PROVE  FALSE
    OBVIOUS
  <2>1. KillUnlock(j) /\ state[j] # "running"
    BY OnlyUnlockKills DEF BarrierInv, Inv
  <2>2. j \in Tree /\ ~unsettled[j]
    BY <2>1 DEF KillUnlock, SpareInv, LeftAlone
  <2>3. CASE h = "orphan"
    BY <2>1, <2>2, <2>3 DEF SpareInv, OrphanSpared
  <2>4. CASE h = "daemon"
    BY <2>1, <2>2, <2>4 DEF Live, BarrierInv, ActiveRunAccounted
  <2>5. CASE h = "fg"
    BY <2>2, <2>5 DEF Live, BarrierInv, Inv, WorkerInv
  <2> QED
    BY <2>3, <2>4, <2>5 DEF Holders, Procs
<1> QED
  BY <1>1, <1>2, <1>3, BarrierHolds, PTL DEF Spec, KillSparesRunning
==============================================================================
