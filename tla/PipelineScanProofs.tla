------------------------- MODULE PipelineScanProofs -------------------------
(***************************************************************************)
(* Proofs about PipelineRun where one scan does it all: the daemon creates *)
(* the runs and is the only one to advance them, and an operator resumes   *)
(* and cancels runs that are parked.  `pipeline run` and the cancel of a   *)
(* running run put a second writer beside the scan, and both theorems are  *)
(* false then.                                                             *)
(***************************************************************************)
EXTENDS PipelineRunProofs, WellFoundedInduction

OneScan == Creators \subseteq {Daemon} /\ "running" \notin spec.cancels

-----------------------------------------------------------------------------
(* The first stage of a set *)

LEMMA LessRelation == \A i, j \in Nat : i < j => <<i, j>> \in OpToRel(<, Nat)
BY DEF OpToRel

\* A set of stages that is not empty has a first one.
LEMMA FirstExists ==
    ASSUME NEW S \in SUBSET Stages, S # {}
    PROVE  \E s \in S : s \in First(S) /\ \A t \in S : s <= t
<1>1. S \subseteq Nat
  BY DEF Stages
<1>2. PICK s \in S : \A t \in S : ~(<<t, s>> \in OpToRel(<, Nat))
  BY <1>1, NatLessThanWellFounded, WFMin
<1>3. \A t \in S : s <= t
  <2>1. SUFFICES ASSUME NEW t \in S, t < s PROVE FALSE
    BY <1>1
  <2> QED BY <1>1, <1>2, <2>1, LessRelation
<1> QED BY <1>3 DEF First

-----------------------------------------------------------------------------
(* The inductive invariant *)

Dead == {"failed", "blocked", "skipped", "cancelled"}
Parked == {"blocked", "failed"}
InPass == {"fold", "merge", "merged", "enqueue", "enqueued", "skip", "settle"}

\* Job j has ended without success, or was never minted.
Over(j) ==
    \/ j.st \in {"none", "cancelled"}
    \/ j.st = "settled" /\ ~j.more /\ j.dec \notin {"ok", "skipped"}

\* Row x fits the jobs js of its stage: the attempts before its own are over,
\* those after it have no job, and its own is over when the row has failed.
Upto(js, x) ==
    /\ \A a \in Attempts : a < x.attempt => Over(js[a])
    /\ \A a \in Attempts : a > x.attempt => js[a].st = "none"
    /\ x.state \in Dead => Over(js[x.attempt])

\* Rows and jobs.  A pending row may have a job (the scan died before it wrote
\* the row), but then the scan will find it: its dependencies have succeeded
\* and its run is not parked.
RowsFit(q, rn, rw, jb) ==
    \A r \in Runs, s \in Stages :
        /\ rn[r].state = "none" => rw[r][s].state = "none"
        /\ rw[r][s].state = "none" => \A a \in Attempts : jb[r][s][a].st = "none"
        /\ q.kind[s] \in Jobless => \A a \in Attempts : jb[r][s][a].st = "none"
        /\ Upto(jb[r][s], rw[r][s])
        /\ rw[r][s].state = "pending" /\ jb[r][s][rw[r][s].attempt].st # "none" =>
               rn[r].state \notin Parked /\ \A d \in q.needs[s] : rw[r][d].state = "succeeded"
        /\ rn[r].state \in Parked => ~InFlight(rw[r][s])

\* The view of a pass is what the rows say, up to the timeout that passes.
Synced(me, rw) ==
    \A s \in Stages : /\ me.view[s].state = rw[me.run][s].state
                      /\ me.view[s].attempt = rw[me.run][s].attempt

\* The enqueue loop has nothing left to do for stage t, except for a produce
\* stage that it put back to pending for its retry.
Behind(q, me, t, jb) ==
    me.view[t].state = "pending" /\ (\A d \in q.needs[t] : me.view[d].state = "succeeded") =>
        /\ q.kind[t] = "produce" /\ q.retry[t] > 0
        /\ jb[me.run][t][me.view[t].attempt].st = "none"

\* What the scan knows.
ScanFits(q, me, rn, rw, jb) ==
    /\ me.pc \notin {"reset", "kill", "mark"}
    /\ \A r \in me.todo : rn[r].state = "running"
    /\ me.pc \in InPass \cup {"stages"} => rn[me.run].state = "running" /\ me.run \notin me.todo
    /\ me.pc = "stages" => \A s \in Stages : s >= me.at => rw[me.run][s].state = "none"
    /\ me.pc \in InPass => Synced(me, rw)
    /\ me.pc \in {"merge", "merged"} => InFlight(me.view[me.at])
    /\ me.pc = "merged" => /\ me.out.attempt = me.view[me.at].attempt
                           /\ me.out.state \in {"succeeded", "blocked"}
    /\ me.pc = "enqueued" =>
           /\ me.view[me.at].state = "pending"
           /\ me.out.state \notin {"none", "skipped", "cancelled"}
           /\ Upto(jb[me.run][me.at], me.out)
           /\ me.out.state = "pending" =>
                  /\ q.kind[me.at] = "produce" /\ q.retry[me.at] > 0
                  /\ jb[me.run][me.at][me.out.attempt].st = "none"
    /\ me.pc \in {"enqueue", "enqueued"} =>
           \A t \in Stages : t < me.at => Behind(q, me, t, jb)
    /\ me.pc \in {"skip", "settle"} =>
           \A t \in Stages : Behind(q, me, t, jb) /\ ~InFlight(me.view[t])
    /\ me.pc = "settle" => \A t \in Stages : me.view[t].state # "pending"

\* What the operator knows: it works on a parked run, on stages that have not
\* succeeded.
OperFits(me, rn, rw) ==
    /\ me.pc \in {"idle", "reset", "kill", "mark"}
    /\ me.pc # "idle" => rn[me.run].state \in Parked
    /\ me.pc # "idle" => \A s \in me.set : /\ me.view[s].attempt = rw[me.run][s].attempt
                                           /\ rw[me.run][s].state \notin {"none", "succeeded"}
    /\ me.pc = "mark" => me.at \in me.set

ScanInv ==
    /\ proc[Cli].pc = "idle"
    /\ RowsFit(spec, run, row, job)
    /\ ScanFits(spec, proc[Daemon], run, row, job)
    /\ OperFits(proc[Oper], run, row)
-----------------------------------------------------------------------------
(* What a pass does next fits *)

\* The end of a pass.
LEMMA DoneFits ==
    ASSUME NEW q, NEW me \in ProcRec, NEW rn, NEW rw, NEW jb,
           \A r \in me.todo : rn[r].state = "running"
    PROVE  ScanFits(q, PassDone(me), rn, rw, jb)
<1>1. /\ PassDone(me).pc \in {"idle", "list"} /\ PassDone(me).todo = me.todo
  BY Constants DEF PassDone, Idle, ProcRec
<1> QED BY <1>1 DEF ScanFits, InPass

\* The skip loop.
LEMMA SkipFits ==
    ASSUME NEW me \in ProcRec, NEW rn, NEW rw, NEW jb,
           \A r \in me.todo : rn[r].state = "running",
           rn[me.run].state = "running", me.run \notin me.todo, Synced(me, rw),
           \A t \in Stages : Behind(spec, me, t, jb) /\ ~InFlight(me.view[t])
    PROVE  ScanFits(spec, SkipNext(me), rn, rw, jb)
<1> DEFINE y == SkipNext(me)
<1>1. /\ y.pc \in {"skip", "settle"} /\ y.run = me.run /\ y.view = me.view /\ y.todo = me.todo
      /\ y.pc = "settle" => Left(me) = {}
  BY Constants DEF SkipNext, ProcRec
<1>2. Left(me) = {} => \A t \in Stages : me.view[t].state # "pending"
  <2> DEFINE S == {s \in Stages : me.view[s].state = "pending"}
  <2>1. S # {} => First(S) # {}
    BY FirstExists
  <2> QED BY <2>1 DEF Left
<1> HIDE DEF y
<1>3. Synced(y, rw)
  BY <1>1 DEF Synced
<1>4. \A t \in Stages : Behind(spec, y, t, jb)
  BY <1>1 DEF Behind
<1>5. ScanFits(spec, y, rn, rw, jb)
  BY <1>1, <1>2, <1>3, <1>4 DEF ScanFits, InPass
<1> QED BY <1>5 DEF y

\* The enqueue loop.
LEMMA EnqueueFits ==
    ASSUME NEW me \in ProcRec, NEW rn, NEW rw, NEW jb,
           \A r \in me.todo : rn[r].state = "running",
           rn[me.run].state = "running", me.run \notin me.todo, Synced(me, rw),
           \A t \in Stages : t < me.at => Behind(spec, me, t, jb)
    PROVE  ScanFits(spec, EnqueueNext(me), rn, rw, jb)
<1>1. CASE Ready(me) # {}
  <2> DEFINE y == [me EXCEPT !.pc = "enqueue"]
  <2>1. /\ y.pc = "enqueue" /\ y.run = me.run /\ y.view = me.view /\ y.todo = me.todo
        /\ y.at = me.at
    BY DEF ProcRec
  <2>2. EnqueueNext(me) = y
    BY <1>1 DEF EnqueueNext
  <2> HIDE DEF y
  <2>3. Synced(y, rw)
    BY <2>1 DEF Synced
  <2>4. \A t \in Stages : t < y.at => Behind(spec, y, t, jb)
    BY <2>1 DEF Behind
  <2>5. ScanFits(spec, y, rn, rw, jb)
    BY <2>1, <2>3, <2>4 DEF ScanFits, InPass
  <2> QED BY <2>2, <2>5
<1>2. CASE Ready(me) = {}
  <2> DEFINE S == {s \in me.at..NStages : me.view[s].state = "pending" /\ DepsSucceeded(me.view, s)}
  <2>a. me.at \in 1..(NStages + 1) /\ NStages \in Nat
    BY Constants DEF ProcRec
  <2>1. S \subseteq Stages
    BY <2>a DEF Stages
  <2>2. S = {}
    <3>1. S # {} => First(S) # {}
      <4> HIDE DEF S
      <4> QED BY <2>1, FirstExists
    <3> QED BY <1>2, <3>1 DEF Ready
  <2>3. \A t \in Stages : Behind(spec, me, t, jb)
    <3> SUFFICES ASSUME NEW t \in Stages PROVE Behind(spec, me, t, jb)
      OBVIOUS
    <3>1. CASE t < me.at
      BY <3>1
    <3>2. CASE t >= me.at
      <4>1. t \in me.at..NStages
        BY <3>2, <2>a DEF Stages
      <4> QED BY <4>1, <2>2 DEF Behind, DepsSucceeded
    <3> QED BY <3>1, <3>2, <2>a DEF Stages
  <2>4. CASE \E s \in Stages : InFlight(me.view[s])
    BY <1>2, <2>4, DoneFits DEF EnqueueNext
  <2>5. CASE ~\E s \in Stages : InFlight(me.view[s])
    BY <1>2, <2>3, <2>5, SkipFits DEF EnqueueNext
  <2> QED BY <2>4, <2>5
<1> QED BY <1>1, <1>2

\* The fold loop.
LEMMA FoldFits ==
    ASSUME NEW me \in ProcRec, NEW rn, NEW rw, NEW jb,
           \A r \in me.todo : rn[r].state = "running",
           rn[me.run].state = "running", me.run \notin me.todo, Synced(me, rw)
    PROVE  ScanFits(spec, FoldNext(me), rn, rw, jb)
<1>1. CASE Open(me) # {}
  <2> DEFINE y == [me EXCEPT !.pc = "fold"]
  <2>1. y.pc = "fold" /\ y.run = me.run /\ y.view = me.view /\ y.todo = me.todo
    BY DEF ProcRec
  <2>2. FoldNext(me) = y
    BY <1>1 DEF FoldNext
  <2> HIDE DEF y
  <2>3. Synced(y, rw)
    BY <2>1 DEF Synced
  <2>5. ScanFits(spec, y, rn, rw, jb)
    BY <2>1, <2>3 DEF ScanFits, InPass
  <2> QED BY <2>2, <2>5
<1>2. CASE Open(me) = {}
  <2> DEFINE y == [me EXCEPT !.at = 1]
  <2>1. /\ y \in ProcRec /\ y.run = me.run /\ y.view = me.view /\ y.todo = me.todo /\ y.at = 1
    BY Constants DEF ProcRec
  <2>2. FoldNext(me) = EnqueueNext(y)
    BY <1>2 DEF FoldNext
  <2> HIDE DEF y
  <2>3. Synced(y, rw) /\ \A t \in Stages : ~(t < y.at)
    BY <2>1 DEF Synced, Stages
  <2> QED BY <2>1, <2>2, <2>3, EnqueueFits
<1> QED BY <1>1, <1>2
-----------------------------------------------------------------------------
(* What steps leave alone *)

\* A step leaves state and attempt of a row alone, and does not mint a job.
SameRow(r, s) == row'[r][s].state = row[r][s].state /\ row'[r][s].attempt = row[r][s].attempt
SameRows == \A r \in Runs, s \in Stages : SameRow(r, s)
NoneMinted ==
    \A r \in Runs, s \in Stages, a \in Attempts :
        job[r][s][a].st = "none" => job'[r][s][a].st = "none"
SameRun(r) == run'[r].state = run[r].state
SameRuns == \A r \in Runs : SameRun(r)
\* ... and writes one row, or none.
WroteRow(r, s, x) ==
    /\ row'[r][s].state = x.state /\ row'[r][s].attempt = x.attempt
    /\ \A q \in Runs, t \in Stages : (q # r \/ t # s) => SameRow(q, t)

\* The types the lemmas below need.
LEMMA StepFacts ==
    ASSUME Base, [Next]_vars
    PROVE  /\ spec' = spec
           /\ \A s \in Stages : spec.needs[s] \subseteq Stages
           /\ \A r \in Runs, s \in Stages : row[r][s] \in Rows /\ row[r][s].attempt \in Attempts
<1>1. spec' = spec
  BY Moves
<1>2. \A s \in Stages : spec.needs[s] \subseteq Stages
  BY SpecFacts DEF Base
<1>3. \A r \in Runs, s \in Stages : row[r][s] \in Rows
  BY TypeParts DEF Base
<1>4. \A x \in Rows : x.attempt \in Attempts
  BY DEF Rows
<1> QED BY <1>1, <1>2, <1>3, <1>4

\* Jobs that are over stay over, minted ones stay minted.
LEMMA OverStep ==
    ASSUME Base, [Next]_vars, NEW r \in Runs, NEW s \in Stages, NEW a \in Attempts
    PROVE  /\ job[r][s][a].st # "none" => job'[r][s][a].st # "none"
           /\ Over(job[r][s][a]) /\ (job[r][s][a].st = "none" => job'[r][s][a].st = "none")
                  => Over(job'[r][s][a])
<1>1. JobMove(r, s, a)
  BY Moves
<1>2. job[r][s][a] \in JobRows
  BY DEF Base, TypeOK
<1> QED BY <1>1, <1>2 DEF JobMove, Over, JobRows

\* What fits the jobs of a stage fits them after a step that mints none there.
LEMMA UptoStep ==
    ASSUME Base, [Next]_vars, NEW r \in Runs, NEW s \in Stages, NEW x, x.attempt \in Attempts,
           Upto(job[r][s], x),
           \A a \in Attempts : job[r][s][a].st = "none" => job'[r][s][a].st = "none"
    PROVE  Upto(job'[r][s], x)
BY OverStep DEF Upto

\* The row's parts that matter to its jobs.
LEMMA UptoSame ==
    ASSUME NEW js, NEW x, NEW y, x.state = y.state, x.attempt = y.attempt
    PROVE  Upto(js, x) <=> Upto(js, y)
BY DEF Upto

\* Rows still fit after a step that changes no state of a row and mints no job,
\* whichever runs it starts to run or cancels.
LEMMA RowsKeep ==
    ASSUME Base, [Next]_vars, RowsFit(spec, run, row, job), SameRows, NoneMinted,
           \A r \in Runs : SameRun(r) \/ run'[r].state \in {"running", "cancelled"}
    PROVE  RowsFit(spec, run, row, job)'
<1> SUFFICES ASSUME NEW r \in Runs, NEW s \in Stages
             PROVE
        /\ run'[r].state = "none" => row'[r][s].state = "none"
        /\ row'[r][s].state = "none" => \A a \in Attempts : job'[r][s][a].st = "none"
        /\ spec'.kind[s] \in Jobless => \A a \in Attempts : job'[r][s][a].st = "none"
        /\ Upto(job'[r][s], row'[r][s])
        /\ row'[r][s].state = "pending" /\ job'[r][s][row'[r][s].attempt].st # "none" =>
               /\ run'[r].state \notin Parked
               /\ \A d \in spec'.needs[s] : row'[r][d].state = "succeeded"
        /\ run'[r].state \in Parked => ~InFlight(row'[r][s])
  BY DEF RowsFit
<1>0. /\ run[r].state = "none" => row[r][s].state = "none"
      /\ row[r][s].state = "none" => \A a \in Attempts : job[r][s][a].st = "none"
      /\ spec.kind[s] \in Jobless => \A a \in Attempts : job[r][s][a].st = "none"
      /\ Upto(job[r][s], row[r][s])
      /\ row[r][s].state = "pending" /\ job[r][s][row[r][s].attempt].st # "none" =>
               run[r].state \notin Parked /\ \A d \in spec.needs[s] : row[r][d].state = "succeeded"
      /\ run[r].state \in Parked => ~InFlight(row[r][s])
  BY DEF RowsFit
<1>1. spec' = spec /\ spec.needs[s] \subseteq Stages /\ row[r][s].attempt \in Attempts
  BY StepFacts
<1>2. SameRow(r, s) /\ \A d \in spec.needs[s] : SameRow(r, d)
  BY <1>1 DEF SameRows
<1>3. \A a \in Attempts : job[r][s][a].st = "none" => job'[r][s][a].st = "none"
  BY DEF NoneMinted
<1>4. Upto(job'[r][s], row[r][s])
  BY <1>0, <1>1, <1>3, UptoStep
<1>5. Upto(job'[r][s], row'[r][s])
  BY <1>2, <1>4, UptoSame DEF SameRow
<1>6. run'[r].state = run[r].state \/ run'[r].state \in {"running", "cancelled"}
  BY DEF SameRun
<1>7. ASSUME row'[r][s].state = "pending", job'[r][s][row'[r][s].attempt].st # "none"
      PROVE  run'[r].state \notin Parked /\ \A d \in spec.needs[s] : row'[r][d].state = "succeeded"
  <2>1. row[r][s].state = "pending" /\ row'[r][s].attempt = row[r][s].attempt
    BY <1>2, <1>7 DEF SameRow
  <2>2. job[r][s][row[r][s].attempt].st # "none"
    BY <1>1, <1>3, <1>7, <2>1
  <2>3. run[r].state \notin Parked /\ \A d \in spec.needs[s] : row[r][d].state = "succeeded"
    BY <1>0, <2>1, <2>2
  <2> QED BY <1>2, <1>6, <2>3 DEF SameRow, Parked
<1>8. run'[r].state \in Parked => ~InFlight(row'[r][s])
  BY <1>0, <1>2, <1>6 DEF SameRow, Parked, InFlight
<1>9. /\ run'[r].state = "none" => row'[r][s].state = "none"
      /\ row'[r][s].state = "none" => \A a \in Attempts : job'[r][s][a].st = "none"
      /\ spec'.kind[s] \in Jobless => \A a \in Attempts : job'[r][s][a].st = "none"
  BY <1>0, <1>1, <1>2, <1>3, <1>6 DEF SameRow
<1> QED BY <1>1, <1>5, <1>7, <1>8, <1>9

\* Rows still fit after a fitting row is written where there was none or one
\* that had not succeeded.
LEMMA RowsWrite ==
    ASSUME Base, [Next]_vars, RowsFit(spec, run, row, job), NEW q \in Runs, NEW t \in Stages,
           NEW x \in Rows, WroteRow(q, t, x), NoneMinted, SameRuns,
           run[q].state # "none", run[q].state \in Parked => ~InFlight(x),
           row[q][t].state # "succeeded", x.state # "none", Upto(job[q][t], x),
           x.state = "pending" => job[q][t][x.attempt].st = "none"
    PROVE  RowsFit(spec, run, row, job)'
<1> SUFFICES ASSUME NEW r \in Runs, NEW s \in Stages
             PROVE
        /\ run'[r].state = "none" => row'[r][s].state = "none"
        /\ row'[r][s].state = "none" => \A a \in Attempts : job'[r][s][a].st = "none"
        /\ spec'.kind[s] \in Jobless => \A a \in Attempts : job'[r][s][a].st = "none"
        /\ Upto(job'[r][s], row'[r][s])
        /\ row'[r][s].state = "pending" /\ job'[r][s][row'[r][s].attempt].st # "none" =>
               /\ run'[r].state \notin Parked
               /\ \A d \in spec'.needs[s] : row'[r][d].state = "succeeded"
        /\ run'[r].state \in Parked => ~InFlight(row'[r][s])
  BY DEF RowsFit
<1>0. /\ run[r].state = "none" => row[r][s].state = "none"
      /\ row[r][s].state = "none" => \A a \in Attempts : job[r][s][a].st = "none"
      /\ spec.kind[s] \in Jobless => \A a \in Attempts : job[r][s][a].st = "none"
      /\ Upto(job[r][s], row[r][s])
      /\ row[r][s].state = "pending" /\ job[r][s][row[r][s].attempt].st # "none" =>
               run[r].state \notin Parked /\ \A d \in spec.needs[s] : row[r][d].state = "succeeded"
      /\ run[r].state \in Parked => ~InFlight(row[r][s])
  BY DEF RowsFit
<1>1. /\ spec' = spec /\ spec.needs[s] \subseteq Stages /\ row[r][s].attempt \in Attempts
      /\ x.attempt \in Attempts
  BY StepFacts DEF Rows
<1>3. \A a \in Attempts : job[r][s][a].st = "none" => job'[r][s][a].st = "none"
  BY DEF NoneMinted
<1>n. run'[r].state = run[r].state
  BY DEF SameRuns, SameRun
<1>d. \A d \in Stages : row[r][d].state = "succeeded" => row'[r][d].state = "succeeded"
  BY DEF WroteRow, SameRow
<1>4. CASE r # q \/ s # t
  <2>1. SameRow(r, s)
    BY <1>4 DEF WroteRow
  <2>2. Upto(job'[r][s], row[r][s])
    BY <1>0, <1>1, <1>3, UptoStep
  <2>3. Upto(job'[r][s], row'[r][s])
    BY <2>1, <2>2, UptoSame DEF SameRow
  <2>4. ASSUME row'[r][s].state = "pending", job'[r][s][row'[r][s].attempt].st # "none"
        PROVE  run'[r].state \notin Parked /\ \A d \in spec.needs[s] : row'[r][d].state = "succeeded"
    <3>1. row[r][s].state = "pending" /\ row'[r][s].attempt = row[r][s].attempt
      BY <2>1, <2>4 DEF SameRow
    <3>2. job[r][s][row[r][s].attempt].st # "none"
      BY <1>1, <1>3, <2>4, <3>1
    <3>3. run[r].state \notin Parked /\ \A d \in spec.needs[s] : row[r][d].state = "succeeded"
      BY <1>0, <3>1, <3>2
    <3> QED BY <1>1, <1>n, <1>d, <3>3
  <2>5. run'[r].state \in Parked => ~InFlight(row'[r][s])
    BY <1>0, <1>n, <2>1 DEF SameRow, InFlight
  <2>6. /\ run'[r].state = "none" => row'[r][s].state = "none"
        /\ row'[r][s].state = "none" => \A a \in Attempts : job'[r][s][a].st = "none"
        /\ spec'.kind[s] \in Jobless => \A a \in Attempts : job'[r][s][a].st = "none"
    BY <1>0, <1>1, <1>3, <1>n, <2>1 DEF SameRow
  <2> QED BY <1>1, <2>3, <2>4, <2>5, <2>6
<1>5. CASE r = q /\ s = t
  <2>1. row'[r][s].state = x.state /\ row'[r][s].attempt = x.attempt
    BY <1>5 DEF WroteRow
  <2>2. Upto(job'[r][s], x)
    BY <1>1, <1>3, <1>5, UptoStep
  <2>3. Upto(job'[r][s], row'[r][s])
    BY <2>1, <2>2, UptoSame
  <2> QED BY <1>0, <1>1, <1>3, <1>5, <1>n, <2>1, <2>3 DEF InFlight
<1> QED BY <1>4, <1>5

\* The scan's knowledge survives what others do to runs that do not run.
LEMMA ScanKeep ==
    ASSUME Base, [Next]_vars, ScanFits(spec, proc[Daemon], run, row, job),
           proc'[Daemon] = proc[Daemon], NoneMinted,
           \A r \in Runs : run[r].state = "running" =>
               run'[r].state = "running" /\ \A s \in Stages : SameRow(r, s)
    PROVE  ScanFits(spec, proc[Daemon], run, row, job)'
<1> DEFINE me == proc[Daemon]
<1>1. /\ me \in ProcRec /\ me.run \in Runs /\ me.todo \subseteq Runs
      /\ me.view \in [Stages -> Rows] /\ me.out \in Rows
  BY TypeParts DEF Base, ProcRec, Procs
<1>2. spec' = spec /\ ProcOK(me)
  BY Moves DEF Base, ProcInv, Procs
<1> HIDE DEF me
<1>3. ScanFits(spec, me, run, row, job) /\ me' = me
  BY DEF me
<1>4. \A t \in Stages : Behind(spec, me, t, job) => Behind(spec, me, t, job')
  <2>1. \A t \in Stages : me.view[t].attempt \in Attempts
    BY <1>1 DEF Rows
  <2> QED BY <1>1, <2>1 DEF Behind, NoneMinted
<1>5. run[me.run].state = "running" /\ Synced(me, row) => Synced(me, row')
  BY <1>1 DEF Synced, SameRow
<1>6. me.pc = "enqueued" => /\ Upto(job'[me.run][me.at], me.out)
                            /\ me.out.state = "pending" =>
                                  job'[me.run][me.at][me.out.attempt].st = "none"
  <2> SUFFICES ASSUME me.pc = "enqueued"
               PROVE /\ Upto(job'[me.run][me.at], me.out)
                     /\ me.out.state = "pending" =>
                            job'[me.run][me.at][me.out.attempt].st = "none"
    OBVIOUS
  <2>1. me.at \in Stages /\ me.out.attempt \in Attempts
    BY <1>1, <1>2 DEF ProcOK, OnStage, Rows
  <2>2. Upto(job[me.run][me.at], me.out)
        /\ (me.out.state = "pending" => job[me.run][me.at][me.out.attempt].st = "none")
    BY <1>3 DEF ScanFits
  <2> QED BY <1>1, <2>1, <2>2, UptoStep DEF NoneMinted
<1>7. ScanFits(spec, me, run', row', job')
  BY <1>1, <1>3, <1>4, <1>5, <1>6 DEF ScanFits, SameRow, InPass
<1> QED BY <1>2, <1>3, <1>7 DEF me

\* The operator's knowledge survives what others do to runs that are not parked.
LEMMA OperKeep ==
    ASSUME Base, OperFits(proc[Oper], run, row), proc'[Oper] = proc[Oper],
           \A r \in Runs : run[r].state \in Parked =>
               SameRun(r) /\ \A s \in Stages : SameRow(r, s)
    PROVE  OperFits(proc[Oper], run, row)'
<1>1. proc[Oper].run \in Runs /\ proc[Oper].set \subseteq Stages
  BY TypeParts DEF Base, ProcRec, Procs
<1> QED BY <1>1 DEF OperFits, SameRun, SameRow
-----------------------------------------------------------------------------
(* The steps of the scan *)

Known == OneScan /\ Base /\ NeedsFirst /\ ScanInv

\* What is known of the rows and of the scan.
LEMMA ScanParts ==
    ASSUME Known
    PROVE  LET me == proc[Daemon]
           IN  /\ me \in ProcRec /\ me.run \in Runs /\ me.todo \subseteq Runs /\ ProcOK(me)
               /\ me.view \in [Stages -> Rows] /\ me.out \in Rows /\ me.at \in 1..(NStages + 1)
               /\ \A s \in Stages : me.view[s] \in Rows /\ me.view[s].attempt \in Attempts
               /\ TypeOK /\ proc \in [Procs -> ProcRec] /\ run \in [Runs -> RunRec]
               /\ row \in [Runs -> [Stages -> Rows]]
               /\ job \in [Runs -> [Stages -> [Attempts -> JobRows]]]
               /\ proc[Cli].pc = "idle"
               /\ RowsFit(spec, run, row, job)
               /\ ScanFits(spec, me, run, row, job)
               /\ OperFits(proc[Oper], run, row)
<1>1. Daemon \in Procs
  BY DEF Procs
<1>2. TypeOK /\ ProcInv
  BY DEF Known, Base
<1>3. /\ proc \in [Procs -> ProcRec] /\ run \in [Runs -> RunRec]
      /\ row \in [Runs -> [Stages -> Rows]]
      /\ job \in [Runs -> [Stages -> [Attempts -> JobRows]]]
  BY <1>2, TypeParts
<1>4. \A x \in Rows : x.attempt \in Attempts
  BY DEF Rows
<1> QED BY <1>1, <1>2, <1>3, <1>4 DEF Known, ScanInv, ProcInv, ProcRec

\* What remains to be shown of a step of the scan: the rows fit, the scan's new
\* knowledge fits, and parked runs are as they were.
LEMMA ScanMoves ==
    ASSUME Known, [Next]_vars, NEW me, Move(Daemon, me),
           RowsFit(spec, run, row, job)', ScanFits(spec, me, run', row', job'),
           \A r \in Runs : run[r].state \in Parked =>
               SameRun(r) /\ \A s \in Stages : SameRow(r, s)
    PROVE  ScanInv'
<1>1. \A p \in Procs : proc'[p] = IF p = Daemon THEN me ELSE proc[p]
  BY ScanParts DEF Move
<1>2. /\ proc'[Daemon] = me /\ proc'[Cli] = proc[Cli] /\ proc'[Oper] = proc[Oper]
  BY <1>1 DEF Procs, Daemon, Cli, Oper
<1>3. spec' = spec
  BY StepFacts DEF Known
<1>4. ScanFits(spec, proc[Daemon], run, row, job)'
  BY <1>2, <1>3
<1>5. OperFits(proc[Oper], run, row)'
  BY <1>2, ScanParts, OperKeep DEF Known
<1>6. proc'[Cli].pc = "idle"
  BY <1>2, ScanParts
<1> QED BY <1>4, <1>5, <1>6 DEF ScanInv

\* A step that leaves rows, runs and jobs alone.
LEMMA ScanLooks ==
    ASSUME Known, [Next]_vars, NEW me, Move(Daemon, me), run' = run, row' = row, job' = job,
           ScanFits(spec, me, run, row, job)
    PROVE  ScanInv'
<1>1. SameRows /\ NoneMinted /\ SameRuns
  BY DEF SameRows, NoneMinted, SameRuns, SameRow, SameRun
<1>2. RowsFit(spec, run, row, job)'
  BY <1>1, ScanParts, RowsKeep DEF Known, SameRuns
<1>3. ScanFits(spec, me, run', row', job')
  OBVIOUS
<1> QED BY <1>1, <1>2, <1>3, ScanMoves DEF SameRuns, SameRows

\* Put writes one row: the pass's view says what the other rows are.
LEMMA PutWrote ==
    ASSUME Known, proc[Daemon].pc \in InPass, NEW s \in Stages, NEW x \in Rows,
           Put(Daemon, s, x)
    PROVE  WroteRow(proc[Daemon].run, s, x)
<1> DEFINE me == proc[Daemon]
<1> SUFFICES WroteRow(me.run, s, x)
  OBVIOUS
<1>1. me.run \in Runs /\ row \in [Runs -> [Stages -> Rows]]
  BY ScanParts
<1>f. ScanFits(spec, me, run, row, job) /\ me.pc \in InPass
  BY ScanParts
<1>2. row' = IF x = me.view[s] THEN row ELSE [row EXCEPT ![me.run][s] = x]
  BY DEF Put
<1> HIDE DEF me
<1>s. Synced(me, row)
  BY <1>f DEF ScanFits
<1>3. CASE x = me.view[s]
  BY <1>1, <1>2, <1>3, <1>s DEF WroteRow, Synced, SameRow
<1>4. CASE x # me.view[s]
  <2>1. \A q \in Runs, t \in Stages : row'[q][t] = IF q = me.run /\ t = s THEN x ELSE row[q][t]
    BY <1>1, <1>2, <1>4
  <2> QED BY <1>1, <2>1 DEF WroteRow, SameRow
<1> QED BY <1>3, <1>4

\* A pass writes the row of a stage that had not succeeded.
LEMMA PassWrites ==
    ASSUME Known, [Next]_vars, proc[Daemon].pc \in InPass, NEW s \in Stages, NEW x \in Rows,
           Put(Daemon, s, x), run' = run, NoneMinted,
           proc[Daemon].view[s].state # "succeeded", x.state # "none",
           Upto(job[proc[Daemon].run][s], x),
           x.state = "pending" => job[proc[Daemon].run][s][x.attempt].st = "none"
    PROVE  LET me == proc[Daemon]
               y == Saw(me, s, x)
           IN  /\ RowsFit(spec, run, row, job)'
               /\ \A r \in Runs : run[r].state \in Parked =>
                      SameRun(r) /\ \A t \in Stages : SameRow(r, t)
               /\ y \in ProcRec /\ y.run = me.run /\ y.todo = me.todo /\ y.at = s + 1
               /\ \A t \in Stages : y.view[t] = IF t = s THEN x ELSE me.view[t]
               /\ \A r \in y.todo : run'[r].state = "running"
               /\ run'[y.run].state = "running" /\ y.run \notin y.todo
               /\ Synced(y, row')
<1> DEFINE me == proc[Daemon]
           y == Saw(me, s, x)
<1>1. /\ me \in ProcRec /\ me.run \in Runs /\ me.view \in [Stages -> Rows] /\ me.pc \in InPass
      /\ row \in [Runs -> [Stages -> Rows]] /\ ScanFits(spec, me, run, row, job)
  BY ScanParts
<1>3. Upto(job[me.run][s], x) /\ (x.state = "pending" => job[me.run][s][x.attempt].st = "none")
      /\ me.view[s].state # "succeeded"
  OBVIOUS
<1>4. y \in ProcRec /\ y.view = [me.view EXCEPT ![s] = x] /\ y.run = me.run
  BY <1>1, SawType
<1>5. y.todo = me.todo /\ y.at = s + 1
  BY <1>1 DEF Saw, ProcRec
<1> HIDE DEF me, y
<1>6. /\ run[me.run].state = "running" /\ me.run \notin me.todo /\ Synced(me, row)
      /\ \A r \in me.todo : run[r].state = "running"
  BY <1>1 DEF ScanFits
<1>7. WroteRow(me.run, s, x)
  BY PutWrote DEF me
<1>8. SameRuns
  BY DEF SameRuns, SameRun
<1>9. RowsFit(spec, run, row, job)'
  <2>1. row[me.run][s].state # "succeeded"
    BY <1>3, <1>6 DEF Synced
  <2>2. run[me.run].state \notin Parked /\ run[me.run].state # "none"
    BY <1>6 DEF Parked
  <2> QED BY <1>1, <1>3, <1>7, <1>8, <2>1, <2>2, ScanParts, RowsWrite DEF Known
<1>10. \A r \in Runs : run[r].state \in Parked =>
          SameRun(r) /\ \A t \in Stages : SameRow(r, t)
  BY <1>6, <1>7, <1>8 DEF WroteRow, SameRuns, Parked
<1>11. \A t \in Stages : y.view[t] = IF t = s THEN x ELSE me.view[t]
  BY <1>1, <1>4
<1>12. Synced(y, row')
  BY <1>1, <1>4, <1>6, <1>7, <1>11 DEF Synced, WroteRow, SameRow
<1> QED BY <1>4, <1>5, <1>6, <1>9, <1>10, <1>11, <1>12 DEF me, y

\* The row of a stage whose job is over, or succeeded, fits.
LEMMA EndedFits ==
    ASSUME TypeOK, NEW s \in Stages, NEW js, NEW x \in Rows,
           \A a \in Attempts : a < x.attempt => Over(js[a]),
           \A a \in Attempts : a > x.attempt => js[a].st = "none",
           NEW st \in {"succeeded", "blocked", "failed"},
           st # "succeeded" => Over(js[x.attempt])
    PROVE  LET y == Ended(s, x, st)
           IN  /\ y \in Rows /\ y.state \in {"pending", "succeeded", "blocked", "failed"}
               /\ Upto(js, y)
               /\ y.state = "pending" => js[y.attempt].st = "none" /\ spec.retry[s] > 0
<1> DEFINE y == Ended(s, x, st)
<1>1. y \in Rows
  BY EndedType
<1>2. spec.retry[s] \in Nat /\ x.attempt \in Nat /\ Attempts \subseteq Nat
      /\ spec.retry[s] \in Attempts
  BY SpecFacts, Constants DEF Rows, Attempts
<1>3. CASE st = "failed" /\ x.attempt < spec.retry[s]
  <2>1. y.state = "pending" /\ y.attempt = x.attempt + 1
    BY <1>3 DEF Ended, Pending, NoRow
  <2>2. x.attempt + 1 \in Attempts
    BY <1>1, <2>1 DEF Rows
  <2> HIDE DEF y
  <2>3. Upto(js, y)
    <3>1. \A a \in Attempts : a < y.attempt => a < x.attempt \/ a = x.attempt
      BY <1>2, <2>1
    <3>2. \A a \in Attempts : a > y.attempt => a > x.attempt
      BY <1>2, <2>1
    <3> QED BY <1>3, <2>1, <3>1, <3>2 DEF Upto, Dead
  <2>4. js[y.attempt].st = "none" /\ spec.retry[s] > 0
    BY <1>2, <1>3, <2>1, <2>2
  <2> QED BY <1>1, <2>1, <2>3, <2>4 DEF y
<1>4. CASE ~(st = "failed" /\ x.attempt < spec.retry[s])
  <2>1. y.state = st /\ y.attempt = x.attempt
    BY <1>4 DEF Ended, Rows
  <2> HIDE DEF y
  <2>2. Upto(js, y)
    BY <2>1 DEF Upto, Dead
  <2> QED BY <1>1, <2>1, <2>2 DEF y
<1> QED BY <1>3, <1>4

\* A job that folds to something else than success is over.
LEMMA FoldOver ==
    ASSUME NEW j \in JobRows, j.st \in {"none", "settled", "cancelled"}, ~j.more \/ j.st # "settled",
           FoldOutcome(j) # "succeeded"
    PROVE  Over(j)
BY DEF FoldOutcome, Over, JobRows

\* A look at the job of a stage in flight gives a row that fits.
LEMMA JobFits ==
    ASSUME TypeOK, NEW r \in Runs, NEW s \in Stages, NEW x \in Rows, InFlight(x),
           Upto(job[r][s], x)
    PROVE  LET y == JobOutcome(r, s, x)
           IN  /\ y \in Rows /\ y.state \notin {"none", "skipped"}
               /\ Upto(job[r][s], y)
               /\ y.state = "pending" => job[r][s][y.attempt].st = "none"
<1> DEFINE y == JobOutcome(r, s, x)
           j == job[r][s][x.attempt]
<1>1. y \in Rows
  BY JobOutcomeType
<1>2. x.attempt \in Attempts /\ j \in JobRows
  BY DEF TypeOK, Rows
<1>3. /\ Reflect(x).state \in {"queued", "running"} /\ Reflect(x).attempt = x.attempt
      /\ [Reflect(x) EXCEPT !.gen = @ + 1].state = Reflect(x).state
      /\ [Reflect(x) EXCEPT !.gen = @ + 1].attempt = x.attempt
  BY DEF Reflect, InFlight, Rows
<1> HIDE DEF j
<1>4. \/ y \in {x, Reflect(x), [Reflect(x) EXCEPT !.gen = @ + 1]}
      \/ /\ y = Ended(s, x, FoldOutcome(j)) /\ j.st \notin {"queued", "running"}
         /\ ~(j.st = "settled" /\ j.more)
  BY DEF JobOutcome, j
<1> HIDE DEF y
<1>5. CASE y \in {x, Reflect(x), [Reflect(x) EXCEPT !.gen = @ + 1]}
  <2>1. y.state \in {"queued", "running"} /\ y.attempt = x.attempt
    BY <1>3, <1>5 DEF InFlight
  <2>2. Upto(job[r][s], y)
    BY <2>1 DEF Upto, Dead
  <2> QED BY <1>1, <2>1, <2>2 DEF y
<1>6. CASE /\ y = Ended(s, x, FoldOutcome(j)) /\ j.st \notin {"queued", "running"}
           /\ ~(j.st = "settled" /\ j.more)
  <2>1. FoldOutcome(j) \in {"succeeded", "blocked", "failed"}
    BY <1>2, FoldOutcomeType
  <2>2. FoldOutcome(j) # "succeeded" => Over(j)
    BY <1>2, <1>6, FoldOver DEF JobRows
  <2>3. /\ y.state \in {"pending", "succeeded", "blocked", "failed"} /\ Upto(job[r][s], y)
        /\ y.state = "pending" => job[r][s][y.attempt].st = "none"
    <3>1. /\ \A a \in Attempts : a < x.attempt => Over(job[r][s][a])
          /\ \A a \in Attempts : a > x.attempt => job[r][s][a].st = "none"
      BY DEF Upto
    <3>2. FoldOutcome(j) # "succeeded" => Over(job[r][s][x.attempt])
      BY <2>2 DEF j
    <3> DEFINE z == Ended(s, x, FoldOutcome(j))
    <3>3. /\ z.state \in {"pending", "succeeded", "blocked", "failed"} /\ Upto(job[r][s], z)
          /\ z.state = "pending" => job[r][s][z.attempt].st = "none"
      BY <2>1, <3>1, <3>2, EndedFits
    <3> QED BY <1>6, <3>3
  <2> QED BY <1>1, <2>3 DEF y
<1> QED BY <1>4, <1>5, <1>6

\* `pipeline run` takes no step where only the daemon creates runs.
LEMMA OnlyScan ==
    ASSUME Known, NEW p \in {Daemon, Cli}, Pass(p)
    PROVE  p = Daemon
<1>1. proc[Cli].pc = "idle" /\ Cli \notin Creators
  BY ScanParts DEF Known, OneScan, Daemon, Cli
<1>2. CASE p = Cli
  <2>1. ~Check(Cli)
    BY <1>1 DEF Check, Daemon, Cli
  <2> QED BY <1>1, <1>2, <2>1
      DEF Pass, CreateRun, CreateStage, NextDue, Trigger, List, Fold, FoldGate, Merge, PutMerged,
          Start, Enqueue, PutEnqueued, Skip, Settle
<1> QED BY <1>2

\* Where the scan is idle or between runs it knows nothing.
LEMMA RestFits ==
    ASSUME NEW pc \in {"idle", "create", "due", "trigger"}, NEW q, NEW rn, NEW rw, NEW jb
    PROVE  ScanFits(q, [Idle EXCEPT !.pc = pc], rn, rw, jb)
BY DEF ScanFits, Idle, InPass

\* The scan has nothing to create, or moves the schedule on.
LEMMA RestStep ==
    ASSUME Known, [Next]_vars, Check(Daemon) \/ NextDue(Daemon)
    PROVE  ScanInv'
<1>1. PICK pc \in {"create", "due", "trigger"} : Move(Daemon, [Idle EXCEPT !.pc = pc])
  BY DEF Check, NextDue
<1>2. run' = run /\ row' = row /\ job' = job
  BY DEF Check, NextDue
<1>3. ScanFits(spec, [Idle EXCEPT !.pc = pc], run, row, job)
  BY RestFits
<1> HIDE DEF Idle
<1> DEFINE me == [Idle EXCEPT !.pc = pc]
<1>4. Move(Daemon, me) /\ ScanFits(spec, me, run, row, job)
  BY <1>1, <1>3
<1> HIDE DEF me
<1> QED BY <1>2, <1>4, ScanLooks

\* The row of a new run.
LEMMA CreateRunStep == ASSUME Known, [Next]_vars, CreateRun(Daemon) PROVE ScanInv'
<1>1. PICK r \in Fresh :
          /\ run' = [run EXCEPT ![r] = New("schedule", 0)]
          /\ Move(Daemon, [Idle EXCEPT !.pc = "stages", !.run = r])
  BY DEF CreateRun
<1> DEFINE me == [Idle EXCEPT !.pc = "stages", !.run = r]
<1>2. r \in Runs /\ run[r].state = "none" /\ run \in [Runs -> RunRec]
  BY ScanParts DEF Fresh
<1>3. row' = row /\ job' = job
  BY DEF CreateRun
<1>4. \A q \in Runs : run'[q] = IF q = r THEN New("schedule", 0) ELSE run[q]
  BY <1>1, <1>2
<1>5. run'[r].state = "running"
  BY <1>2, <1>4 DEF New
<1>6. /\ me.pc = "stages" /\ me.run = r /\ me.todo = {}
  BY DEF Idle
<1>7. \A s \in Stages : row[r][s].state = "none"
  BY <1>2, ScanParts DEF RowsFit
<1>m. Move(Daemon, me)
  BY <1>1
<1> HIDE DEF me
<1>8. ScanFits(spec, me, run', row', job')
  BY <1>3, <1>5, <1>6, <1>7 DEF ScanFits, InPass
<1>9. SameRows /\ NoneMinted /\ \A q \in Runs : q # r => SameRun(q)
  BY <1>3, <1>4 DEF SameRows, NoneMinted, SameRow, SameRun
<1>10. RowsFit(spec, run, row, job)'
  BY <1>5, <1>9, ScanParts, RowsKeep DEF Known
<1> QED BY <1>m, <1>2, <1>8, <1>9, <1>10, ScanMoves DEF Parked, SameRows

\* The row of a stage of a new run.
LEMMA CreateStageStep == ASSUME Known, [Next]_vars, CreateStage(Daemon) PROVE ScanInv'
<1> DEFINE me == proc[Daemon]
           me1 == IF me.at < NStages THEN [me EXCEPT !.at = @ + 1]
                  ELSE [me EXCEPT !.pc = "due", !.at = 1, !.todo = {}]
<1>1. /\ me \in ProcRec /\ me.pc = "stages" /\ me.at \in Stages /\ me.run \in Runs
      /\ ScanFits(spec, me, run, row, job)
  BY ScanParts DEF CreateStage, ProcOK, OnStage
<1>2. row' = [row EXCEPT ![me.run][me.at] = Pending] /\ Move(Daemon, me1)
  BY DEF CreateStage
<1>3. run' = run /\ job' = job
  BY DEF CreateStage
<1>4. /\ me1.run = me.run /\ me1.todo \subseteq me.todo
      /\ \/ me1.pc = "stages" /\ me1.at = me.at + 1
         \/ me1.pc = "due"
  BY <1>1 DEF ProcRec
<1> HIDE DEF me, me1
<1>5. /\ run[me.run].state = "running" /\ me.run \notin me.todo
      /\ \A r \in me.todo : run[r].state = "running"
      /\ \A s \in Stages : s >= me.at => row[me.run][s].state = "none"
  BY <1>1 DEF ScanFits
<1>6. row[me.run][me.at].state = "none"
  BY <1>1, <1>5 DEF Stages
<1>7. \A a \in Attempts : job[me.run][me.at][a].st = "none"
  BY <1>1, <1>6, ScanParts DEF RowsFit
<1>8. Pending.state = "pending" /\ Pending.attempt = 0 /\ 0 \in Attempts /\ Pending \in Rows
  BY Constants DEF Pending, NoRow, Attempts
<1>9. \A q \in Runs, t \in Stages :
         row'[q][t] = IF q = me.run /\ t = me.at THEN Pending ELSE row[q][t]
  BY <1>1, <1>2, ScanParts
<1>10. WroteRow(me.run, me.at, Pending) /\ SameRuns /\ NoneMinted
  BY <1>1, <1>3, <1>9 DEF WroteRow, SameRow, SameRuns, SameRun, NoneMinted
<1>11. Upto(job[me.run][me.at], Pending)
  BY <1>7, <1>8 DEF Upto, Over
<1>12. RowsFit(spec, run, row, job)'
  BY <1>1, <1>5, <1>6, <1>7, <1>8, <1>10, <1>11, ScanParts, RowsWrite DEF Known, InFlight, Parked
<1>13. ScanFits(spec, me1, run', row', job')
  <2>1. \A s \in Stages : s >= me.at + 1 => row'[me.run][s].state = "none"
    BY <1>1, <1>5, <1>9 DEF Stages
  <2> QED BY <1>3, <1>4, <1>5, <2>1 DEF ScanFits, InPass
<1>14. \A r \in Runs : run[r].state \in Parked =>
          SameRun(r) /\ \A s \in Stages : SameRow(r, s)
  BY <1>5, <1>10 DEF WroteRow, SameRuns, Parked
<1> QED BY <1>2, <1>12, <1>13, <1>14, ScanMoves

\* A run for an upstream success.
LEMMA TriggerStep == ASSUME Known, [Next]_vars, Trigger(Daemon) PROVE ScanInv'
<1> DEFINE me1 == [Idle EXCEPT !.todo = {r \in Runs : run'[r].state = "running"}]
<1>1. Move(Daemon, PassDone(me1)) /\ job' = job
  BY DEF Trigger
<1>2. me1 \in ProcRec /\ \A r \in me1.todo : run'[r].state = "running"
  BY Constants DEF ProcRec
<1> HIDE DEF me1
<1>3. ScanFits(spec, PassDone(me1), run', row', job')
  BY <1>2, DoneFits
<1>4. CASE run' = run /\ row' = row
  <2>1. SameRows /\ NoneMinted /\ SameRuns
    BY <1>1, <1>4 DEF SameRows, NoneMinted, SameRuns, SameRow, SameRun
  <2>2. RowsFit(spec, run, row, job)'
    BY <2>1, ScanParts, RowsKeep DEF Known, SameRuns
  <2> QED BY <1>1, <1>3, <2>1, <2>2, ScanMoves DEF SameRuns, SameRows
<1>5. CASE \E u \in Nat, r \in Fresh : /\ run' = [run EXCEPT ![r] = New("pipeline", u)]
                                       /\ row' = [row EXCEPT ![r] = [s \in Stages |-> Pending]]
  <2>1. PICK u \in Nat, r \in Fresh : /\ run' = [run EXCEPT ![r] = New("pipeline", u)]
                                      /\ row' = [row EXCEPT ![r] = [s \in Stages |-> Pending]]
    BY <1>5
  <2>2. r \in Runs /\ run[r].state = "none"
    BY DEF Fresh
  <2>3. \A q \in Runs : run'[q] = IF q = r THEN New("pipeline", u) ELSE run[q]
    BY <2>1, <2>2, ScanParts
  <2>4. \A q \in Runs : row'[q] = IF q = r THEN [s \in Stages |-> Pending] ELSE row[q]
    BY <2>1, <2>2, ScanParts
  <2>5. run'[r].state = "running" /\ \A s \in Stages : row'[r][s] = Pending
    BY <2>2, <2>3, <2>4 DEF New
  <2>6. \A s \in Stages, a \in Attempts : job[r][s][a].st = "none"
    BY <2>2, ScanParts DEF RowsFit
  <2>7. Pending.state = "pending" /\ Pending.attempt = 0 /\ 0 \in Attempts
    BY Constants DEF Pending, NoRow, Attempts
  <2>8. spec' = spec
    BY StepFacts DEF Known
  <2>9. RowsFit(spec, run, row, job)'
    <3> SUFFICES ASSUME NEW q \in Runs, NEW s \in Stages
                 PROVE
          /\ run'[q].state = "none" => row'[q][s].state = "none"
          /\ row'[q][s].state = "none" => \A a \in Attempts : job'[q][s][a].st = "none"
          /\ spec'.kind[s] \in Jobless => \A a \in Attempts : job'[q][s][a].st = "none"
          /\ Upto(job'[q][s], row'[q][s])
          /\ row'[q][s].state = "pending" /\ job'[q][s][row'[q][s].attempt].st # "none" =>
                 /\ run'[q].state \notin Parked
                 /\ \A d \in spec'.needs[s] : row'[q][d].state = "succeeded"
          /\ run'[q].state \in Parked => ~InFlight(row'[q][s])
      BY DEF RowsFit
    <3>1. CASE q = r
      <4>1. Upto(job'[q][s], row'[q][s])
        BY <1>1, <2>5, <2>6, <2>7, <3>1 DEF Upto, Over
      <4> QED BY <1>1, <2>5, <2>6, <2>7, <3>1, <4>1 DEF Parked
    <3>2. CASE q # r
      <4>1. run'[q] = run[q] /\ row'[q] = row[q]
        BY <2>3, <2>4, <3>2
      <4> QED BY <1>1, <2>8, <4>1, ScanParts DEF RowsFit
    <3> QED BY <3>1, <3>2
  <2>10. \A q \in Runs : run[q].state \in Parked =>
            SameRun(q) /\ \A s \in Stages : SameRow(q, s)
    BY <2>2, <2>3, <2>4 DEF SameRun, SameRow, Parked
  <2> QED BY <1>1, <1>3, <2>9, <2>10, ScanMoves
<1>6. \/ run' = run /\ row' = row
      \/ \E u \in Nat, r \in Fresh : /\ run' = [run EXCEPT ![r] = New("pipeline", u)]
                                     /\ row' = [row EXCEPT ![r] = [s \in Stages |-> Pending]]
  <2>1. DOMAIN up \subseteq Nat
    BY ScanParts, Constants DEF TypeOK
  <2>2. First({u \in DOMAIN up : u > cursor /\ up[u] = "succeeded"}) \subseteq Nat
    BY <2>1, FirstIn
  <2> QED BY <2>2 DEF Trigger
<1> QED BY <1>4, <1>5, <1>6

\* A pass begins with the rows as they are.
LEMMA ListStep == ASSUME Known, [Next]_vars, List(Daemon) PROVE ScanInv'
<1>1. PICK r \in First(proc[Daemon].todo) :
          Move(Daemon, FoldNext([Idle EXCEPT !.run = r, !.view = row[r],
                                             !.todo = proc[Daemon].todo \ {r}]))
  BY DEF List
<1> DEFINE me == [Idle EXCEPT !.run = r, !.view = row[r], !.todo = proc[Daemon].todo \ {r}]
<1>2. r \in proc[Daemon].todo /\ r \in Runs /\ proc[Daemon].todo \subseteq Runs
  BY FirstIn, ScanParts
<1>3. row[r] \in [Stages -> Rows]
  BY <1>2, ScanParts
<1>4. me \in ProcRec /\ me.view = row[r] /\ me.run = r /\ me.todo = proc[Daemon].todo \ {r}
  BY <1>2, <1>3, Constants DEF ProcRec
<1>m. Move(Daemon, FoldNext(me))
  BY <1>1
<1> HIDE DEF me
<1>5. \A q \in proc[Daemon].todo : run[q].state = "running"
  BY ScanParts DEF ScanFits
<1>6. Synced(me, row)
  BY <1>4 DEF Synced
<1>7. ScanFits(spec, FoldNext(me), run, row, job)
  BY <1>2, <1>4, <1>5, <1>6, FoldFits
<1>8. run' = run /\ row' = row /\ job' = job
  BY DEF List
<1> QED BY <1>m, <1>7, <1>8, ScanLooks

\* A fold goes on to the next stage with a row that fits.
LEMMA FoldGoesOn ==
    ASSUME Known, [Next]_vars, proc[Daemon].pc \in InPass, NEW s \in Stages, NEW x \in Rows,
           Put(Daemon, s, x), run' = run, NoneMinted,
           proc[Daemon].view[s].state # "succeeded", x.state # "none",
           Upto(job[proc[Daemon].run][s], x),
           x.state = "pending" => job[proc[Daemon].run][s][x.attempt].st = "none",
           Move(Daemon, FoldNext(Saw(proc[Daemon], s, x)))
    PROVE  ScanInv'
<1> DEFINE y == Saw(proc[Daemon], s, x)
<1>1. /\ RowsFit(spec, run, row, job)'
      /\ \A r \in Runs : run[r].state \in Parked =>
             SameRun(r) /\ \A t \in Stages : SameRow(r, t)
      /\ y \in ProcRec
      /\ \A r \in y.todo : run'[r].state = "running"
      /\ run'[y.run].state = "running" /\ y.run \notin y.todo
      /\ Synced(y, row')
  BY PassWrites
<1>2. Move(Daemon, FoldNext(y))
  OBVIOUS
<1> HIDE DEF y
<1>3. ScanFits(spec, FoldNext(y), run', row', job')
  BY <1>1, FoldFits
<1> QED BY <1>1, <1>2, <1>3, ScanMoves

\* The first stage in flight.
LEMMA OpenFacts ==
    ASSUME Known, NEW s \in Open(proc[Daemon])
    PROVE  s \in Stages /\ InFlight(proc[Daemon].view[s]) /\ s >= proc[Daemon].at
<1>1. /\ s \in proc[Daemon].at..NStages /\ proc[Daemon].at \in 1..(NStages + 1)
      /\ InFlight(proc[Daemon].view[s])
  BY ScanParts, FirstIn DEF Open
<1> QED BY <1>1, Constants DEF Stages

\* What the view says of a stage fits its jobs.
LEMMA ViewUpto ==
    ASSUME Known, proc[Daemon].pc \in InPass, NEW s \in Stages
    PROVE  Upto(job[proc[Daemon].run][s], proc[Daemon].view[s])
<1>1. Synced(proc[Daemon], row) /\ proc[Daemon].run \in Runs
  BY ScanParts DEF ScanFits
<1>2. Upto(job[proc[Daemon].run][s], row[proc[Daemon].run][s])
  BY <1>1, ScanParts DEF RowsFit
<1> QED BY <1>1, <1>2, UptoSame DEF Synced

\* Any row fits a stage without jobs.
LEMMA JoblessFits ==
    ASSUME Known, NEW r \in Runs, NEW s \in Stages,
           \/ spec.kind[s] \in Jobless
           \/ Unbound(r, s)
    PROVE  /\ \A a \in Attempts : job[r][s][a].st = "none"
           /\ \A x \in Rows : Upto(job[r][s], x)
<1>1. \A a \in Attempts : job[r][s][a].st = "none"
  <2>1. CASE spec.kind[s] \in Jobless
    BY <2>1, ScanParts DEF RowsFit
  <2>2. CASE Unbound(r, s)
    <3>1. IsReview(s) /\ pr[r][spec.source[s]] \in {"none", "nopr"}
      BY <2>2 DEF Unbound
    <3> QED BY <3>1 DEF Known, NeedsFirst
  <2> QED BY <2>1, <2>2
<1>2. \A x \in Rows : x.attempt \in Attempts
  BY DEF Rows
<1> QED BY <1>1, <1>2 DEF Upto, Over

\* A stage with a job.
LEMMA FoldStep == ASSUME Known, [Next]_vars, Fold(Daemon) PROVE ScanInv'
<1> DEFINE me == proc[Daemon]
           X(s) == JobOutcome(me.run, s, me.view[s])
<1>1. PICK s \in Open(me) :
          /\ Put(Daemon, s, X(s)) /\ Move(Daemon, FoldNext(Saw(me, s, X(s))))
          /\ job' = job \/ job' = [job EXCEPT ![me.run][s][me.view[s].attempt].killed = TRUE]
  BY DEF Fold
<1>2. me.pc \in InPass /\ run' = run
  BY DEF Fold, InPass
<1>3. s \in Stages /\ InFlight(me.view[s]) /\ me.view[s] \in Rows /\ me.run \in Runs /\ TypeOK
  BY OpenFacts, ScanParts
<1>4. Upto(job[me.run][s], me.view[s])
  BY <1>2, <1>3, ViewUpto
<1>5. /\ X(s) \in Rows /\ X(s).state # "none" /\ Upto(job[me.run][s], X(s))
      /\ X(s).state = "pending" => job[me.run][s][X(s).attempt].st = "none"
  BY <1>3, <1>4, JobFits
<1>6. NoneMinted
  <2>1. job \in [Runs -> [Stages -> [Attempts -> JobRows]]] /\ me.view[s].attempt \in Attempts
    BY <1>3, ScanParts
  <2> DEFINE b == me.view[s].attempt
             k == [job[me.run][s][b] EXCEPT !.killed = TRUE]
  <2>2. job' = job \/ job' = [job EXCEPT ![me.run][s][b] = k]
    BY <1>1
  <2>3. k.st = job[me.run][s][b].st
    BY <1>3, <2>1 DEF JobRows
  <2> HIDE DEF me, X, b, k
  <2>4. \A r \in Runs, t \in Stages, a \in Attempts :
           \/ job'[r][t][a] = job[r][t][a]
           \/ job'[r][t][a] = k /\ r = me.run /\ t = s /\ a = b
    BY <1>3, <2>1, <2>2
  <2> QED BY <2>3, <2>4 DEF NoneMinted
<1>7. me.view[s].state # "succeeded"
  BY <1>3 DEF InFlight
<1> HIDE DEF X
<1> QED BY <1>1, <1>2, <1>3, <1>5, <1>6, <1>7, FoldGoesOn

\* A gate.
LEMMA FoldGateStep == ASSUME Known, [Next]_vars, FoldGate(Daemon) PROVE ScanInv'
<1> DEFINE me == proc[Daemon]
           O(s, ci) == IF spec.kind[s] = "gate" THEN GateOutcome(me.run, s)
                       ELSE AutoOutcome(me.run, s, ci)
           X(s, o) == IF o = "wait" THEN Waiting(me.view[s]) ELSE [me.view[s] EXCEPT !.state = o]
<1>1. PICK s \in Open(me), ci \in {"green", "red", "unknown"} :
          /\ spec.kind[s] \in Jobless
          /\ \/ /\ O(s, ci) = "claim"
                /\ Move(Daemon, [me EXCEPT !.pc = "merge", !.at = s])
                /\ UNCHANGED row
             \/ /\ O(s, ci) # "claim"
                /\ Put(Daemon, s, X(s, O(s, ci)))
                /\ Move(Daemon, FoldNext(Saw(me, s, X(s, O(s, ci)))))
  BY DEF FoldGate
<1>2. me.pc \in InPass /\ run' = run /\ job' = job
  BY DEF FoldGate, InPass
<1>3. /\ s \in Stages /\ InFlight(me.view[s]) /\ me.view[s] \in Rows /\ me.run \in Runs
      /\ me \in ProcRec /\ ScanFits(spec, me, run, row, job)
  BY OpenFacts, ScanParts
<1>4. O(s, ci) \in {"wait", "blocked", "succeeded", "claim"}
  BY AutoOutcomeType, GateOutcomeType
<1>k. spec.kind[s] \in Jobless
  BY <1>1
<1>5. CASE O(s, ci) = "claim"
  <2> DEFINE me1 == [me EXCEPT !.pc = "merge", !.at = s]
  <2>1. Move(Daemon, me1) /\ row' = row
    BY <1>1, <1>5, Zenon
  <2>2. me1.pc = "merge" /\ me1.at = s /\ me1.run = me.run /\ me1.view = me.view
        /\ me1.todo = me.todo
    BY <1>3 DEF ProcRec
  <2> HIDE DEF me1, me, O, X
  <2>3. ScanFits(spec, me1, run, row, job)
    BY <1>2, <1>3, <2>2 DEF ScanFits, InPass, Synced
  <2> QED BY <1>2, <2>1, <2>3, ScanLooks
<1>6. CASE O(s, ci) # "claim"
  <2> DEFINE o == O(s, ci)
             x == X(s, o)
  <2>1. Put(Daemon, s, x) /\ Move(Daemon, FoldNext(Saw(me, s, x)))
    BY <1>1, <1>6
  <2>2. o \in {"wait", "blocked", "succeeded"}
    BY <1>4, <1>6
  <2> HIDE DEF o
  <2>3. x \in Rows /\ x.state \in {"blocked", "running", "succeeded"}
    <3>1. Waiting(me.view[s]) \in Rows /\ Waiting(me.view[s]).state \in {"blocked", "running"}
      BY <1>3 DEF Waiting, Rows, StageStates
    <3>2. \A z \in {"blocked", "succeeded"} :
              /\ [me.view[s] EXCEPT !.state = z] \in Rows
              /\ [me.view[s] EXCEPT !.state = z].state = z
      BY <1>3 DEF Rows, StageStates
    <3> QED BY <2>2, <3>1, <3>2
  <2> HIDE DEF x
  <2>4. Upto(job[me.run][s], x)
    BY <1>k, <1>3, <2>3, JoblessFits
  <2>5. NoneMinted /\ me.view[s].state # "succeeded"
    BY <1>2, <1>3 DEF NoneMinted, InFlight
  <2> QED BY <1>2, <1>3, <2>1, <2>3, <2>4, <2>5, FoldGoesOn
<1> QED BY <1>5, <1>6

\* The merge, whose result the pass has yet to write.
LEMMA MergeScanStep == ASSUME Known, [Next]_vars, Merge(Daemon) PROVE ScanInv'
<1> DEFINE me == proc[Daemon]
           Out(ok) == [me.view[me.at] EXCEPT !.state = IF ok THEN "succeeded" ELSE "blocked"]
           me1(ok) == [me EXCEPT !.pc = "merged", !.out = Out(ok)]
<1>1. PICK ok \in BOOLEAN : Move(Daemon, me1(ok))
  BY DEF Merge
<1>2. /\ me \in ProcRec /\ me.pc = "merge" /\ me.at \in Stages /\ me.view[me.at] \in Rows
      /\ ScanFits(spec, me, run, row, job)
  BY ScanParts DEF Merge, ProcOK, OnStage
<1>3. Out(ok).state \in {"succeeded", "blocked"} /\ Out(ok).attempt = me.view[me.at].attempt
  BY <1>2 DEF Rows
<1> HIDE DEF Out
<1>4. /\ me1(ok).pc = "merged" /\ me1(ok).at = me.at /\ me1(ok).run = me.run
      /\ me1(ok).view = me.view /\ me1(ok).todo = me.todo /\ me1(ok).out = Out(ok)
  BY <1>2 DEF ProcRec
<1> HIDE DEF me1, me
<1>5. ScanFits(spec, me1(ok), run, row, job)
  BY <1>2, <1>3, <1>4 DEF ScanFits, InPass, Synced
<1>6. run' = run /\ row' = row /\ job' = job
  BY DEF Merge
<1> QED BY <1>1, <1>5, <1>6, ScanLooks

\* The row of a gate after the merge.
LEMMA PutMergedStep == ASSUME Known, [Next]_vars, PutMerged(Daemon) PROVE ScanInv'
<1> DEFINE me == proc[Daemon]
<1>1. /\ me.pc = "merged" /\ me.at \in Stages /\ me.out \in Rows /\ me.run \in Runs
      /\ spec.kind[me.at] = "auto" /\ ScanFits(spec, me, run, row, job)
  BY ScanParts DEF PutMerged, ProcOK, OnStage
<1>2. Put(Daemon, me.at, me.out) /\ Move(Daemon, FoldNext(Saw(me, me.at, me.out)))
  BY DEF PutMerged
<1>3. run' = run /\ NoneMinted
  BY DEF PutMerged, NoneMinted
<1>4. me.pc \in InPass /\ InFlight(me.view[me.at]) /\ me.out.state \in {"succeeded", "blocked"}
  BY <1>1 DEF ScanFits, InPass
<1>5. Upto(job[me.run][me.at], me.out)
  BY <1>1, JoblessFits DEF Jobless
<1>6. me.view[me.at].state # "succeeded" /\ me.out.state \notin {"none", "pending"}
  BY <1>4 DEF InFlight
<1> QED BY <1>1, <1>2, <1>3, <1>4, <1>5, <1>6, FoldGoesOn

\* The first stage that is ready; the stages before it are behind.
LEMMA ReadyFacts ==
    ASSUME Known, proc[Daemon].pc = "enqueue", NEW s \in Ready(proc[Daemon])
    PROVE  LET me == proc[Daemon]
           IN  /\ s \in Stages /\ me.view[s].state = "pending"
               /\ \A d \in spec.needs[s] : me.view[d].state = "succeeded"
               /\ \A t \in Stages : t < s => Behind(spec, me, t, job)
<1> DEFINE me == proc[Daemon]
           S == {t \in me.at..NStages : me.view[t].state = "pending" /\ DepsSucceeded(me.view, t)}
<1>1. me.at \in 1..(NStages + 1) /\ NStages \in Nat
  BY ScanParts, Constants
<1>2. s \in S /\ \A t \in S : s <= t
  BY DEF Ready, First
<1>3. s \in Stages
  BY <1>1, <1>2 DEF Stages
<1>4. ASSUME NEW t \in Stages, t < s PROVE Behind(spec, me, t, job)
  <2>1. CASE t < me.at
    BY <2>1, ScanParts DEF ScanFits
  <2>2. CASE t >= me.at
    <3>1. t \in me.at..NStages /\ ~(s <= t)
      BY <1>1, <1>3, <1>4, <2>2 DEF Stages
    <3> QED BY <1>2, <3>1 DEF Behind, DepsSucceeded
  <2> QED BY <1>1, <2>1, <2>2 DEF Stages
<1> QED BY <1>2, <1>3, <1>4 DEF DepsSucceeded

\* The enqueue loop goes on to the next stage with a row that fits.
LEMMA EnqueueGoesOn ==
    ASSUME Known, [Next]_vars, proc[Daemon].pc \in InPass, NEW s \in Stages, NEW x \in Rows,
           Put(Daemon, s, x), run' = run, job' = job,
           proc[Daemon].view[s].state = "pending", x.state # "none",
           Upto(job[proc[Daemon].run][s], x),
           x.state = "pending" => /\ job[proc[Daemon].run][s][x.attempt].st = "none"
                                  /\ spec.kind[s] = "produce" /\ spec.retry[s] > 0,
           \A t \in Stages : t < s => Behind(spec, proc[Daemon], t, job),
           Move(Daemon, EnqueueNext(Saw(proc[Daemon], s, x)))
    PROVE  ScanInv'
<1> DEFINE me == proc[Daemon]
           y == Saw(proc[Daemon], s, x)
<1>1. NoneMinted
  BY DEF NoneMinted
<1>2. /\ RowsFit(spec, run, row, job)'
      /\ \A r \in Runs : run[r].state \in Parked =>
             SameRun(r) /\ \A t \in Stages : SameRow(r, t)
      /\ y \in ProcRec /\ y.run = me.run /\ y.at = s + 1
      /\ \A t \in Stages : y.view[t] = IF t = s THEN x ELSE me.view[t]
      /\ \A r \in y.todo : run'[r].state = "running"
      /\ run'[y.run].state = "running" /\ y.run \notin y.todo
      /\ Synced(y, row')
  BY <1>1, PassWrites
<1>3. Move(Daemon, EnqueueNext(y)) /\ \A t \in Stages : t < s => Behind(spec, me, t, job)
  OBVIOUS
<1>4. me.view[s].state = "pending"
      /\ (x.state = "pending" => /\ job[me.run][s][x.attempt].st = "none"
                                 /\ spec.kind[s] = "produce" /\ spec.retry[s] > 0)
  OBVIOUS
<1>5. \A t \in Stages : \A d \in spec.needs[t] : d \in Stages /\ d < t
  <2>1. spec \in Specs /\ \A t \in Stages : spec.needs[t] \subseteq Stages
    BY ScanParts, SpecFacts DEF TypeOK
  <2> QED BY <2>1, PipelineAssumption
<1> HIDE DEF me, y
<1>6. ASSUME NEW t \in Stages, t < y.at PROVE Behind(spec, y, t, job')
  <2>1. CASE t = s
    BY <1>2, <1>4, <2>1 DEF Behind
  <2>2. CASE t # s
    <3>1. t < s /\ \A d \in spec.needs[t] : d # s
      BY <1>2, <1>5, <1>6, <2>2 DEF Stages
    <3>2. Behind(spec, me, t, job)
      BY <1>3, <3>1
    <3> QED BY <1>2, <1>5, <2>2, <3>1, <3>2 DEF Behind
  <2> QED BY <2>1, <2>2
<1>7. ScanFits(spec, EnqueueNext(y), run', row', job')
  BY <1>2, <1>6, EnqueueFits
<1> QED BY <1>2, <1>3, <1>7, ScanMoves

\* A gate that starts to wait, a review without a pull request.
LEMMA StartStep == ASSUME Known, [Next]_vars, Start(Daemon) PROVE ScanInv'
<1> DEFINE me == proc[Daemon]
           X(s) == [me.view[s] EXCEPT
                        !.state = IF spec.kind[s] \in Jobless THEN "queued" ELSE "blocked"]
<1>1. PICK s \in Ready(me) :
          /\ spec.kind[s] \in Jobless \/ Unbound(me.run, s)
          /\ Put(Daemon, s, X(s)) /\ Move(Daemon, EnqueueNext(Saw(me, s, X(s))))
  BY DEF Start
<1>2. me.pc = "enqueue" /\ me.pc \in InPass /\ run' = run /\ job' = job
  BY DEF Start, InPass
<1>3. /\ s \in Stages /\ me.view[s].state = "pending" /\ me.view[s] \in Rows /\ me.run \in Runs
      /\ \A t \in Stages : t < s => Behind(spec, me, t, job)
  BY <1>2, ReadyFacts, ScanParts
<1>4. X(s) \in Rows /\ X(s).state \in {"queued", "blocked"}
  BY <1>3 DEF Rows, StageStates
<1> HIDE DEF X
<1>5. Upto(job[me.run][s], X(s))
  BY <1>1, <1>3, <1>4, JoblessFits
<1> QED BY <1>1, <1>2, <1>3, <1>4, <1>5, EnqueueGoesOn

\* The job of a stage, new or found.
LEMMA EnqueueStep == ASSUME Known, [Next]_vars, Enqueue(Daemon) PROVE ScanInv'
<1> DEFINE me == proc[Daemon]
           J(s) == job[me.run][s][me.view[s].attempt]
           Out(s) == IF spec.kind[s] = "produce" /\ J(s).st \in {"settled", "cancelled"}
                     THEN Ended(s, [me.view[s] EXCEPT !.gen = 1], FoldOutcome(J(s)))
                     ELSE [me.view[s] EXCEPT !.state = "queued", !.gen = 1]
           New1 == [NoJob EXCEPT !.st = "queued", !.gen = 1]
           me1(s) == [me EXCEPT !.pc = "enqueued", !.at = s, !.out = Out(s)]
<1>1. PICK s \in Ready(me) :
          /\ spec.kind[s] \notin Jobless
          /\ job' = IF J(s).st # "none" THEN job
                    ELSE [job EXCEPT ![me.run][s][me.view[s].attempt] = New1]
          /\ Move(Daemon, me1(s))
  BY DEF Enqueue
<1>2. me.pc = "enqueue" /\ me.pc \in InPass /\ run' = run /\ row' = row
  BY DEF Enqueue, InPass
<1>3. /\ s \in Stages /\ me.view[s].state = "pending" /\ me.view[s] \in Rows /\ me.run \in Runs
      /\ me \in ProcRec /\ me.view[s].attempt \in Attempts /\ TypeOK
      /\ job \in [Runs -> [Stages -> [Attempts -> JobRows]]]
      /\ \A d \in spec.needs[s] : me.view[d].state = "succeeded"
      /\ \A t \in Stages : t < s => Behind(spec, me, t, job)
      /\ ScanFits(spec, me, run, row, job) /\ RowsFit(spec, run, row, job)
  BY <1>2, ReadyFacts, ScanParts
<1>4. /\ run[me.run].state = "running" /\ me.run \notin me.todo /\ Synced(me, row)
      /\ \A r \in me.todo : run[r].state = "running"
  BY <1>2, <1>3 DEF ScanFits
<1>5. Upto(job[me.run][s], me.view[s])
  BY <1>2, <1>3, ViewUpto
<1>6. spec' = spec /\ spec.needs[s] \subseteq Stages
  BY <1>3, StepFacts DEF Known
<1> DEFINE b == me.view[s].attempt
<1>7. \/ job' = job
      \/ J(s).st = "none" /\ \A r \in Runs, t \in Stages, a \in Attempts :
             job'[r][t][a] = IF r = me.run /\ t = s /\ a = b THEN New1 ELSE job[r][t][a]
  <2>1. CASE J(s).st # "none"
    BY <1>1, <2>1
  <2>2. CASE J(s).st = "none"
    <3>1. job' = [job EXCEPT ![me.run][s][b] = New1]
      BY <1>1, <2>2
    <3> HIDE DEF New1, J, me, b
    <3>2. b \in Attempts
      BY <1>3 DEF b
    <3>3. \A r \in Runs, t \in Stages, a \in Attempts :
             job'[r][t][a] = IF r = me.run /\ t = s /\ a = b THEN New1 ELSE job[r][t][a]
      BY <1>3, <3>1, <3>2
    <3> QED BY <2>2, <3>3
  <2> QED BY <2>1, <2>2
<1>8. \A r \in Runs, t \in Stages, a \in Attempts :
         job'[r][t][a] = job[r][t][a] \/ (r = me.run /\ t = s /\ a = b)
  BY <1>7
<1>9. Upto(job'[me.run][s], me.view[s])
  <2> HIDE DEF me, J, New1
  <2>1. \A a \in Attempts : a # b => job'[me.run][s][a] = job[me.run][s][a]
    BY <1>3, <1>8
  <2>2. b \in Attempts /\ \A a \in Attempts : (a < b \/ a > b) => a # b
    BY <1>3, Constants DEF Attempts
  <2>3. me.view[s].state \notin Dead
    BY <1>3 DEF Dead
  <2> QED BY <1>5, <2>1, <2>2, <2>3 DEF Upto
<1>10. RowsFit(spec, run, row, job)'
  <2> HIDE DEF me, J, New1, b
  <2> SUFFICES ASSUME NEW r \in Runs, NEW t \in Stages
               PROVE
        /\ run[r].state = "none" => row[r][t].state = "none"
        /\ row[r][t].state = "none" => \A a \in Attempts : job'[r][t][a].st = "none"
        /\ spec.kind[t] \in Jobless => \A a \in Attempts : job'[r][t][a].st = "none"
        /\ Upto(job'[r][t], row[r][t])
        /\ row[r][t].state = "pending" /\ job'[r][t][row[r][t].attempt].st # "none" =>
               /\ run[r].state \notin Parked
               /\ \A d \in spec.needs[t] : row[r][d].state = "succeeded"
        /\ run[r].state \in Parked => ~InFlight(row[r][t])
    BY <1>2, <1>6 DEF RowsFit
  <2>1. CASE r = me.run /\ t = s
    <3>1. row[r][t].state = "pending" /\ row[r][t].attempt = me.view[s].attempt
      BY <1>3, <1>4, <2>1 DEF Synced
    <3>2. Upto(job'[r][t], row[r][t])
      BY <1>3, <1>9, <2>1, <3>1, UptoSame
    <3>3. \A d \in spec.needs[t] : row[r][d].state = "succeeded"
      BY <1>3, <1>4, <1>6, <2>1 DEF Synced
    <3> QED BY <1>1, <1>4, <2>1, <3>1, <3>2, <3>3 DEF Parked
  <2>2. CASE ~(r = me.run /\ t = s)
    <3>1. \A a \in Attempts : job'[r][t][a] = job[r][t][a]
      BY <1>8, <2>2
    <3>2. row[r][t].attempt \in Attempts
      BY StepFacts DEF Known
    <3>3. Upto(job'[r][t], row[r][t])
      BY <1>3, <3>1, <3>2 DEF Upto, RowsFit
    <3> QED BY <1>3, <3>1, <3>2, <3>3 DEF RowsFit
  <2> QED BY <2>1, <2>2
<1>11. /\ Out(s).state \notin {"none", "skipped", "cancelled"}
       /\ Upto(job'[me.run][s], Out(s))
       /\ Out(s).state = "pending" =>
              /\ spec.kind[s] = "produce" /\ spec.retry[s] > 0
              /\ job'[me.run][s][Out(s).attempt].st = "none"
  <2>1. CASE spec.kind[s] = "produce" /\ J(s).st \in {"settled", "cancelled"}
    <3> DEFINE x == [me.view[s] EXCEPT !.gen = 1]
               st == FoldOutcome(J(s))
    <3>1. x \in Rows /\ x.attempt = b
      BY <1>3, Constants DEF Rows
    <3>2. J(s) \in JobRows
      BY <1>3
    <3>3. st \in {"succeeded", "blocked", "failed"}
      BY <3>2, FoldOutcomeType
    <3>4. J(s).more => spec.kind[s] = "orchestrate"
      BY <1>3 DEF Known, Base, JobInv
    <3>5. st # "succeeded" => Over(J(s))
      BY <2>1, <3>2, <3>4, FoldOver
    <3>6. /\ \A a \in Attempts : a < b => Over(job[me.run][s][a])
          /\ \A a \in Attempts : a > b => job[me.run][s][a].st = "none"
      BY <1>5 DEF Upto
    <3>7. job' = job
      BY <1>1, <2>1
    <3>8. Out(s) = Ended(s, x, st)
      BY <2>1
    <3> DEFINE js == job[me.run][s]
    <3>9. /\ \A a \in Attempts : a < x.attempt => Over(js[a])
          /\ \A a \in Attempts : a > x.attempt => js[a].st = "none"
          /\ st # "succeeded" => Over(js[x.attempt])
      BY <3>1, <3>5, <3>6
    <3> DEFINE y == Ended(s, x, st)
    <3> HIDE DEF x, st, Out, js
    <3>10. /\ y.state \in {"pending", "succeeded", "blocked", "failed"}
           /\ Upto(js, y)
           /\ y.state = "pending" => js[y.attempt].st = "none" /\ spec.retry[s] > 0
      <4>1. TypeOK /\ s \in Stages /\ x \in Rows
        BY <1>3, <3>1
      <4> HIDE DEF b, me, J, New1, me1
      <4> QED BY <4>1, <3>3, <3>9, EndedFits
    <3>11. Out(s) = y /\ spec.kind[s] = "produce" /\ job'[me.run][s] = js
      BY <2>1, <3>7, <3>8 DEF js
    <3> HIDE DEF y, me, J
    <3> QED BY <3>10, <3>11
  <2>2. CASE ~(spec.kind[s] = "produce" /\ J(s).st \in {"settled", "cancelled"})
    <3>1. Out(s).state = "queued" /\ Out(s).attempt = b
      BY <1>3, <2>2 DEF Rows
    <3> HIDE DEF Out, me, J
    <3>2. Upto(job'[me.run][s], Out(s))
      BY <1>9, <3>1 DEF Upto, Dead
    <3> QED BY <3>1, <3>2
  <2> QED BY <2>1, <2>2
<1> HIDE DEF Out
<1>12. /\ me1(s).pc = "enqueued" /\ me1(s).at = s /\ me1(s).run = me.run
       /\ me1(s).view = me.view /\ me1(s).todo = me.todo /\ me1(s).out = Out(s)
  BY <1>3 DEF ProcRec
<1>m. Move(Daemon, me1(s))
  BY <1>1
<1> HIDE DEF me1, me, J, New1
<1>13. \A t \in Stages : t < s => Behind(spec, me1(s), t, job')
  <2> SUFFICES ASSUME NEW t \in Stages, t < s PROVE Behind(spec, me1(s), t, job')
    OBVIOUS
  <2>1. \A a \in Attempts : job'[me.run][t][a] = job[me.run][t][a]
    BY <1>3, <1>8 DEF Stages
  <2>2. me.view[t].attempt \in Attempts
    BY ScanParts DEF me
  <2> QED BY <1>3, <1>12, <2>1, <2>2 DEF Behind
<1>14. ScanFits(spec, me1(s), run', row', job')
  BY <1>2, <1>3, <1>4, <1>11, <1>12, <1>13 DEF ScanFits, InPass, Synced
<1>15. \A r \in Runs : run[r].state \in Parked =>
          SameRun(r) /\ \A t \in Stages : SameRow(r, t)
  BY <1>2 DEF SameRun, SameRow
<1> QED BY <1>m, <1>10, <1>14, <1>15, ScanMoves

\* The row of a stage whose job was enqueued.
LEMMA PutEnqueuedStep == ASSUME Known, [Next]_vars, PutEnqueued(Daemon) PROVE ScanInv'
<1> DEFINE me == proc[Daemon]
<1>1. /\ me.pc = "enqueued" /\ me.at \in Stages /\ me.out \in Rows /\ me.run \in Runs
      /\ ScanFits(spec, me, run, row, job)
  BY ScanParts DEF PutEnqueued, ProcOK, OnStage
<1>2. Put(Daemon, me.at, me.out) /\ Move(Daemon, EnqueueNext(Saw(me, me.at, me.out)))
  BY DEF PutEnqueued
<1>3. run' = run /\ job' = job
  BY DEF PutEnqueued
<1>4. /\ me.pc \in InPass /\ me.view[me.at].state = "pending" /\ me.out.state # "none"
      /\ Upto(job[me.run][me.at], me.out)
      /\ me.out.state = "pending" =>
             /\ spec.kind[me.at] = "produce" /\ spec.retry[me.at] > 0
             /\ job[me.run][me.at][me.out.attempt].st = "none"
      /\ \A t \in Stages : t < me.at => Behind(spec, me, t, job)
  BY <1>1 DEF ScanFits, InPass
<1> QED BY <1>1, <1>2, <1>3, <1>4, EnqueueGoesOn

\* A stage that will not run: its job, had a crash left one, would have been
\* found, as what it needs has succeeded then.
LEMMA SkipStep == ASSUME Known, [Next]_vars, Skip(Daemon) PROVE ScanInv'
<1> DEFINE me == proc[Daemon]
           X(s) == [me.view[s] EXCEPT !.state = "skipped"]
<1>1. PICK s \in Left(me) :
          Put(Daemon, s, X(s)) /\ Move(Daemon, SkipNext(Saw(me, s, X(s))))
  BY DEF Skip
<1>2. me.pc = "skip" /\ me.pc \in InPass /\ run' = run /\ job' = job
  BY DEF Skip, InPass
<1>3. s \in Stages /\ me.view[s].state = "pending"
  BY FirstIn DEF Left
<1>4. /\ me.view[s] \in Rows /\ me.view[s].attempt \in Attempts /\ me.run \in Runs
      /\ ScanFits(spec, me, run, row, job) /\ RowsFit(spec, run, row, job)
  BY <1>3, ScanParts
<1>5. X(s) \in Rows /\ X(s).state = "skipped" /\ X(s).attempt = me.view[s].attempt
  BY <1>4 DEF Rows, StageStates
<1>n. \A t \in Stages : spec.needs[t] \subseteq Stages
  BY StepFacts DEF Known
<1>6. Synced(me, row) /\ \A t \in Stages : Behind(spec, me, t, job) /\ ~InFlight(me.view[t])
  BY <1>2, <1>4 DEF ScanFits
<1>7. job[me.run][s][me.view[s].attempt].st = "none"
  <2>1. CASE \A d \in spec.needs[s] : me.view[d].state = "succeeded"
    BY <1>3, <1>6, <2>1 DEF Behind
  <2>2. CASE ~\A d \in spec.needs[s] : me.view[d].state = "succeeded"
    <3>1. ~\A d \in spec.needs[s] : row[me.run][d].state = "succeeded"
      BY <1>3, <1>n, <1>6, <2>2 DEF Synced
    <3>2. row[me.run][s].state = "pending" /\ row[me.run][s].attempt = me.view[s].attempt
      BY <1>3, <1>6 DEF Synced
    <3> QED BY <1>3, <1>4, <3>1, <3>2 DEF RowsFit
  <2> QED BY <2>1, <2>2
<1>8. Upto(job[me.run][s], me.view[s])
  BY <1>2, <1>3, ViewUpto
<1> DEFINE y == Saw(me, s, X(s))
<1> HIDE DEF X
<1>9. Upto(job[me.run][s], X(s))
  BY <1>5, <1>7, <1>8 DEF Upto, Over
<1>10. NoneMinted /\ me.view[s].state # "succeeded" /\ X(s).state \notin {"none", "pending"}
  BY <1>2, <1>3, <1>5 DEF NoneMinted
<1>11. /\ RowsFit(spec, run, row, job)'
       /\ \A r \in Runs : run[r].state \in Parked =>
              SameRun(r) /\ \A t \in Stages : SameRow(r, t)
       /\ y \in ProcRec /\ y.run = me.run
       /\ \A t \in Stages : y.view[t] = IF t = s THEN X(s) ELSE me.view[t]
       /\ \A r \in y.todo : run'[r].state = "running"
       /\ run'[y.run].state = "running" /\ y.run \notin y.todo
       /\ Synced(y, row')
  BY <1>1, <1>2, <1>3, <1>5, <1>9, <1>10, PassWrites
<1>m. Move(Daemon, SkipNext(y))
  BY <1>1
<1> HIDE DEF y, me
<1>12. \A t \in Stages : Behind(spec, y, t, job') /\ ~InFlight(y.view[t])
  <2> SUFFICES ASSUME NEW t \in Stages
               PROVE Behind(spec, y, t, job') /\ ~InFlight(y.view[t])
    OBVIOUS
  <2>1. CASE t = s
    BY <1>5, <1>11, <2>1 DEF Behind, InFlight
  <2>2. CASE t # s
    BY <1>2, <1>3, <1>5, <1>n, <1>6, <1>11, <2>2 DEF Behind
  <2> QED BY <2>1, <2>2
<1>13. ScanFits(spec, SkipNext(y), run', row', job')
  BY <1>11, <1>12, SkipFits
<1> QED BY <1>m, <1>11, <1>13, ScanMoves

\* The end of a run, or its parking.
LEMMA SettleStep == ASSUME Known, [Next]_vars, Settle(Daemon) PROVE ScanInv'
<1> DEFINE me == proc[Daemon]
           to == Settlement(me.view)
<1>1. PICK h \in to.halt : run' = [run EXCEPT ![me.run].state = to.state, ![me.run].halt = h]
  BY DEF Settle
<1>2. me.pc = "settle" /\ row' = row /\ job' = job /\ Move(Daemon, PassDone(me))
  BY DEF Settle
<1>3. /\ me \in ProcRec /\ me.run \in Runs /\ me.todo \subseteq Runs
      /\ ScanFits(spec, me, run, row, job) /\ RowsFit(spec, run, row, job)
      /\ run \in [Runs -> RunRec]
  BY ScanParts
<1>4. to.state \in {"failed", "blocked", "succeeded"}
  BY DEF Settlement
<1> HIDE DEF to, me
<1>5. /\ run[me.run].state = "running" /\ me.run \notin me.todo /\ Synced(me, row)
      /\ \A r \in me.todo : run[r].state = "running"
      /\ \A t \in Stages : me.view[t].state # "pending" /\ ~InFlight(me.view[t])
  BY <1>2, <1>3 DEF ScanFits, InPass
<1>6. run'[me.run].state = to.state /\ \A r \in Runs : r # me.run => run'[r] = run[r]
  BY <1>1, <1>3 DEF RunRec
<1>7. spec' = spec
  BY StepFacts DEF Known
<1>8. RowsFit(spec, run, row, job)'
  <2> SUFFICES ASSUME NEW r \in Runs, NEW t \in Stages
               PROVE
        /\ run'[r].state = "none" => row[r][t].state = "none"
        /\ row[r][t].state = "none" => \A a \in Attempts : job[r][t][a].st = "none"
        /\ spec.kind[t] \in Jobless => \A a \in Attempts : job[r][t][a].st = "none"
        /\ Upto(job[r][t], row[r][t])
        /\ row[r][t].state = "pending" /\ job[r][t][row[r][t].attempt].st # "none" =>
               /\ run'[r].state \notin Parked
               /\ \A d \in spec.needs[t] : row[r][d].state = "succeeded"
        /\ run'[r].state \in Parked => ~InFlight(row[r][t])
    BY <1>2, <1>7 DEF RowsFit
  <2>1. CASE r = me.run
    <3>1. row[r][t].state # "pending" /\ ~InFlight(row[r][t])
      BY <1>5, <2>1 DEF Synced, InFlight
    <3> QED BY <1>3, <1>4, <1>6, <2>1, <3>1 DEF RowsFit
  <2>2. CASE r # me.run
    BY <1>3, <1>6, <2>2 DEF RowsFit
  <2> QED BY <2>1, <2>2
<1>9. \A r \in me.todo : run'[r].state = "running"
  BY <1>3, <1>5, <1>6
<1>10. ScanFits(spec, PassDone(me), run', row', job')
  BY <1>3, <1>9, DoneFits
<1>11. \A r \in Runs : run[r].state \in Parked =>
          SameRun(r) /\ \A t \in Stages : SameRow(r, t)
  BY <1>2, <1>5, <1>6 DEF SameRun, SameRow, Parked
<1> QED BY <1>2, <1>8, <1>10, <1>11, ScanMoves

-----------------------------------------------------------------------------
(* The steps of the operator, of the jobs and of the world *)

\* What remains to be shown of a step of the operator.
LEMMA OperMoves ==
    ASSUME Known, [Next]_vars, NEW me, Move(Oper, me),
           RowsFit(spec, run, row, job)', OperFits(me, run', row'), NoneMinted,
           \A r \in Runs : run[r].state = "running" =>
               run'[r].state = "running" /\ \A s \in Stages : SameRow(r, s)
    PROVE  ScanInv'
<1>1. \A p \in Procs : proc'[p] = IF p = Oper THEN me ELSE proc[p]
  BY ScanParts DEF Move
<1>2. proc'[Oper] = me /\ proc'[Cli] = proc[Cli] /\ proc'[Daemon] = proc[Daemon]
  BY <1>1 DEF Procs, Daemon, Cli, Oper
<1>3. ScanFits(spec, proc[Daemon], run, row, job)'
  BY <1>2, ScanParts, ScanKeep DEF Known
<1>4. OperFits(proc[Oper], run, row)'
  BY <1>2
<1> QED BY <1>2, <1>3, <1>4, ScanParts DEF ScanInv

\* An operator without a command knows nothing.
LEMMA OperIdle == ASSUME NEW rn, NEW rw PROVE OperFits(Idle, rn, rw)
BY DEF OperFits, Idle

\* A command on a parked run.
LEMMA BeginStep ==
    ASSUME Known, [Next]_vars, NEW r \in Runs, Resume(r) \/ Cancel(r)
    PROVE  ScanInv'
<1> DEFINE me(pc, set) == [Idle EXCEPT !.pc = pc, !.run = r, !.view = row[r], !.set = set]
<1>1. \E pc \in {"reset", "kill"}, set \in SUBSET Stages :
          /\ \A s \in set : row[r][s].state \notin {"none", "succeeded"}
          /\ Move(Oper, me(pc, set))
  <2>1. CASE Resume(r)
    <3>1. PICK from \in {run[r].halt} \cup Stages :
             Move(Oper, me("reset", {s \in AndDependents(from) :
                                        row[r][s].state \notin {"none", "succeeded"}}))
      BY <2>1 DEF Resume
    <3> DEFINE set == {s \in AndDependents(from) : row[r][s].state \notin {"none", "succeeded"}}
    <3>2. set \in SUBSET Stages /\ \A s \in set : row[r][s].state \notin {"none", "succeeded"}
      BY DEF AndDependents
    <3>3. Move(Oper, me("reset", set))
      BY <3>1
    <3> HIDE DEF me, set
    <3> QED BY <3>2, <3>3
  <2>2. CASE Cancel(r)
    <3> DEFINE set == {s \in Stages : row[r][s].state \in {"pending", "queued", "running"}}
    <3>1. Move(Oper, me("kill", set))
      BY <2>2 DEF Cancel
    <3>2. set \in SUBSET Stages /\ \A s \in set : row[r][s].state \notin {"none", "succeeded"}
      OBVIOUS
    <3> HIDE DEF me, set
    <3> QED BY <3>1, <3>2
  <2> QED BY <2>1, <2>2
<1>2. PICK pc \in {"reset", "kill"}, set \in SUBSET Stages :
          /\ \A s \in set : row[r][s].state \notin {"none", "succeeded"}
          /\ Move(Oper, me(pc, set))
  BY <1>1
<1>3. run[r].state \in Parked
  <2>1. CASE Resume(r)
    BY <2>1 DEF Resume, Parked
  <2>2. CASE Cancel(r)
    <3>1. spec.cancels \subseteq {"running", "blocked", "failed"} /\ "running" \notin spec.cancels
      BY ScanParts, PipelineAssumption DEF Known, OneScan, TypeOK, AllSpecs
    <3> QED BY <2>2, <3>1 DEF Cancel, Parked
  <2> QED BY <2>1, <2>2
<1>4. run' = run /\ row' = row /\ job' = job
  BY DEF Resume, Cancel
<1>5. /\ me(pc, set).pc = pc /\ me(pc, set).run = r /\ me(pc, set).view = row[r]
      /\ me(pc, set).set = set
  BY DEF Idle
<1> HIDE DEF me
<1>6. OperFits(me(pc, set), run', row')
  BY <1>2, <1>3, <1>4, <1>5 DEF OperFits
<1>7. SameRows /\ NoneMinted /\ SameRuns
  BY <1>4 DEF SameRows, NoneMinted, SameRuns, SameRow, SameRun
<1>8. RowsFit(spec, run, row, job)'
  BY <1>7, ScanParts, RowsKeep DEF Known, SameRuns
<1>9. \A q \in Runs : run[q].state = "running" =>
          run'[q].state = "running" /\ \A s \in Stages : SameRow(q, s)
  BY <1>4 DEF SameRow
<1> QED BY <1>2, <1>6, <1>7, <1>8, <1>9, OperMoves

\* The operator writes a row of a parked run.
LEMMA OperWrites ==
    ASSUME Known, [Next]_vars, proc[Oper].pc # "idle",
           NEW s \in proc[Oper].set, NEW x \in Rows, NEW me, Move(Oper, me),
           row' = [row EXCEPT ![proc[Oper].run][s] = x], run' = run, job' = job,
           x.state \in {"pending", "cancelled"}, Upto(job[proc[Oper].run][s], x),
           x.state = "pending" => job[proc[Oper].run][s][x.attempt].st = "none",
           me.pc \in {"reset", "kill"}, me.run = proc[Oper].run, me.view = proc[Oper].view,
           me.set = proc[Oper].set \ {s}
    PROVE  ScanInv'
<1> DEFINE op == proc[Oper]
<1>1. op \in ProcRec /\ op.run \in Runs /\ op.set \subseteq Stages
  BY ScanParts DEF ProcRec, Procs
<1>2. OperFits(op, run, row)
  BY ScanParts
<1>o. /\ op.pc # "idle" /\ s \in op.set /\ row' = [row EXCEPT ![op.run][s] = x]
      /\ Upto(job[op.run][s], x) /\ (x.state = "pending" => job[op.run][s][x.attempt].st = "none")
      /\ me.run = op.run /\ me.view = op.view /\ me.set = op.set \ {s}
  OBVIOUS
<1> HIDE DEF op
<1>3. /\ run[op.run].state \in Parked
      /\ \A t \in op.set : /\ op.view[t].attempt = row[op.run][t].attempt
                           /\ row[op.run][t].state \notin {"none", "succeeded"}
  BY <1>2, <1>o DEF OperFits
<1>4. \A q \in Runs, t \in Stages : row'[q][t] = IF q = op.run /\ t = s THEN x ELSE row[q][t]
  BY <1>1, <1>o, ScanParts
<1>5. WroteRow(op.run, s, x) /\ SameRuns /\ NoneMinted
  BY <1>1, <1>4, <1>o DEF WroteRow, SameRow, SameRuns, SameRun, NoneMinted
<1>6. RowsFit(spec, run, row, job)'
  BY <1>1, <1>3, <1>5, <1>o, ScanParts, RowsWrite DEF Known, InFlight, Parked
<1>7. OperFits(me, run', row')
  BY <1>1, <1>3, <1>4, <1>o DEF OperFits
<1>8. \A q \in Runs : run[q].state = "running" =>
          run'[q].state = "running" /\ \A t \in Stages : SameRow(q, t)
  BY <1>3, <1>4 DEF SameRow, Parked
<1> QED BY <1>5, <1>6, <1>7, <1>8, OperMoves

\* The job of a stage of a parked run that has not succeeded is over.
LEMMA ParkedOver ==
    ASSUME Known, proc[Oper].pc # "idle", NEW s \in proc[Oper].set
    PROVE  LET r == proc[Oper].run
           IN  /\ s \in Stages /\ r \in Runs /\ proc[Oper].view[s] \in Rows
               /\ proc[Oper].view[s].attempt \in Attempts
               /\ Over(job[r][s][proc[Oper].view[s].attempt])
               /\ \A a \in Attempts : a < proc[Oper].view[s].attempt => Over(job[r][s][a])
               /\ \A a \in Attempts : a > proc[Oper].view[s].attempt => job[r][s][a].st = "none"
<1> DEFINE op == proc[Oper]
<1>1. /\ op \in ProcRec /\ op.run \in Runs /\ s \in Stages /\ op.view[s] \in Rows
  BY ScanParts DEF ProcRec, Procs
<1>2. OperFits(op, run, row) /\ RowsFit(spec, run, row, job)
  BY ScanParts
<1>3. row[op.run][s] \in Rows
  BY <1>1, ScanParts
<1>4. op.pc # "idle" /\ s \in op.set
  OBVIOUS
<1> HIDE DEF op
<1>5. /\ run[op.run].state \in Parked
      /\ op.view[s].attempt = row[op.run][s].attempt
      /\ row[op.run][s].state \notin {"none", "succeeded"}
  BY <1>2, <1>4 DEF OperFits
<1>6. /\ Upto(job[op.run][s], row[op.run][s])
      /\ ~InFlight(row[op.run][s])
      /\ row[op.run][s].state = "pending" => job[op.run][s][row[op.run][s].attempt].st = "none"
  BY <1>1, <1>2, <1>5 DEF RowsFit
<1>7. row[op.run][s].state \in Dead \cup {"pending"}
  BY <1>3, <1>5, <1>6 DEF Rows, StageStates, InFlight, Dead
<1>8. Over(job[op.run][s][row[op.run][s].attempt])
  BY <1>6, <1>7 DEF Upto, Over
<1>9. op.view[s].attempt \in Attempts
  BY <1>1 DEF Rows
<1>10. /\ \A a \in Attempts : a < row[op.run][s].attempt => Over(job[op.run][s][a])
       /\ \A a \in Attempts : a > row[op.run][s].attempt => job[op.run][s][a].st = "none"
  BY <1>6 DEF Upto
<1> QED BY <1>1, <1>5, <1>8, <1>9, <1>10 DEF op

\* A resumed stage goes back to pending under the next attempt.
LEMMA ResumeStageStep == ASSUME Known, [Next]_vars, ResumeStage PROVE ScanInv'
<1> DEFINE me == proc[Oper]
           x(s) == [Pending EXCEPT !.attempt = me.view[s].attempt + 1]
           me1(s) == [me EXCEPT !.set = me.set \ {s}]
<1>1. me \in ProcRec /\ me.set \subseteq Stages /\ me.pc = "reset" /\ ProcOK(me)
  BY ScanParts DEF ResumeStage, ProcRec, Procs, Known, Base, ProcInv
<1>2. PICK s \in First(me.set) :
          row' = [row EXCEPT ![me.run][s] = x(s)] /\ Move(Oper, [me EXCEPT !.set = @ \ {s}])
  BY DEF ResumeStage
<1>3. s \in me.set /\ me.pc # "idle"
  BY <1>1, FirstIn
<1>4. Move(Oper, me1(s))
  <2>1. [me EXCEPT !.set = @ \ {s}] = me1(s)
    BY <1>1 DEF ProcRec
  <2> HIDE DEF me1
  <2> QED BY <1>2, <2>1
<1>5. me1(s).pc = "reset" /\ me1(s).run = me.run /\ me1(s).view = me.view
      /\ me1(s).set = me.set \ {s}
  BY <1>1 DEF ProcRec
<1> HIDE DEF me1
<1>6. /\ s \in Stages /\ me.view[s].attempt \in Attempts
      /\ Over(job[me.run][s][me.view[s].attempt])
      /\ \A a \in Attempts : a < me.view[s].attempt => Over(job[me.run][s][a])
      /\ \A a \in Attempts : a > me.view[s].attempt => job[me.run][s][a].st = "none"
  BY <1>3, ParkedOver
<1>7. me.view[s].attempt < MaxAttempt
  BY <1>1, <1>3 DEF ProcOK
<1> HIDE DEF me
<1>8. me.view[s].attempt + 1 \in Attempts /\ me.view[s].attempt \in Nat /\ Attempts \subseteq Nat
  BY <1>6, <1>7, Constants DEF Attempts
<1>9. x(s) \in Rows /\ x(s).state = "pending" /\ x(s).attempt = me.view[s].attempt + 1
  BY <1>8, Constants DEF Pending, Rows, NoRow, StageStates
<1> HIDE DEF x
<1>10. job[me.run][s][x(s).attempt].st = "none"
  BY <1>6, <1>8, <1>9
<1>11. Upto(job[me.run][s], x(s))
  <2> DEFINE n == me.view[s].attempt
             m == x(s).attempt
  <2>a. n \in Nat /\ m = n + 1 /\ Attempts \subseteq Nat
    BY <1>8, <1>9
  <2> HIDE DEF n, m
  <2>b. \A a \in Attempts : (a < m => a < n \/ a = n) /\ (a > m => a > n)
    BY <2>a
  <2>1. \A a \in Attempts : a < x(s).attempt => a < me.view[s].attempt \/ a = me.view[s].attempt
    BY <2>b DEF n, m
  <2>2. \A a \in Attempts : a > x(s).attempt => a > me.view[s].attempt
    BY <2>b DEF n, m
  <2> QED BY <1>6, <1>9, <2>1, <2>2 DEF Upto, Dead
<1>12. run' = run /\ job' = job
  BY DEF ResumeStage
<1> QED BY <1>2, <1>3, <1>4, <1>5, <1>9, <1>10, <1>11, <1>12, OperWrites DEF me

\* A cancelled stage keeps its attempt.
LEMMA CancelStageStep == ASSUME Known, [Next]_vars, CancelStage PROVE ScanInv'
<1> DEFINE me == proc[Oper]
           x == [me.view[me.at] EXCEPT !.state = "cancelled"]
           me1 == [me EXCEPT !.pc = "kill", !.set = me.set \ {me.at}]
<1>1. me \in ProcRec /\ me.pc = "mark"
  BY ScanParts DEF CancelStage, Procs
<1>2. row' = [row EXCEPT ![me.run][me.at] = x] /\ Move(Oper, me1)
  BY DEF CancelStage
<1>3. me.at \in me.set /\ me.pc # "idle"
  BY <1>1, ScanParts DEF OperFits
<1>4. /\ me.view[me.at] \in Rows /\ me.view[me.at].attempt \in Attempts
      /\ Over(job[me.run][me.at][me.view[me.at].attempt])
      /\ \A a \in Attempts : a < me.view[me.at].attempt => Over(job[me.run][me.at][a])
      /\ \A a \in Attempts : a > me.view[me.at].attempt => job[me.run][me.at][a].st = "none"
  BY <1>3, ParkedOver
<1>5. me1.pc = "kill" /\ me1.run = me.run /\ me1.view = me.view /\ me1.set = me.set \ {me.at}
  BY <1>1 DEF ProcRec
<1>6. x \in Rows /\ x.state = "cancelled" /\ x.attempt = me.view[me.at].attempt
  BY <1>4 DEF Rows, StageStates
<1> HIDE DEF me1, x
<1>7. Upto(job[me.run][me.at], x)
  BY <1>4, <1>6 DEF Upto
<1>8. run' = run /\ job' = job
  BY DEF CancelStage
<1> QED BY <1>2, <1>3, <1>5, <1>6, <1>7, <1>8, OperWrites

\* The jobs of stages in flight are cancelled; of a parked run there is none.
LEMMA CancelJobStep == ASSUME Known, [Next]_vars, CancelJob PROVE ScanInv'
<1> DEFINE me == proc[Oper]
           me1(s) == [me EXCEPT !.pc = "mark", !.at = s]
<1>1. me \in ProcRec /\ me.set \subseteq Stages /\ me.pc = "kill" /\ me.run \in Runs
      /\ OperFits(me, run, row)
  BY ScanParts DEF CancelJob, ProcRec, Procs
<1>2. PICK s \in First(me.set) :
          /\ Move(Oper, me1(s))
          /\ \/ job' = job
             \/ /\ job[me.run][s][me.view[s].attempt].st \in {"queued", "running", "settled"}
                /\ job' = [job EXCEPT ![me.run][s][me.view[s].attempt].st = "cancelled"]
  BY DEF CancelJob
<1>3. s \in me.set /\ s \in Stages
  BY <1>1, FirstIn
<1>4. row' = row /\ run' = run
  BY DEF CancelJob
<1>5. me1(s).pc = "mark" /\ me1(s).at = s /\ me1(s).run = me.run /\ me1(s).view = me.view
      /\ me1(s).set = me.set
  BY <1>1 DEF ProcRec
<1>m. Move(Oper, me1(s))
  BY <1>2
<1>6. NoneMinted
  <2> DEFINE b == me.view[s].attempt
             k == [job[me.run][s][b] EXCEPT !.st = "cancelled"]
  <2>1. b \in Attempts
    BY <1>1, <1>3 DEF ProcRec, Rows
  <2>2. \/ job' = job
        \/ job[me.run][s][b].st # "none" /\ job' = [job EXCEPT ![me.run][s][b] = k]
    BY <1>2
  <2> HIDE DEF k, b, me, me1
  <2>3. \A r \in Runs, t \in Stages, a \in Attempts :
           \/ job'[r][t][a] = job[r][t][a]
           \/ job[me.run][s][b].st # "none" /\ r = me.run /\ t = s /\ a = b
    <3>1. job \in [Runs -> [Stages -> [Attempts -> JobRows]]] /\ me.run \in Runs
      BY <1>1, ScanParts
    <3> QED BY <1>3, <2>1, <2>2, <3>1
  <2> QED BY <2>3 DEF NoneMinted
<1> HIDE DEF me1, me
<1>7. OperFits(me1(s), run', row')
  BY <1>1, <1>3, <1>4, <1>5 DEF OperFits
<1>8. SameRows /\ SameRuns
  BY <1>4 DEF SameRows, SameRuns, SameRow, SameRun
<1>9. RowsFit(spec, run, row, job)'
  BY <1>6, <1>8, ScanParts, RowsKeep DEF Known, SameRuns
<1>10. \A q \in Runs : run[q].state = "running" =>
          run'[q].state = "running" /\ \A t \in Stages : SameRow(q, t)
  BY <1>4 DEF SameRow
<1> QED BY <1>m, <1>6, <1>7, <1>9, <1>10, OperMoves

\* A command ends.
LEMMA EndStep == ASSUME Known, [Next]_vars, ResumeRun \/ CancelRun PROVE ScanInv'
<1> DEFINE r == proc[Oper].run
<1>1. r \in Runs /\ run \in [Runs -> RunRec]
  BY ScanParts DEF ProcRec, Procs
<1>2. row' = row /\ job' = job /\ Move(Oper, Idle) /\ proc[Oper].pc # "idle"
  BY DEF ResumeRun, CancelRun
<1>3. run[r].state \in Parked
  BY <1>2, ScanParts DEF OperFits
<1>4. \/ run' = [run EXCEPT ![r].state = "running", ![r].halt = 0]
      \/ run' = [run EXCEPT ![r].state = "cancelled"]
  BY DEF ResumeRun, CancelRun
<1> HIDE DEF r
<1>5. /\ run'[r].state \in {"running", "cancelled"}
      /\ \A q \in Runs : q # r => run'[q] = run[q]
  BY <1>1, <1>4 DEF RunRec
<1>6. SameRows /\ NoneMinted /\ \A q \in Runs : SameRun(q) \/ run'[q].state \in {"running", "cancelled"}
  BY <1>2, <1>5 DEF SameRows, NoneMinted, SameRow, SameRun
<1>7. RowsFit(spec, run, row, job)'
  BY <1>6, ScanParts, RowsKeep DEF Known
<1>8. \A q \in Runs : run[q].state = "running" =>
          run'[q].state = "running" /\ \A s \in Stages : SameRow(q, s)
  BY <1>2, <1>3, <1>5 DEF SameRow, Parked
<1>9. OperFits(Idle, run', row')
  BY OperIdle
<1> QED BY <1>2, <1>6, <1>7, <1>8, <1>9, OperMoves

\* Jobs, pull requests, timeouts, the clock and upstream runs.
LEMMA WorldStep ==
    ASSUME Known, [Next]_vars,
           \/ \E r \in Runs, s \in Stages, a \in Attempts : Work(r, s, a)
           \/ \E r \in Runs, s \in Stages : Host(r, s) \/ Expire(r, s)
           \/ Tick \/ (\E u \in DOMAIN up : Upstream(u)) \/ UNCHANGED vars
    PROVE  ScanInv'
<1>1. proc' = proc /\ run' = run /\ (row' = row \/ \E r \in Runs, s \in Stages : Expire(r, s))
  <2>1. CASE \E r \in Runs, s \in Stages, a \in Attempts : Work(r, s, a)
    <3>1. PICK r \in Runs, s \in Stages, a \in Attempts : Work(r, s, a)
      BY <2>1
    <3> QED BY <3>1 DEF Work, JobStart, JobSettle, JobAdvance
  <2>2. CASE \E r \in Runs, s \in Stages : Host(r, s) \/ Expire(r, s)
    BY <2>2 DEF Host, Expire
  <2>3. CASE Tick \/ (\E u \in DOMAIN up : Upstream(u)) \/ UNCHANGED vars
    BY <2>3 DEF Tick, Upstream, vars
  <2> QED BY <2>1, <2>2, <2>3
<1>2. SameRows
  <2>1. CASE \E r \in Runs, s \in Stages : Expire(r, s)
    <3>1. PICK r \in Runs, s \in Stages : row' = [row EXCEPT ![r][s].late = TRUE]
      BY <2>1 DEF Expire
    <3> DEFINE x == [row[r][s] EXCEPT !.late = TRUE]
    <3>2. x.state = row[r][s].state /\ x.attempt = row[r][s].attempt
      BY ScanParts DEF Rows
    <3>3. row' = [row EXCEPT ![r][s] = x]
      BY <3>1
    <3> HIDE DEF x
    <3>4. \A q \in Runs, t \in Stages : row'[q][t] = IF q = r /\ t = s THEN x ELSE row[q][t]
      BY <3>3, ScanParts
    <3> QED BY <3>2, <3>4 DEF SameRows, SameRow
  <2>2. CASE row' = row
    BY <2>2 DEF SameRows, SameRow
  <2> QED BY <1>1, <2>1, <2>2
<1>3. NoneMinted
  <2>1. CASE job' = job
    BY <2>1 DEF NoneMinted
  <2>2. ASSUME NEW r \in Runs, NEW s \in Stages, NEW a \in Attempts, Work(r, s, a)
        PROVE  NoneMinted
    <3>1. \/ job' = job
          \/ /\ job[r][s][a].st # "none"
             /\ \E k : job' = [job EXCEPT ![r][s][a] = k]
      BY <2>2 DEF Work, JobStart, JobSettle, JobAdvance
    <3>2. CASE job' # job
      <4>1. PICK k : job' = [job EXCEPT ![r][s][a] = k]
        BY <3>1, <3>2
      <4>2. job \in [Runs -> [Stages -> [Attempts -> JobRows]]]
        BY ScanParts
      <4>3. \A q \in Runs, t \in Stages, b \in Attempts :
               job'[q][t][b] = job[q][t][b] \/ (q = r /\ t = s /\ b = a)
        BY <4>1, <4>2
      <4> QED BY <3>1, <3>2, <4>3 DEF NoneMinted
    <3>3. CASE job' = job
      BY <3>3 DEF NoneMinted
    <3> QED BY <3>2, <3>3
  <2> QED BY <2>1, <2>2 DEF Host, Expire, Tick, Upstream, vars
<1>4. RowsFit(spec, run, row, job)'
  BY <1>1, <1>2, <1>3, ScanParts, RowsKeep DEF Known, SameRun
<1>5. ScanFits(spec, proc[Daemon], run, row, job)'
  BY <1>1, <1>2, <1>3, ScanParts, ScanKeep DEF Known, SameRows
<1>6. OperFits(proc[Oper], run, row)'
  BY <1>1, <1>2, ScanParts, OperKeep DEF Known, SameRows, SameRun
<1> QED BY <1>1, <1>4, <1>5, <1>6, ScanParts DEF ScanInv

\* A process dies.
LEMMA CrashStep == ASSUME Known, [Next]_vars, NEW p \in Procs, Crash(p) PROVE ScanInv'
<1>1. row' = row /\ run' = run /\ job' = job /\ Move(p, Idle) /\ proc[p].pc # "idle"
  BY DEF Crash
<1>2. CASE p = Daemon
  <2>1. ScanFits(spec, Idle, run, row, job)
    BY DEF ScanFits, Idle, InPass
  <2> QED BY <1>1, <1>2, <2>1, ScanLooks
<1>3. CASE p = Oper
  <2>1. SameRows /\ NoneMinted /\ SameRuns
    BY <1>1 DEF SameRows, NoneMinted, SameRuns, SameRow, SameRun
  <2>2. RowsFit(spec, run, row, job)'
    BY <2>1, ScanParts, RowsKeep DEF Known, SameRuns
  <2>3. \A q \in Runs : run[q].state = "running" =>
            run'[q].state = "running" /\ \A s \in Stages : SameRow(q, s)
    BY <1>1 DEF SameRow
  <2> QED BY <1>1, <1>3, <2>1, <2>2, <2>3, OperIdle, OperMoves
<1>4. p # Cli
  BY <1>1, ScanParts
<1> QED BY <1>2, <1>3, <1>4 DEF Procs

\* Every step keeps what the scan and the rows say in line.
LEMMA ScanStep == Known /\ [Next]_vars => ScanInv'
<1> SUFFICES ASSUME Known, [Next]_vars PROVE ScanInv'
  OBVIOUS
<1>1. ASSUME NEW p \in {Daemon, Cli}, Pass(p) PROVE ScanInv'
  <2>1. Pass(Daemon)
    BY <1>1, OnlyScan
  <2> QED BY <2>1, RestStep, CreateRunStep, CreateStageStep, TriggerStep, ListStep, FoldStep,
            FoldGateStep, MergeScanStep, PutMergedStep, StartStep, EnqueueStep,
            PutEnqueuedStep, SkipStep, SettleStep DEF Pass
<1>2. ASSUME Command PROVE ScanInv'
  BY <1>2, BeginStep, ResumeStageStep, CancelStageStep, CancelJobStep, EndStep DEF Command
<1> QED BY <1>1, <1>2, WorldStep, CrashStep DEF Next

-----------------------------------------------------------------------------
(* One attempt at a time *)

\* Nothing runs at the start.
LEMMA ScanInit == Init => ScanInv
<1> SUFFICES ASSUME Init PROVE ScanInv
  OBVIOUS
<1>1. proc[Daemon] = Idle /\ proc[Oper] = Idle /\ proc[Cli].pc = "idle"
  BY DEF Init, Idle, Procs
<1>2. OperFits(Idle, run, row)
  BY OperIdle
<1>3. ScanFits(spec, Idle, run, row, job)
  BY DEF ScanFits, Idle, InPass
<1>4. NoRow.state = "none" /\ NoRow.attempt = 0 /\ NoJob.st = "none"
  BY DEF NoRow, NoJob
<1>5. RowsFit(spec, run, row, job)
  <2> SUFFICES ASSUME NEW r \in Runs, NEW s \in Stages
               PROVE
        /\ run[r].state = "none" => row[r][s].state = "none"
        /\ row[r][s].state = "none" => \A a \in Attempts : job[r][s][a].st = "none"
        /\ spec.kind[s] \in Jobless => \A a \in Attempts : job[r][s][a].st = "none"
        /\ Upto(job[r][s], row[r][s])
        /\ row[r][s].state = "pending" /\ job[r][s][row[r][s].attempt].st # "none" =>
               /\ run[r].state \notin Parked
               /\ \A d \in spec.needs[s] : row[r][d].state = "succeeded"
        /\ run[r].state \in Parked => ~InFlight(row[r][s])
    BY DEF RowsFit
  <2>1. row[r][s] = NoRow /\ \A a \in Attempts : job[r][s][a].st = "none"
    BY <1>4 DEF Init
  <2>2. Upto(job[r][s], row[r][s])
    BY <1>4, <2>1 DEF Upto, Over, Dead
  <2> QED BY <1>4, <2>1, <2>2 DEF InFlight
<1> QED BY <1>1, <1>2, <1>3, <1>5 DEF ScanInv

\* Rows that fit their jobs keep the attempts of a stage in turn.
LEMMA InTurnHolds == Base /\ ScanInv => InTurn
<1> SUFFICES ASSUME Base, ScanInv, NEW r \in Runs, NEW s \in Stages,
                    NEW a \in Attempts, NEW b \in Attempts, a < b, job[r][s][b].st # "none"
             PROVE  \/ job[r][s][a].st \in {"none", "cancelled"}
                    \/ job[r][s][a].st = "settled" /\ job[r][s][a].dec \notin {"ok", "skipped"}
  BY DEF InTurn
<1>1. Upto(job[r][s], row[r][s])
  BY DEF ScanInv, RowsFit
<1>2. row[r][s].attempt \in Nat /\ Attempts \subseteq Nat
  BY TypeParts, Constants DEF Base, Rows, Attempts
<1>3. ~(b > row[r][s].attempt)
  BY <1>1 DEF Upto
<1>4. a < row[r][s].attempt
  BY <1>2, <1>3
<1>5. Over(job[r][s][a])
  BY <1>1, <1>4 DEF Upto
<1> QED BY <1>5 DEF Over

\* The invariant of the scan holds of every behaviour with one scan.
LEMMA ScanHolds == Spec => [](OneScan => ScanInv)
<1>1. Init => (OneScan => ScanInv)
  BY ScanInit
<1>2. Inv /\ (OneScan => ScanInv) /\ [Next]_vars => (OneScan => ScanInv)'
  <2> SUFFICES ASSUME Inv, OneScan => ScanInv, [Next]_vars, OneScan' PROVE ScanInv'
    OBVIOUS
  <2>1. OneScan
    BY StepFacts DEF OneScan, Inv
  <2> QED BY <2>1, ScanStep DEF Inv, Known
<1> QED BY <1>1, <1>2, InvHolds, PTL DEF Spec

\* Where one scan creates and advances the runs and only parked runs are resumed
\* and cancelled, a stage has one live attempt at a time and none after a success,
\* whatever crashes between a job and the row that names it.
THEOREM AttemptsInTurn == Spec => [](OneScan => InTurn)
<1>1. Inv /\ (OneScan => ScanInv) => (OneScan => InTurn)
  BY InTurnHolds DEF Inv
<1> QED BY <1>1, InvHolds, ScanHolds, PTL

-----------------------------------------------------------------------------
(* The dependents of a stage *)

\* The stages that need from, or one that does: the least set that is closed so.
Reach(from) ==
    {s \in Stages : \A T \in SUBSET Stages :
        (\A t \in Stages : t = from \/ (\E d \in spec.needs[t] : d \in T) => t \in T) => s \in T}

\* It is closed, and nothing else is in it.
LEMMA ReachClosed ==
    ASSUME NEW from, \A s \in Stages : spec.needs[s] \subseteq Stages
    PROVE  \A s \in Stages :
              s \in Reach(from) <=> s = from \/ \E d \in spec.needs[s] : d \in Reach(from)
<1> DEFINE C == Reach(from)
           D == {s \in Stages : s = from \/ \E d \in spec.needs[s] : d \in C}
           Closed(T) == \A t \in Stages : t = from \/ (\E d \in spec.needs[t] : d \in T) => t \in T
<1>1. C \subseteq Stages /\ D \subseteq Stages /\ \A T \in SUBSET Stages : Closed(T) => C \subseteq T
  BY DEF Reach
<1>2. Closed(C)
  <2> SUFFICES ASSUME NEW t \in Stages, t = from \/ \E d \in spec.needs[t] : d \in C,
                      NEW T \in SUBSET Stages, Closed(T)
               PROVE  t \in T
    BY DEF Reach
  <2>1. C \subseteq T
    BY <1>1
  <2> QED BY <2>1
<1>3. D \subseteq C
  BY <1>2
<1>4. Closed(D)
  BY <1>3
<1>5. C \subseteq D
  <2> HIDE DEF C, D, Closed
  <2> QED BY <1>1, <1>4
<1> QED BY <1>3, <1>5

\* What needs a dependent is a dependent: the recursion of AndDependents has one
\* solution at least.
LEMMA DependentsShut ==
    ASSUME NEW from, \A s \in Stages : spec.needs[s] \subseteq Stages,
           NEW s \in Stages, NEW d \in spec.needs[s], d \in AndDependents(from)
    PROVE  s \in AndDependents(from)
<1> DEFINE F(f) == [t \in Stages |-> t = from \/ \E e \in spec.needs[t] : f[e]]
           g == [t \in Stages |-> t \in Reach(from)]
           in == CHOOSE f : f = F(f)
<1>1. g = F(g)
  <2>1. \A t \in Stages : \A e \in spec.needs[t] : g[e] = (e \in Reach(from))
    OBVIOUS
  <2>2. \A t \in Stages : (t \in Reach(from)) = (t = from \/ \E e \in spec.needs[t] : g[e])
    <3> HIDE DEF g
    <3>1. \A t \in Stages : (t \in Reach(from)) <=> (t = from \/ \E e \in spec.needs[t] : g[e])
      BY <2>1, ReachClosed
    <3> QED BY <3>1
  <2>3. [t \in Stages |-> t \in Reach(from)]
            = [t \in Stages |-> t = from \/ \E e \in spec.needs[t] : g[e]]
    <3> HIDE DEF g
    <3> QED BY <2>2, Zenon
  <2> QED BY <2>3
<1>2. in = F(in)
  <2>1. \E f : f = F(f)
    BY <1>1
  <2> HIDE DEF F
  <2> QED BY <2>1
<1>3. AndDependents(from) = {t \in Stages : in[t]}
  BY DEF AndDependents
<1>4. in[s] <=> (s = from \/ \E e \in spec.needs[s] : in[e])
  BY <1>2
<1> QED BY <1>3, <1>4
-----------------------------------------------------------------------------
(* A succeeded run has done its work *)

\* ... where nothing of a resume is lost, and no produce stage is retried.
Steady ==
    /\ OneScan /\ Oper \notin Mortal
    /\ \A s \in Stages : spec.kind[s] = "produce" => spec.retry[s] = 0

\* A stage that stage s of run r needs has ended without success.
Cause(r, s) == \E d \in spec.needs[s] : row[r][d].state \in Dead
\* The operator is about to reset stage s of run r.
Resumed(r, s) == proc[Oper].pc = "reset" /\ proc[Oper].run = r /\ s \in proc[Oper].set

\* The rows of a run are written in order.
InOrder ==
    \A r \in Runs, s, t \in Stages : t < s /\ row[r][s].state # "none" => row[r][t].state # "none"
Born ==
    proc[Daemon].pc = "stages" =>
        \A t \in Stages : t < proc[Daemon].at => row[proc[Daemon].run][t].state # "none"
\* A stage is skipped for a cause, or a resume that took the cause away is about
\* to reset it.
SkipsFit ==
    \A r \in Runs, s \in Stages :
        row[r][s].state = "skipped" => Cause(r, s) \/ Resumed(r, s)
\* What a resume has left to reset is closed under dependents.
Shut ==
    proc[Oper].pc = "reset" =>
        \A s \in Stages : \A d \in spec.needs[s] :
            /\ d \in proc[Oper].set
            /\ row[proc[Oper].run][s].state \notin {"none", "succeeded"}
            => s \in proc[Oper].set

SkipInv == InOrder /\ Born /\ SkipsFit /\ Shut
Settled == Steady /\ Known /\ SkipInv

\* A step leaves a row alone, or writes one that has not succeeded; a stage that
\* ended without success stays ended, and one is skipped for a cause.
LiveMove(r, s) ==
    \/ SameRow(r, s)
    \/ /\ row[r][s].state \notin {"none", "succeeded"} /\ row'[r][s].state # "none"
       /\ row[r][s].state \in Dead => row'[r][s].state \in Dead
       /\ row'[r][s].state = "skipped" => Cause(r, s)
       /\ run[r].state # "succeeded"

\* The rows of a run that succeeded are left alone.
Rests == \A r \in Runs : run[r].state = "succeeded" => \A s \in Stages : SameRow(r, s)

\* Causes stay.
LEMMA CauseStays ==
    ASSUME Base, [Next]_vars, NEW r \in Runs, \A s \in Stages : LiveMove(r, s),
           NEW s \in Stages, Cause(r, s)
    PROVE  Cause(r, s)'
<1>1. spec' = spec /\ spec.needs[s] \subseteq Stages
  BY StepFacts
<1>2. PICK d \in spec.needs[s] : row[r][d].state \in Dead
  BY DEF Cause
<1>3. row'[r][d].state \in Dead
  BY <1>1, <1>2 DEF LiveMove, SameRow
<1> QED BY <1>1, <1>2, <1>3 DEF Cause

\* A step that writes no new row, and is not of a resume.
LEMMA SkipKeep ==
    ASSUME Base, SkipInv, [Next]_vars, \A r \in Runs, s \in Stages : LiveMove(r, s),
           \/ proc'[Oper] = proc[Oper]
           \/ proc[Oper].pc # "reset" /\ proc'[Oper].pc # "reset",
           \/ proc'[Daemon] = proc[Daemon]
           \/ proc'[Daemon].pc # "stages"
    PROVE  SkipInv' /\ Rests
<1>1. spec' = spec /\ \A s \in Stages : spec.needs[s] \subseteq Stages
  BY StepFacts
<1>2. proc[Oper].run \in Runs /\ proc[Daemon].run \in Runs
  BY TypeParts DEF Base, ProcRec, Procs
<1>3. \A r \in Runs, s \in Stages : (row[r][s].state = "none") <=> (row'[r][s].state = "none")
  BY DEF LiveMove, SameRow
<1>4. InOrder'
  <2> SUFFICES ASSUME NEW r \in Runs, NEW s \in Stages, NEW t \in Stages, t < s,
                      row'[r][s].state # "none"
               PROVE  row'[r][t].state # "none"
    BY DEF InOrder
  <2>1. row[r][s].state # "none"
    BY <1>3
  <2>2. row[r][t].state # "none"
    BY <2>1 DEF SkipInv, InOrder
  <2> QED BY <1>3, <2>2
<1>5. Born'
  BY <1>2, <1>3 DEF SkipInv, Born
<1>6. SkipsFit'
  <2> SUFFICES ASSUME NEW r \in Runs, NEW s \in Stages, row'[r][s].state = "skipped"
               PROVE  Cause(r, s)' \/ Resumed(r, s)'
    BY DEF SkipsFit
  <2>1. LiveMove(r, s) /\ \A t \in Stages : LiveMove(r, t)
    OBVIOUS
  <2>2. Cause(r, s) \/ row[r][s].state = "skipped"
    BY <2>1 DEF LiveMove, SameRow
  <2>3. Cause(r, s) \/ Resumed(r, s)
    BY <2>2 DEF SkipInv, SkipsFit
  <2>4. Cause(r, s) => Cause(r, s)'
    BY <2>1, CauseStays
  <2>5. Resumed(r, s) => Resumed(r, s)'
    BY DEF Resumed
  <2> QED BY <2>3, <2>4, <2>5
<1>7. Shut'
  <2> SUFFICES ASSUME proc'[Oper].pc = "reset", NEW s \in Stages, NEW d \in spec.needs[s],
                      d \in proc'[Oper].set,
                      row'[proc'[Oper].run][s].state \notin {"none", "succeeded"}
               PROVE  s \in proc'[Oper].set
    BY <1>1 DEF Shut
  <2>1. proc'[Oper] = proc[Oper]
    OBVIOUS
  <2>2. row[proc[Oper].run][s].state \notin {"none", "succeeded"}
    BY <1>2, <2>1 DEF LiveMove, SameRow
  <2> QED BY <2>1, <2>2 DEF SkipInv, Shut
<1>8. Rests
  BY DEF Rests, LiveMove
<1> QED BY <1>4, <1>5, <1>6, <1>7, <1>8 DEF SkipInv

\* A step of the scan that writes no row.
LEMMA LooksRest ==
    ASSUME Settled, [Next]_vars, NEW me, Move(Daemon, me), row' = row, me.pc # "stages"
    PROVE  SkipInv' /\ Rests
<1>1. proc'[Daemon] = me /\ proc'[Oper] = proc[Oper]
  BY ScanParts DEF Move, Settled, Procs, Daemon, Oper
<1>2. \A r \in Runs, s \in Stages : LiveMove(r, s)
  BY DEF LiveMove, SameRow
<1> QED BY <1>1, <1>2, SkipKeep DEF Settled, Known

\* A pass writes the row of a stage that was open or pending.
LEMMA WritesRest ==
    ASSUME Settled, [Next]_vars, proc[Daemon].pc \in InPass, NEW s \in Stages, NEW x \in Rows,
           Put(Daemon, s, x), NEW me, Move(Daemon, me), me.pc # "stages",
           InFlight(proc[Daemon].view[s]) \/ proc[Daemon].view[s].state = "pending",
           x.state # "none",
           x.state = "skipped" => \E d \in spec.needs[s] : proc[Daemon].view[d].state \in Dead
    PROVE  SkipInv' /\ Rests
<1> DEFINE r == proc[Daemon].run
<1>1. proc'[Daemon] = me /\ proc'[Oper] = proc[Oper]
  BY ScanParts DEF Move, Settled, Procs, Daemon, Oper
<1>2. WroteRow(r, s, x) /\ r \in Runs
  BY PutWrote, ScanParts DEF Settled
<1>3. Synced(proc[Daemon], row) /\ run[r].state = "running"
  BY ScanParts DEF ScanFits, Settled
<1>4. spec.needs[s] \subseteq Stages
  BY StepFacts DEF Settled, Known
<1>5. x.state = "skipped" => Cause(r, s)
  BY <1>3, <1>4 DEF Cause, Synced
<1>6. LiveMove(r, s)
  <2>1. row[r][s].state \in {"pending", "queued", "running"}
    BY <1>3 DEF Synced, InFlight
  <2> QED BY <1>2, <1>3, <1>5, <2>1 DEF LiveMove, WroteRow, Dead
<1>7. \A q \in Runs, t \in Stages : LiveMove(q, t)
  BY <1>2, <1>6 DEF LiveMove, WroteRow
<1> QED BY <1>1, <1>7, SkipKeep DEF Settled, Known

\* The scan's steps that write no row but a run's.
LEMMA LooksStep ==
    ASSUME Settled, [Next]_vars,
           \/ Check(Daemon) \/ NextDue(Daemon) \/ List(Daemon) \/ Merge(Daemon)
           \/ Enqueue(Daemon) \/ Settle(Daemon)
    PROVE  SkipInv' /\ Rests
<1>1. proc[Daemon] \in ProcRec /\ row \in [Runs -> [Stages -> Rows]]
  BY ScanParts DEF Settled
<1>2. row' = row
  BY DEF Check, NextDue, List, Merge, Enqueue, Settle
<1>3. CASE Check(Daemon) \/ NextDue(Daemon)
  <2>1. PICK pc \in {"create", "due", "trigger"} : Move(Daemon, [Idle EXCEPT !.pc = pc])
    BY <1>3 DEF Check, NextDue
  <2>2. [Idle EXCEPT !.pc = pc].pc # "stages"
    BY DEF Idle
  <2> QED BY <1>2, <2>1, <2>2, LooksRest
<1>4. CASE List(Daemon)
  <2>1. PICK r \in First(proc[Daemon].todo) :
            Move(Daemon, FoldNext([Idle EXCEPT !.run = r, !.view = row[r],
                                               !.todo = proc[Daemon].todo \ {r}]))
    BY <1>4 DEF List
  <2> DEFINE me == [Idle EXCEPT !.run = r, !.view = row[r], !.todo = proc[Daemon].todo \ {r}]
  <2>2. r \in Runs /\ proc[Daemon].todo \subseteq Runs
    BY <1>1, FirstIn DEF ProcRec
  <2>3. me \in ProcRec
    BY <1>1, <2>2, Constants DEF ProcRec
  <2>4. Move(Daemon, FoldNext(me))
    BY <2>1
  <2> HIDE DEF me
  <2>5. FoldNext(me).pc # "stages"
    BY <2>3, FoldNextType DEF Quiet
  <2> QED BY <1>2, <2>4, <2>5, LooksRest
<1>5. CASE Merge(Daemon)
  <2>1. PICK o : Move(Daemon, [proc[Daemon] EXCEPT !.pc = "merged", !.out = o])
    BY <1>5 DEF Merge
  <2>2. [proc[Daemon] EXCEPT !.pc = "merged", !.out = o].pc # "stages"
    BY <1>1 DEF ProcRec
  <2> QED BY <1>2, <2>1, <2>2, LooksRest
<1>6. CASE Enqueue(Daemon)
  <2>1. PICK s, o : Move(Daemon, [proc[Daemon] EXCEPT !.pc = "enqueued", !.at = s, !.out = o])
    BY <1>6 DEF Enqueue
  <2>2. [proc[Daemon] EXCEPT !.pc = "enqueued", !.at = s, !.out = o].pc # "stages"
    BY <1>1 DEF ProcRec
  <2> QED BY <1>2, <2>1, <2>2, LooksRest
<1>7. CASE Settle(Daemon)
  <2>1. Move(Daemon, PassDone(proc[Daemon]))
    BY <1>7 DEF Settle
  <2>2. PassDone(proc[Daemon]).pc # "stages"
    BY <1>1, PassDoneType DEF Quiet
  <2> QED BY <1>2, <2>1, <2>2, LooksRest
<1> QED BY <1>3, <1>4, <1>5, <1>6, <1>7

\* A new run has no rows yet.
LEMMA CreateRunRest == ASSUME Settled, [Next]_vars, CreateRun(Daemon) PROVE SkipInv' /\ Rests
<1>1. PICK r \in Fresh : Move(Daemon, [Idle EXCEPT !.pc = "stages", !.run = r])
  BY DEF CreateRun
<1> DEFINE me == [Idle EXCEPT !.pc = "stages", !.run = r]
<1>2. me.at = 1
  BY DEF Idle
<1>3. Move(Daemon, me) /\ row' = row
  BY <1>1 DEF CreateRun
<1> HIDE DEF me
<1>4. proc'[Daemon] = me /\ proc'[Oper] = proc[Oper]
  BY <1>3, ScanParts DEF Move, Settled, Procs, Daemon, Oper
<1>5. Born'
  BY <1>2, <1>4 DEF Born, Stages
<1>6. spec' = spec
  BY StepFacts DEF Settled, Known
<1>7. InOrder' /\ SkipsFit' /\ Shut'
  BY <1>3, <1>4, <1>6 DEF Settled, SkipInv, InOrder, SkipsFit, Shut, Cause, Resumed
<1> QED BY <1>3, <1>5, <1>7 DEF SkipInv, Rests, SameRow

\* The rows of a new run come one after the other.
LEMMA CreateStageRest ==
    ASSUME Settled, [Next]_vars, CreateStage(Daemon)
    PROVE  SkipInv' /\ Rests
<1> DEFINE me == proc[Daemon]
           me1 == IF me.at < NStages THEN [me EXCEPT !.at = @ + 1]
                  ELSE [me EXCEPT !.pc = "due", !.at = 1, !.todo = {}]
           op == proc[Oper]
<1>1. /\ me \in ProcRec /\ me.pc = "stages" /\ me.at \in Stages /\ me.run \in Runs
      /\ ScanFits(spec, me, run, row, job) /\ OperFits(op, run, row)
      /\ op \in ProcRec /\ op.run \in Runs
  BY ScanParts DEF CreateStage, ProcOK, OnStage, Settled, ProcRec, Procs
<1>2. row' = [row EXCEPT ![me.run][me.at] = Pending] /\ Move(Daemon, me1)
  BY DEF CreateStage
<1>3. me1.pc = "stages" => me1.run = me.run /\ me1.at = me.at + 1
  BY <1>1 DEF ProcRec
<1> HIDE DEF me1
<1>4. proc'[Daemon] = me1 /\ proc'[Oper] = op
  BY <1>2, ScanParts DEF Move, Settled, Procs, Daemon, Oper
<1>5. /\ \A t \in Stages : t < me.at => row[me.run][t].state # "none"
      /\ InOrder /\ SkipsFit /\ Shut
  BY <1>1 DEF Settled, SkipInv, Born
<1>6. Pending.state = "pending"
  BY DEF Pending, NoRow
<1>7. \A q \in Runs, t \in Stages :
         row'[q][t] = IF q = me.run /\ t = me.at THEN Pending ELSE row[q][t]
  BY <1>1, <1>2, ScanParts DEF Settled
<1>8. run[me.run].state = "running" /\ row[me.run][me.at].state = "none"
  BY <1>1 DEF ScanFits, Stages
<1>9. spec' = spec /\ \A s \in Stages : spec.needs[s] \subseteq Stages
  BY StepFacts DEF Settled, Known
<1>10. op.pc # "idle" => op.run # me.run
  BY <1>1, <1>8 DEF OperFits, Parked
<1> HIDE DEF me, op
<1>11. InOrder'
  BY <1>1, <1>5, <1>6, <1>7 DEF InOrder
<1>12. me1.pc = "stages" => \A t \in Stages : t < me1.at => row'[me.run][t].state # "none"
  BY <1>1, <1>3, <1>5, <1>6, <1>7 DEF Stages
<1>13. SkipsFit'
  <2> SUFFICES ASSUME NEW r \in Runs, NEW s \in Stages, row'[r][s].state = "skipped"
               PROVE  Cause(r, s)' \/ Resumed(r, s)'
    BY DEF SkipsFit
  <2>1. row[r][s].state = "skipped"
    BY <1>6, <1>7
  <2>2. CASE Resumed(r, s)
    BY <1>4, <2>2 DEF Resumed, op
  <2>3. CASE Cause(r, s)
    <3>1. PICK d \in spec.needs[s] : row[r][d].state \in Dead
      BY <2>3 DEF Cause
    <3>2. row'[r][d] = row[r][d]
      BY <1>7, <1>8, <1>9, <3>1 DEF Dead
    <3> QED BY <1>9, <3>1, <3>2 DEF Cause
  <2> QED BY <1>5, <2>1, <2>2, <2>3 DEF SkipsFit
<1>14. op.pc = "reset" =>
           \A s \in Stages : \A d \in spec.needs[s] :
               d \in op.set /\ row'[op.run][s].state \notin {"none", "succeeded"} => s \in op.set
  BY <1>1, <1>5, <1>7, <1>10 DEF Shut, op
<1>15. Shut'
  BY <1>4, <1>9, <1>14 DEF Shut
<1>16. Rests
  BY <1>7, <1>8 DEF Rests, SameRow
<1>17. Born'
  BY <1>3, <1>4, <1>12 DEF Born
<1> QED BY <1>11, <1>13, <1>15, <1>16, <1>17 DEF SkipInv

\* A run for an upstream success has all its rows at once.
LEMMA TriggerRest == ASSUME Settled, [Next]_vars, Trigger(Daemon) PROVE SkipInv' /\ Rests
<1> DEFINE me1 == [Idle EXCEPT !.todo = {r \in Runs : run'[r].state = "running"}]
           op == proc[Oper]
<1>1. Move(Daemon, PassDone(me1))
  BY DEF Trigger
<1>2. PassDone(me1).pc # "stages"
  BY PassDoneType, Constants DEF Quiet, ProcRec
<1> HIDE DEF me1
<1>3. CASE row' = row
  BY <1>1, <1>2, <1>3, LooksRest
<1>4. CASE \E r \in Fresh : row' = [row EXCEPT ![r] = [s \in Stages |-> Pending]]
  <2>1. PICK r \in Fresh : row' = [row EXCEPT ![r] = [s \in Stages |-> Pending]]
    BY <1>4
  <2>2. r \in Runs /\ run[r].state = "none" /\ row \in [Runs -> [Stages -> Rows]]
        /\ OperFits(op, run, row) /\ op \in ProcRec /\ op.run \in Runs
    BY ScanParts DEF Fresh, Settled, ProcRec, Procs
  <2>3. proc'[Daemon] = PassDone(me1) /\ proc'[Oper] = op
    BY <1>1, ScanParts DEF Move, Settled, Procs, Daemon, Oper
  <2>4. Pending.state = "pending"
    BY DEF Pending, NoRow
  <2>5. /\ \A q \in Runs : q # r => row'[q] = row[q]
        /\ \A s \in Stages : row'[r][s] = Pending
    BY <2>1, <2>2
  <2>6. op.pc # "idle" => op.run # r
    BY <2>2 DEF OperFits, Parked
  <2> HIDE DEF op
  <2>7. spec' = spec /\ InOrder /\ SkipsFit /\ Shut
    BY StepFacts DEF Settled, Known, SkipInv
  <2>8. InOrder'
    BY <2>4, <2>5, <2>7 DEF InOrder
  <2>9. SkipsFit'
    <3> SUFFICES ASSUME NEW q \in Runs, NEW s \in Stages, row'[q][s].state = "skipped"
                 PROVE  Cause(q, s)' \/ Resumed(q, s)'
      BY DEF SkipsFit
    <3>1. row'[q] = row[q]
      BY <2>4, <2>5
    <3>2. Cause(q, s) \/ Resumed(q, s)
      BY <2>7, <3>1 DEF SkipsFit
    <3> QED BY <2>3, <2>7, <3>1, <3>2 DEF Cause, Resumed, op
  <2>10. Shut'
    <3>1. op.pc = "reset" => row'[op.run] = row[op.run]
      BY <2>2, <2>5, <2>6
    <3> QED BY <2>3, <2>7, <3>1 DEF Shut, op
  <2>11. Born'
    BY <1>2, <2>3 DEF Born
  <2>12. Rests
    BY <2>2, <2>5 DEF Rests, SameRow
  <2> QED BY <2>8, <2>9, <2>10, <2>11, <2>12 DEF SkipInv
<1> QED BY <1>3, <1>4 DEF Trigger

\* The stages a pass folds.
LEMMA FoldRest ==
    ASSUME Settled, [Next]_vars, Fold(Daemon) \/ FoldGate(Daemon) \/ PutMerged(Daemon)
    PROVE  SkipInv' /\ Rests
<1> DEFINE me == proc[Daemon]
<1>1. me \in ProcRec /\ me.pc \in InPass /\ me.run \in Runs /\ ProcOK(me) /\ TypeOK
      /\ ScanFits(spec, me, run, row, job) /\ \A s \in Stages : me.view[s] \in Rows
  BY ScanParts DEF Settled, Fold, FoldGate, PutMerged, InPass
<1>2. ASSUME NEW s \in Stages, NEW x \in Rows, InFlight(me.view[s]), Put(Daemon, s, x),
             Move(Daemon, FoldNext(Saw(me, s, x))), x.state \notin {"none", "skipped"}
      PROVE  SkipInv' /\ Rests
  <2>1. Saw(me, s, x) \in ProcRec
    BY <1>1, SawType
  <2>2. FoldNext(Saw(me, s, x)).pc # "stages"
    BY <2>1, FoldNextType DEF Quiet
  <2> QED BY <1>1, <1>2, <2>2, WritesRest
<1>3. CASE Fold(Daemon)
  <2> DEFINE X(s) == JobOutcome(me.run, s, me.view[s])
  <2>1. PICK s \in Open(me) : Put(Daemon, s, X(s)) /\ Move(Daemon, FoldNext(Saw(me, s, X(s))))
    BY <1>3 DEF Fold
  <2>2. s \in Stages /\ InFlight(me.view[s])
    BY OpenFacts DEF Settled
  <2>3. Upto(job[me.run][s], me.view[s])
    BY <1>1, <2>2, ViewUpto DEF Settled
  <2>4. X(s) \in Rows /\ X(s).state \notin {"none", "skipped"}
    BY <1>1, <2>2, <2>3, JobFits
  <2> HIDE DEF X, me
  <2> QED BY <1>2, <2>1, <2>2, <2>4
<1>4. CASE FoldGate(Daemon)
  <2> DEFINE O(s, ci) == IF spec.kind[s] = "gate" THEN GateOutcome(me.run, s)
                         ELSE AutoOutcome(me.run, s, ci)
             X(s, o) == IF o = "wait" THEN Waiting(me.view[s]) ELSE [me.view[s] EXCEPT !.state = o]
  <2>1. PICK s \in Open(me), ci \in {"green", "red", "unknown"} :
            \/ /\ O(s, ci) = "claim"
               /\ Move(Daemon, [me EXCEPT !.pc = "merge", !.at = s])
               /\ UNCHANGED row
            \/ /\ O(s, ci) # "claim"
               /\ Put(Daemon, s, X(s, O(s, ci)))
               /\ Move(Daemon, FoldNext(Saw(me, s, X(s, O(s, ci)))))
    BY <1>4 DEF FoldGate
  <2>2. s \in Stages /\ InFlight(me.view[s]) /\ me.view[s] \in Rows
    BY <1>1, OpenFacts DEF Settled
  <2>3. O(s, ci) \in {"wait", "blocked", "succeeded", "claim"}
    BY AutoOutcomeType, GateOutcomeType
  <2>4. CASE O(s, ci) = "claim"
    <3> DEFINE me1 == [me EXCEPT !.pc = "merge", !.at = s]
    <3>1. Move(Daemon, me1) /\ row' = row
      BY <2>1, <2>4, Zenon
    <3>2. me1.pc # "stages"
      BY <1>1 DEF ProcRec
    <3> QED BY <3>1, <3>2, LooksRest
  <2>5. CASE O(s, ci) # "claim"
    <3> DEFINE o == O(s, ci)
               x == X(s, o)
    <3>1. Put(Daemon, s, x) /\ Move(Daemon, FoldNext(Saw(me, s, x)))
      BY <2>1, <2>5
    <3>2. o \in {"wait", "blocked", "succeeded"}
      BY <2>3, <2>5
    <3> HIDE DEF o
    <3>3. x \in Rows /\ x.state \in {"blocked", "running", "succeeded"}
      <4>1. Waiting(me.view[s]) \in Rows /\ Waiting(me.view[s]).state \in {"blocked", "running"}
        BY <2>2 DEF Waiting, Rows, StageStates
      <4>2. \A z \in {"blocked", "succeeded"} :
                /\ [me.view[s] EXCEPT !.state = z] \in Rows
                /\ [me.view[s] EXCEPT !.state = z].state = z
        BY <2>2 DEF Rows, StageStates
      <4> QED BY <3>2, <4>1, <4>2
    <3> HIDE DEF x, me
    <3> QED BY <1>2, <2>2, <3>1, <3>3
  <2> QED BY <2>4, <2>5
<1>5. CASE PutMerged(Daemon)
  <2>1. /\ me.pc = "merged" /\ me.at \in Stages /\ me.out \in Rows
        /\ Put(Daemon, me.at, me.out) /\ Move(Daemon, FoldNext(Saw(me, me.at, me.out)))
    BY <1>1, <1>5 DEF PutMerged, ProcOK, OnStage, ProcRec
  <2>2. InFlight(me.view[me.at]) /\ me.out.state \notin {"none", "skipped"}
    BY <1>1, <2>1 DEF ScanFits
  <2> HIDE DEF me
  <2> QED BY <1>2, <2>1, <2>2
<1> QED BY <1>3, <1>4, <1>5

\* The stages a pass starts or enqueues.
LEMMA EnqueueRest ==
    ASSUME Settled, [Next]_vars, Start(Daemon) \/ PutEnqueued(Daemon)
    PROVE  SkipInv' /\ Rests
<1> DEFINE me == proc[Daemon]
<1>1. me \in ProcRec /\ me.pc \in InPass /\ me.run \in Runs /\ ProcOK(me)
      /\ ScanFits(spec, me, run, row, job) /\ \A s \in Stages : me.view[s] \in Rows
  BY ScanParts DEF Settled, Start, PutEnqueued, InPass
<1>2. ASSUME NEW s \in Stages, NEW x \in Rows, me.view[s].state = "pending", Put(Daemon, s, x),
             Move(Daemon, EnqueueNext(Saw(me, s, x))), x.state \notin {"none", "skipped"}
      PROVE  SkipInv' /\ Rests
  <2>1. Saw(me, s, x) \in ProcRec
    BY <1>1, SawType
  <2>2. EnqueueNext(Saw(me, s, x)).pc # "stages"
    BY <2>1, EnqueueNextType DEF Quiet
  <2> QED BY <1>1, <1>2, <2>2, WritesRest
<1>3. CASE Start(Daemon)
  <2> DEFINE X(s) == [me.view[s] EXCEPT
                          !.state = IF spec.kind[s] \in Jobless THEN "queued" ELSE "blocked"]
  <2>1. PICK s \in Ready(me) : Put(Daemon, s, X(s)) /\ Move(Daemon, EnqueueNext(Saw(me, s, X(s))))
    BY <1>3 DEF Start
  <2>2. s \in Stages /\ me.view[s].state = "pending"
    BY <1>3, ReadyFacts DEF Settled, Start
  <2>3. X(s) \in Rows /\ X(s).state \notin {"none", "skipped"}
    BY <1>1, <2>2 DEF Rows, StageStates
  <2> HIDE DEF X, me
  <2> QED BY <1>2, <2>1, <2>2, <2>3
<1>4. CASE PutEnqueued(Daemon)
  <2>1. /\ me.pc = "enqueued" /\ me.at \in Stages /\ me.out \in Rows
        /\ Put(Daemon, me.at, me.out) /\ Move(Daemon, EnqueueNext(Saw(me, me.at, me.out)))
    BY <1>1, <1>4 DEF PutEnqueued, ProcOK, OnStage, ProcRec
  <2>2. me.view[me.at].state = "pending" /\ me.out.state \notin {"none", "skipped"}
    BY <1>1, <2>1 DEF ScanFits
  <2> HIDE DEF me
  <2> QED BY <1>2, <2>1, <2>2
<1> QED BY <1>3, <1>4

\* The first stage that is skipped needs one that ended without success: what it
\* needs comes before it, is not open, and has not all succeeded, or the enqueue
\* loop would have taken the stage.
LEMMA SkipRest == ASSUME Settled, [Next]_vars, Skip(Daemon) PROVE SkipInv' /\ Rests
<1> DEFINE me == proc[Daemon]
           X(s) == [me.view[s] EXCEPT !.state = "skipped"]
<1>1. me \in ProcRec /\ me.pc = "skip" /\ me.pc \in InPass /\ me.run \in Runs
      /\ ScanFits(spec, me, run, row, job) /\ \A s \in Stages : me.view[s] \in Rows
  BY ScanParts DEF Settled, Skip, InPass
<1>2. PICK s \in Left(me) : Put(Daemon, s, X(s)) /\ Move(Daemon, SkipNext(Saw(me, s, X(s))))
  BY DEF Skip
<1>3. /\ s \in Stages /\ me.view[s].state = "pending"
      /\ \A t \in Stages : me.view[t].state = "pending" => s <= t
  BY DEF Left, First
<1>4. X(s) \in Rows /\ X(s).state # "none"
  BY <1>1, <1>3 DEF Rows, StageStates
<1>5. Saw(me, s, X(s)) \in ProcRec
  BY <1>1, <1>3, <1>4, SawType
<1>6. SkipNext(Saw(me, s, X(s))).pc # "stages"
  BY <1>5, SkipNextType DEF Quiet
<1>7. Synced(me, row) /\ \A t \in Stages : Behind(spec, me, t, job) /\ ~InFlight(me.view[t])
  BY <1>1 DEF ScanFits
<1>8. spec.kind[s] = "produce" => ~(spec.retry[s] > 0)
  BY <1>3 DEF Settled, Steady
<1>9. \A d \in spec.needs[s] : d \in Stages /\ d < s
  <2>1. spec \in Specs /\ spec.needs[s] \subseteq Stages
    BY <1>3, ScanParts, SpecFacts DEF TypeOK, Settled
  <2> QED BY <1>3, <2>1, PipelineAssumption
<1>10. PICK d \in spec.needs[s] : me.view[d].state # "succeeded"
  BY <1>3, <1>7, <1>8 DEF Behind
<1>11. me.view[d].state \in Dead
  <2>1. d \in Stages /\ d < s
    BY <1>9
  <2>2. me.view[d].state # "pending"
    BY <1>3, <2>1 DEF Stages
  <2>3. me.view[d].state # "none"
    <3>1. row[me.run][s].state # "none"
      BY <1>3, <1>7 DEF Synced
    <3>2. row[me.run][d].state # "none"
      BY <1>1, <1>3, <2>1, <3>1 DEF Settled, SkipInv, InOrder
    <3> QED BY <1>7, <2>1, <3>2 DEF Synced
  <2> QED BY <1>1, <1>7, <1>10, <2>1, <2>2, <2>3 DEF Rows, StageStates, InFlight, Dead
<1> HIDE DEF X
<1> QED BY <1>1, <1>2, <1>3, <1>4, <1>6, <1>11, WritesRest


\* A resume begins on stages closed under dependents.
LEMMA ResumeRest ==
    ASSUME Settled, [Next]_vars, NEW r \in Runs, Resume(r)
    PROVE  SkipInv' /\ Rests
<1> DEFINE Set(from) == {s \in AndDependents(from) : row[r][s].state \notin {"none", "succeeded"}}
           me(from) == [Idle EXCEPT !.pc = "reset", !.run = r, !.view = row[r], !.set = Set(from)]
<1>1. PICK from \in {run[r].halt} \cup Stages : Move(Oper, me(from))
  BY DEF Resume
<1>2. proc[Oper].pc = "idle" /\ row' = row
  BY DEF Resume
<1>3. me(from).pc = "reset" /\ me(from).run = r /\ me(from).set = Set(from)
  BY DEF Idle
<1> HIDE DEF me
<1>4. proc'[Oper] = me(from) /\ proc'[Daemon] = proc[Daemon]
  BY <1>1, ScanParts DEF Move, Settled, Procs, Daemon, Oper
<1>5. spec' = spec /\ \A s \in Stages : spec.needs[s] \subseteq Stages
  BY StepFacts DEF Settled, Known
<1>6. InOrder' /\ Born' /\ Rests
  BY <1>2, <1>4 DEF Settled, SkipInv, InOrder, Born, Rests, SameRow
<1>7. SkipsFit'
  <2>1. \A q \in Runs, s \in Stages : ~Resumed(q, s)
    BY <1>2 DEF Resumed
  <2> QED BY <1>2, <1>5, <2>1 DEF Settled, SkipInv, SkipsFit, Cause
<1>8. Shut'
  <2> SUFFICES ASSUME NEW s \in Stages, NEW d \in spec.needs[s], d \in Set(from),
                      row[r][s].state \notin {"none", "succeeded"}
               PROVE  s \in Set(from)
    BY <1>2, <1>3, <1>4, <1>5 DEF Shut
  <2>1. s \in AndDependents(from)
    BY <1>5, DependentsShut
  <2> QED BY <2>1
<1> QED BY <1>6, <1>7, <1>8 DEF SkipInv

\* A resume resets the first of its stages: what depends on it is still to come.
LEMMA ResumeStageRest ==
    ASSUME Settled, [Next]_vars, ResumeStage
    PROVE  SkipInv' /\ Rests
<1> DEFINE op == proc[Oper]
           x(s) == [Pending EXCEPT !.attempt = op.view[s].attempt + 1]
           op1(s) == [op EXCEPT !.set = op.set \ {s}]
<1>1. op \in ProcRec /\ op.set \subseteq Stages /\ op.pc = "reset" /\ op.run \in Runs
      /\ OperFits(op, run, row) /\ row \in [Runs -> [Stages -> Rows]]
  BY ScanParts DEF ResumeStage, ProcRec, Procs, Settled
<1>2. PICK s \in First(op.set) :
          row' = [row EXCEPT ![op.run][s] = x(s)] /\ Move(Oper, [op EXCEPT !.set = @ \ {s}])
  BY DEF ResumeStage
<1>3. s \in op.set /\ s \in Stages /\ \A t \in op.set : s <= t
  BY <1>1, <1>2 DEF First
<1>4. Move(Oper, op1(s))
  <2>1. [op EXCEPT !.set = @ \ {s}] = op1(s)
    BY <1>1 DEF ProcRec
  <2> HIDE DEF op1
  <2> QED BY <1>2, <2>1
<1>5. op1(s).pc = "reset" /\ op1(s).run = op.run /\ op1(s).set = op.set \ {s}
  BY <1>1 DEF ProcRec
<1>6. x(s).state = "pending"
  BY DEF Pending, NoRow
<1> HIDE DEF op1, x
<1>7. \A q \in Runs, t \in Stages : row'[q][t] = IF q = op.run /\ t = s THEN x(s) ELSE row[q][t]
  BY <1>1, <1>2, <1>3
<1>8. proc'[Oper] = op1(s) /\ proc'[Daemon] = proc[Daemon]
  BY <1>4, ScanParts DEF Move, Settled, Procs, Daemon, Oper
<1>9. /\ spec' = spec /\ InOrder /\ Born /\ SkipsFit /\ Shut
      /\ \A t \in Stages : spec.needs[t] \subseteq Stages
  BY StepFacts DEF Settled, Known, SkipInv
<1>10. run[op.run].state \in Parked /\ row[op.run][s].state # "none"
  BY <1>1, <1>3 DEF OperFits
<1>11. \A t \in Stages : \A d \in spec.needs[t] : d \in Stages /\ d < t
  <2>1. spec \in Specs
    BY ScanParts DEF TypeOK, Settled
  <2> QED BY <1>9, <2>1, PipelineAssumption
<1>12. \A t \in Stages : \A d \in spec.needs[t] :
          d \in op.set /\ row[op.run][t].state \notin {"none", "succeeded"} => t \in op.set
  BY <1>1, <1>9 DEF Shut
<1>d. proc[Daemon].run \in Runs
  BY ScanParts DEF Settled
<1> HIDE DEF op
<1>13. InOrder'
  BY <1>1, <1>3, <1>6, <1>7, <1>9, <1>10 DEF InOrder
<1>14. Born'
  BY <1>d, <1>6, <1>7, <1>8, <1>9 DEF Born
<1>15. SkipsFit'
  <2> SUFFICES ASSUME NEW q \in Runs, NEW t \in Stages, row'[q][t].state = "skipped"
               PROVE  Cause(q, t)' \/ Resumed(q, t)'
    BY DEF SkipsFit
  <2>1. row[q][t].state = "skipped" /\ ~(q = op.run /\ t = s)
    BY <1>6, <1>7
  <2>2. CASE Resumed(q, t)
    <3>1. q = op.run /\ t \in op.set
      BY <2>2 DEF Resumed, op
    <3> QED BY <1>5, <1>8, <2>1, <3>1 DEF Resumed
  <2>3. CASE Cause(q, t)
    <3>1. PICK d \in spec.needs[t] : row[q][d].state \in Dead
      BY <2>3 DEF Cause
    <3>2. CASE q = op.run /\ d = s
      <4>1. t \in op.set
        BY <1>3, <1>12, <2>1, <3>1, <3>2
      <4> QED BY <1>5, <1>8, <2>1, <3>2, <4>1 DEF Resumed
    <3>3. CASE ~(q = op.run /\ d = s)
      <4>1. row'[q][d] = row[q][d]
        BY <1>7, <1>9, <3>3
      <4> QED BY <1>9, <3>1, <4>1 DEF Cause
    <3> QED BY <3>2, <3>3
  <2> QED BY <1>9, <2>1, <2>2, <2>3 DEF SkipsFit
<1>16. \A t \in Stages : \A d \in spec.needs[t] :
          /\ d \in op.set \ {s}
          /\ row'[op.run][t].state \notin {"none", "succeeded"}
          => t \in op.set \ {s}
  <2> SUFFICES ASSUME NEW t \in Stages, NEW d \in spec.needs[t], d \in op.set \ {s},
                      row'[op.run][t].state \notin {"none", "succeeded"}
               PROVE  t \in op.set \ {s}
    OBVIOUS
  <2>1. CASE t = s
    <3>1. d < s /\ s <= d /\ d \in Stages
      BY <1>3, <1>11, <2>1
    <3> QED BY <1>3, <3>1 DEF Stages
  <2>2. CASE t # s
    BY <1>1, <1>7, <1>12, <2>2
  <2> QED BY <2>1, <2>2
<1>17. Shut'
  BY <1>5, <1>8, <1>9, <1>16 DEF Shut
<1>18. Rests
  BY <1>7, <1>10 DEF Rests, SameRow, Parked
<1> QED BY <1>13, <1>14, <1>15, <1>17, <1>18 DEF SkipInv

\* A resume ends when it has nothing left to reset.
LEMMA ResumeRunRest == ASSUME Settled, [Next]_vars, ResumeRun PROVE SkipInv' /\ Rests
<1>1. /\ proc[Oper].set = {} /\ Move(Oper, Idle) /\ row' = row
  BY DEF ResumeRun
<1>2. proc'[Oper] = Idle /\ proc'[Daemon] = proc[Daemon] /\ Idle.pc = "idle"
  BY <1>1, ScanParts DEF Move, Settled, Procs, Daemon, Oper, Idle
<1>3. spec' = spec
  BY StepFacts DEF Settled, Known
<1>4. \A r \in Runs, s \in Stages : ~Resumed(r, s)
  BY <1>1 DEF Resumed
<1> HIDE DEF Idle
<1> QED BY <1>1, <1>2, <1>3, <1>4
    DEF Settled, SkipInv, InOrder, Born, SkipsFit, Shut, Cause, Rests, SameRow

\* A cancel.
LEMMA CancelRest ==
    ASSUME Settled, [Next]_vars,
           (\E r \in Runs : Cancel(r)) \/ CancelJob \/ CancelStage \/ CancelRun
    PROVE  SkipInv' /\ Rests
<1>1. proc[Oper] \in ProcRec /\ proc[Oper].run \in Runs /\ OperFits(proc[Oper], run, row)
      /\ row \in [Runs -> [Stages -> Rows]] /\ ProcOK(proc[Oper])
  BY ScanParts DEF Settled, ProcRec, Procs, Known, Base, ProcInv
<1>2. \E me : Move(Oper, me) /\ me.pc # "reset" /\ proc[Oper].pc # "reset"
  <2>1. CASE \E r \in Runs : Cancel(r)
    <3>1. PICK r \in Runs : Cancel(r)
      BY <2>1
    <3> DEFINE me == [Idle EXCEPT !.pc = "kill", !.run = r, !.view = row[r],
                   !.set = {s \in Stages : row[r][s].state \in {"pending", "queued", "running"}}]
    <3>2. Move(Oper, me) /\ me.pc # "reset"
      BY <3>1 DEF Cancel, Idle
    <3> HIDE DEF me
    <3> QED BY <3>1, <3>2 DEF Cancel
  <2>2. CASE CancelJob
    <3>1. PICK s : Move(Oper, [proc[Oper] EXCEPT !.pc = "mark", !.at = s])
      BY <2>2 DEF CancelJob
    <3>2. [proc[Oper] EXCEPT !.pc = "mark", !.at = s].pc # "reset"
      BY <1>1 DEF ProcRec
    <3> QED BY <2>2, <3>1, <3>2 DEF CancelJob
  <2>3. CASE CancelStage
    <3> DEFINE me == [proc[Oper] EXCEPT !.pc = "kill", !.set = @ \ {proc[Oper].at}]
    <3>1. Move(Oper, me) /\ me.pc # "reset"
      BY <1>1, <2>3 DEF CancelStage, ProcRec
    <3> HIDE DEF me
    <3> QED BY <2>3, <3>1 DEF CancelStage
  <2>4. CASE CancelRun
    <3>1. Idle.pc # "reset"
      BY DEF Idle
    <3> QED BY <2>4, <3>1 DEF CancelRun
  <2> QED BY <2>1, <2>2, <2>3, <2>4
<1>3. proc'[Daemon] = proc[Daemon] /\ proc'[Oper].pc # "reset" /\ proc[Oper].pc # "reset"
  BY <1>2, ScanParts DEF Move, Settled, Procs, Daemon, Oper
<1>4. \A q \in Runs, t \in Stages : LiveMove(q, t)
  <2>1. CASE row' = row
    BY <2>1 DEF LiveMove, SameRow
  <2>2. CASE CancelStage
    <3> DEFINE op == proc[Oper]
               x == [op.view[op.at] EXCEPT !.state = "cancelled"]
    <3>1. op.pc = "mark" /\ row' = [row EXCEPT ![op.run][op.at] = x]
      BY <2>2 DEF CancelStage
    <3>2. op.at \in op.set /\ op.at \in Stages /\ op.view[op.at] \in Rows
      BY <1>1, <3>1 DEF OperFits, ProcRec
    <3>3. x.state = "cancelled"
      BY <3>2 DEF Rows
    <3> HIDE DEF x
    <3>4. row[op.run][op.at].state \notin {"none", "succeeded"} /\ run[op.run].state \in Parked
      BY <1>1, <3>1, <3>2 DEF OperFits
    <3> HIDE DEF op
    <3>5. \A q \in Runs, t \in Stages :
             row'[q][t] = IF q = op.run /\ t = op.at THEN x ELSE row[q][t]
      BY <1>1, <3>1, <3>2
    <3> QED BY <3>3, <3>4, <3>5 DEF LiveMove, SameRow, Dead, Parked
  <2> QED BY <2>1, <2>2 DEF Cancel, CancelJob, CancelRun
<1> QED BY <1>3, <1>4, SkipKeep DEF Settled, Known

\* Jobs, pull requests, timeouts, the clock, upstream runs, and a death.
LEMMA WorldRest ==
    ASSUME Settled, [Next]_vars,
           \/ \E r \in Runs, s \in Stages, a \in Attempts : Work(r, s, a)
           \/ \E r \in Runs, s \in Stages : Host(r, s) \/ Expire(r, s)
           \/ Tick \/ (\E u \in DOMAIN up : Upstream(u)) \/ UNCHANGED vars
           \/ \E p \in Procs : Crash(p)
    PROVE  SkipInv' /\ Rests
<1>1. proc' = proc \/ (Move(Daemon, Idle) /\ row' = row)
  <2>1. CASE \E r \in Runs, s \in Stages, a \in Attempts : Work(r, s, a)
    <3>1. PICK r \in Runs, s \in Stages, a \in Attempts : Work(r, s, a)
      BY <2>1
    <3> QED BY <3>1 DEF Work, JobStart, JobSettle, JobAdvance
  <2>2. CASE \E p \in Procs : Crash(p)
    <3>1. PICK p \in Procs : Crash(p)
      BY <2>2
    <3>2. p # Oper /\ p # Cli
      BY <3>1, ScanParts DEF Crash, Settled, Steady
    <3> QED BY <3>1, <3>2 DEF Crash, Procs
  <2> QED BY <2>1, <2>2 DEF Host, Expire, Tick, Upstream, vars
<1>2. CASE Move(Daemon, Idle) /\ row' = row
  <2>1. Idle.pc # "stages"
    BY DEF Idle
  <2> HIDE DEF Idle
  <2> QED BY <1>2, <2>1, LooksRest
<1>3. CASE proc' = proc
  <2>1. SameRows
    <3>1. CASE \E r \in Runs, s \in Stages : Expire(r, s)
      <4>1. PICK r \in Runs, s \in Stages : row' = [row EXCEPT ![r][s].late = TRUE]
        BY <3>1 DEF Expire
      <4> DEFINE x == [row[r][s] EXCEPT !.late = TRUE]
      <4>t. row \in [Runs -> [Stages -> Rows]]
        BY ScanParts DEF Settled
      <4>2. x.state = row[r][s].state /\ x.attempt = row[r][s].attempt
        BY <4>t DEF Rows
      <4>3. row' = [row EXCEPT ![r][s] = x]
        BY <4>1
      <4> HIDE DEF x
      <4>4. \A q \in Runs, t \in Stages : row'[q][t] = IF q = r /\ t = s THEN x ELSE row[q][t]
        BY <4>t, <4>3
      <4> QED BY <4>2, <4>4 DEF SameRows, SameRow
    <3>2. CASE row' = row
      BY <3>2 DEF SameRows, SameRow
    <3>3. ASSUME NEW r \in Runs, NEW s \in Stages, NEW a \in Attempts, Work(r, s, a) PROVE row' = row
      BY <3>3 DEF Work, JobStart, JobSettle, JobAdvance
    <3> QED BY <3>1, <3>2, <3>3 DEF Host, Tick, Upstream, Crash, vars
  <2> QED BY <1>3, <2>1, SkipKeep DEF Settled, Known, SameRows, LiveMove
<1> QED BY <1>1, <1>2, <1>3

\* Every step keeps the skips in line, and the rows of succeeded runs.
LEMMA SkipsStep == Settled /\ [Next]_vars => SkipInv' /\ Rests
<1> SUFFICES ASSUME Settled, [Next]_vars PROVE SkipInv' /\ Rests
  OBVIOUS
<1>1. ASSUME NEW p \in {Daemon, Cli}, Pass(p) PROVE SkipInv' /\ Rests
  <2>1. Pass(Daemon)
    BY <1>1, OnlyScan DEF Settled
  <2> QED BY <2>1, LooksStep, CreateRunRest, CreateStageRest, TriggerRest, FoldRest,
            EnqueueRest, SkipRest DEF Pass
<1>2. ASSUME Command PROVE SkipInv' /\ Rests
  BY <1>2, ResumeRest, ResumeStageRest, ResumeRunRest, CancelRest DEF Command
<1> QED BY <1>1, <1>2, WorldRest DEF Next

\* No run is settled at the start.
LEMMA SkipInit == Init => SkipInv
<1> SUFFICES ASSUME Init PROVE SkipInv
  OBVIOUS
<1>1. proc[Daemon] = Idle /\ proc[Oper] = Idle /\ Idle.pc = "idle"
  BY DEF Init, Idle, Procs
<1>2. \A r \in Runs, s \in Stages : row[r][s].state = "none"
  BY DEF Init, NoRow
<1> HIDE DEF Idle
<1> QED BY <1>1, <1>2 DEF SkipInv, InOrder, Born, SkipsFit, Shut

\* A run is recorded as succeeded by the scan that settles it.
LEMMA SucceedsBySettle ==
    ASSUME Settled, [Next]_vars, NEW r \in Runs, run'[r].state = "succeeded"
    PROVE  run[r].state = "succeeded" \/ (Settle(Daemon) /\ r = proc[Daemon].run)
<1> SUFFICES ASSUME run[r].state # "succeeded" PROVE Settle(Daemon) /\ r = proc[Daemon].run
  OBVIOUS
<1>t. run \in [Runs -> RunRec] /\ proc[Oper].run \in Runs /\ proc[Daemon].run \in Runs
  BY ScanParts DEF Settled, ProcRec, Procs
<1>n. run' # run
  OBVIOUS
<1>1. CASE \E p \in {Daemon, Cli} : Pass(p)
  <2>1. Pass(Daemon)
    BY <1>1, OnlyScan DEF Settled
  <2>2. CASE CreateRun(Daemon)
    <3>1. PICK q \in Fresh : run' = [run EXCEPT ![q] = New("schedule", 0)]
      BY <2>2 DEF CreateRun
    <3>2. q \in Runs /\ New("schedule", 0).state = "running"
      BY DEF Fresh, New
    <3> QED BY <1>t, <3>1, <3>2
  <2>3. CASE Trigger(Daemon)
    <3>1. PICK q \in Fresh : \E u : run' = [run EXCEPT ![q] = New("pipeline", u)]
      BY <1>n, <2>3 DEF Trigger
    <3>2. q \in Runs /\ \A u : New("pipeline", u).state = "running"
      BY DEF Fresh, New
    <3> QED BY <1>t, <3>1, <3>2
  <2>4. CASE Settle(Daemon)
    <3>1. PICK st, h : run' = [run EXCEPT ![proc[Daemon].run].state = st,
                                          ![proc[Daemon].run].halt = h]
      BY <2>4 DEF Settle
    <3>2. r = proc[Daemon].run
      BY <1>t, <3>1
    <3> QED BY <2>4, <3>2
  <2> QED BY <1>n, <2>1, <2>2, <2>3, <2>4
      DEF Pass, Check, CreateStage, NextDue, List, Fold, FoldGate, Merge, PutMerged, Start,
          Enqueue, PutEnqueued, Skip
<1>2. CASE Command
  <2>1. \/ run' = [run EXCEPT ![proc[Oper].run].state = "running", ![proc[Oper].run].halt = 0]
        \/ run' = [run EXCEPT ![proc[Oper].run].state = "cancelled"]
    BY <1>2, <1>n DEF Command, Resume, Cancel, ResumeStage, ResumeRun, CancelJob, CancelStage,
                      CancelRun
  <2> QED BY <1>t, <2>1 DEF RunRec
<1>3. CASE \E s \in Runs, t \in Stages, a \in Attempts : Work(s, t, a)
  <2>1. PICK s \in Runs, t \in Stages, a \in Attempts : Work(s, t, a)
    BY <1>3
  <2> QED BY <1>n, <2>1 DEF Work, JobStart, JobSettle, JobAdvance
<1> QED BY <1>n, <1>1, <1>2, <1>3 DEF Next, Host, Expire, Tick, Upstream, Crash, vars

\* The scan finds no stage failed or blocked: the first one it skipped would have
\* needed one that was, or that was cancelled.
LEMMA SettledRows ==
    ASSUME Settled, Settle(Daemon), [Next]_vars, run'[proc[Daemon].run].state = "succeeded"
    PROVE  LET r == proc[Daemon].run
           IN  \/ \A s \in Stages : row[r][s].state \in {"none", "succeeded"}
               \/ \E s \in Stages : row[r][s].state = "cancelled"
<1> DEFINE me == proc[Daemon]
           r == me.run
           to == Settlement(me.view)
<1>1. /\ me.pc = "settle" /\ me.pc \in InPass
      /\ \E h \in to.halt : run' = [run EXCEPT ![r].state = to.state, ![r].halt = h]
  BY DEF Settle, InPass
<1>2. /\ r \in Runs /\ run \in [Runs -> RunRec] /\ ScanFits(spec, me, run, row, job)
      /\ OperFits(proc[Oper], run, row) /\ row \in [Runs -> [Stages -> Rows]]
  BY ScanParts DEF Settled
<1>3. to.state = "succeeded"
  <2> HIDE DEF to, r, me
  <2>1. run'[r].state = to.state
    BY <1>1, <1>2 DEF RunRec
  <2> QED BY <2>1 DEF r, me
<1>4. \A s \in Stages : me.view[s].state \notin {"failed", "blocked"}
  BY <1>3 DEF Settlement
<1>5. /\ Synced(me, row) /\ run[r].state = "running"
      /\ \A s \in Stages : me.view[s].state # "pending" /\ ~InFlight(me.view[s])
  BY <1>1, <1>2 DEF ScanFits
<1>6. \A s \in Stages : row[r][s].state \in {"none", "succeeded", "skipped", "cancelled"}
  BY <1>2, <1>4, <1>5 DEF Synced, InFlight, Rows, StageStates
<1> SUFFICES ASSUME \A s \in Stages : row[r][s].state # "cancelled",
                    NEW u \in Stages, row[r][u].state = "skipped"
             PROVE  FALSE
  BY <1>6
<1> DEFINE K == {s \in Stages : row[r][s].state = "skipped"}
<1>7. PICK s \in K : \A t \in K : s <= t
  <2>1. K \subseteq Stages /\ K # {}
    OBVIOUS
  <2> HIDE DEF K
  <2> QED BY <2>1, FirstExists
<1>8. ~Resumed(r, s)
  BY <1>2, <1>5 DEF Resumed, OperFits, Parked
<1>9. Cause(r, s)
  BY <1>2, <1>7, <1>8 DEF Settled, SkipInv, SkipsFit
<1>10. PICK d \in spec.needs[s] : row[r][d].state \in Dead
  BY <1>9 DEF Cause
<1>11. d \in Stages /\ d < s
  <2>1. spec \in Specs /\ spec.needs[s] \subseteq Stages
    BY ScanParts, SpecFacts DEF TypeOK, Settled
  <2> QED BY <2>1, PipelineAssumption
<1>12. d \in K
  BY <1>6, <1>10, <1>11 DEF Dead
<1> QED BY <1>7, <1>11, <1>12 DEF Stages

\* Runs that are recorded as succeeded have done their work.
LEMMA HonestRuns == Inv /\ HonestSuccess /\ Settled /\ [Next]_vars => HonestSuccess'
<1> SUFFICES ASSUME Inv, HonestSuccess, Settled, [Next]_vars, NEW r \in Runs,
                    run'[r].state = "succeeded"
             PROVE  \/ \A s \in Stages : row'[r][s].state = "none" \/ Done(r, s)'
                    \/ \E s \in Stages : row'[r][s].state = "cancelled"
  BY DEF HonestSuccess
<1>1. \A s \in Stages : Done(r, s) => Done(r, s)'
  <2>1. Finished[r] \subseteq Finished'[r]
    BY Stable DEF Inv
  <2> QED BY <2>1 DEF Finished
<1>2. CASE run[r].state = "succeeded"
  <2>1. \A s \in Stages : SameRow(r, s)
    BY <1>2, SkipsStep DEF Rests
  <2>2. \/ \A s \in Stages : row[r][s].state = "none" \/ Done(r, s)
        \/ \E s \in Stages : row[r][s].state = "cancelled"
    BY <1>2 DEF HonestSuccess
  <2> QED BY <1>1, <2>1, <2>2 DEF SameRow
<1>3. CASE Settle(Daemon) /\ r = proc[Daemon].run
  <2>1. \/ \A s \in Stages : row[r][s].state \in {"none", "succeeded"}
        \/ \E s \in Stages : row[r][s].state = "cancelled"
    BY <1>3, SettledRows
  <2>2. \A s \in Stages : row[r][s].state = "succeeded" => Done(r, s)
    BY DEF Inv, Honest, RowsHonest, Finished
  <2>3. row' = row
    BY <1>3 DEF Settle
  <2> QED BY <1>1, <2>1, <2>2, <2>3
<1> QED BY <1>2, <1>3, SucceedsBySettle

\* Where one scan creates and advances the runs, resumes run to their end and no
\* produce stage is retried, a run recorded as succeeded has done the work of
\* every stage it has a row for, or a stage of it was cancelled: no stage is
\* skipped in a run that succeeds.
THEOREM SuccessIsHonest == Spec => [](Steady => HonestSuccess)
<1> DEFINE Goal == SkipInv /\ HonestSuccess
<1>1. Init => (Steady => Goal)
  <2>1. Init => HonestSuccess
    BY DEF Init, HonestSuccess
  <2> QED BY <2>1, SkipInit
<1>2. Inv /\ (OneScan => ScanInv) /\ (Steady => Goal) /\ [Next]_vars => (Steady => Goal)'
  <2> SUFFICES ASSUME Inv, OneScan => ScanInv, Steady => Goal, [Next]_vars, Steady'
               PROVE  Goal'
    OBVIOUS
  <2>1. Steady
    BY StepFacts DEF Steady, OneScan, Inv
  <2>2. Settled
    BY <2>1 DEF Settled, Known, Inv, Steady
  <2> QED BY <2>1, <2>2, SkipsStep, HonestRuns
<1>3. (Steady => Goal) => (Steady => HonestSuccess)
  OBVIOUS
<1> QED BY <1>1, <1>2, <1>3, InvHolds, ScanHolds, PTL DEF Spec
=============================================================================
