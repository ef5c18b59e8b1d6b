----------------------- MODULE DispatchTrackerProofs -----------------------
(***************************************************************************)
(* Proofs about DispatchTracker, for every set of repositories and jobs,   *)
(* every assignment of keys, sessions and limits, live scheduler changes   *)
(* and any number of shutdowns and crashes.                                *)
(***************************************************************************)
EXTENDS DispatchTracker, FiniteSetTheorems, TLAPS

-----------------------------------------------------------------------------
(* The inductive invariant *)

\* Where the passes are: a pool pass is registered exactly while it runs, the
\* tick and the poll hold the checkout lock of their repository, and while the
\* tick selects, begins or mutates no pool pass has its repository.
PassInv ==
    /\ at["tick"] \in {"idle", "maint", "mutating", "unlock", "select", "begin", "reserved"}
    /\ \A r \in Repos : r \in pools <=> at[r] # "idle"
    /\ at["tick"] = "idle" <=> trepo = NoRepo
    /\ trepo # NoRepo => mutex[trepo] = "tick"
    /\ pollAt = "idle" <=> poll = NoRepo
    /\ poll # NoRepo => mutex[poll] = "poll"
    /\ at["tick"] \in {"select", "begin", "reserved", "mutating"} => trepo \notin pools
    /\ at["tick"] = "mutating" <=> mkey # NoKey

\* What the passes hold, each of it a job of their own repository
Hand(p) == pend[p] \cup sel[p] \cup rest[p] \cup ({cur[p]} \ {NoJob})
HandInv ==
    /\ \A p \in Passes : /\ pend[p] # {} => at[p] = "select"
                         /\ sel[p] # {} => at[p] \in {"begin", "reserved"}
                         /\ rest[p] # {} => at[p] \in {"begin", "reserved", "isolated"}
    /\ rest["tick"] = {}
    /\ \A p \in Passes : \A j \in Hand(p) : RepoOf[j] = RepoAt(p)
    /\ \A j \in Jobs : by[j] \in Repos => RepoOf[j] = by[j]

\* A job in flight has the key of its payload or that of its isolation
\* worktree; what a pass has picked is compatible with it and with itself.
Picked(p) == sel[p] \cup (IF at[p] = "reserved" THEN {cur[p]} ELSE {})
KeyInv ==
    /\ \A j \in Jobs : trk[j] \in {NoKey, j, KeyOf[j]}
    /\ \A p \in Passes : \A j \in Picked(p) : Key(j, seen[p]) \notin HeldKeys
    /\ \A p \in Passes : \A j, k \in Picked(p) :
          j # k => Key(j, seen[p]) # Key(k, seen[p])
    /\ \A p \in Passes : at[p] = "reserved" => cur[p] \notin sel[p]

\* The checkout that maintenance mutates is one of its repository
MaintInv ==
    mkey # NoKey => \/ mkey = trepo
                    \/ \E j \in Jobs : RepoOf[j] = trepo /\ mkey \in {j, KeyOf[j]}

\* A job that a pass has selected, left over or reserved has no dispatch; every
\* dispatch is in flight until its pass lets go of it, and has its reservation
\* until it returns.
Given(p) == IF at[p] \in {"reserved", "isolated"} THEN {cur[p]} ELSE {}
Todo(p) == sel[p] \cup rest[p] \cup Given(p)
WorkInv ==
    /\ \A p \in Passes : /\ \A j \in Todo(p) : wkr[j] = "none"
                         /\ Given(p) \subseteq reserved
                         /\ sel[p] \cap rest[p] = {} /\ Given(p) \cap (sel[p] \cup rest[p]) = {}
    /\ \A j \in Jobs : trk[j] # NoKey => wkr[j] # "none"
    /\ \A j \in Jobs : wkr[j] # "none" =>
          trk[j] # NoKey \/ \E r \in Repos : at[r] = "releasing" /\ cur[r] = j
    /\ \A j \in Jobs : wkr[j] \notin {"none", "ending"} => j \in reserved
    /\ \A j \in Jobs : wkr[j] = "ending" => by[j] = "tick" /\ j \notin reserved
    /\ \A r \in Repos : at[r] \in {"ending", "releasing"} =>
          by[cur[r]] = r /\ Returned(cur[r]) /\ (at[r] = "releasing" => trk[cur[r]] = NoKey)

Reservations == {k \in reserved : SessionOf[k] # NoSession}
BudgetInv == MaxSessions > 0 => Cardinality(Reservations) <= MaxSessions

\* What a repository has in flight, and what the pass that selects for it is
\* about to begin, stays within its limit; the jobs in flight of a repository
\* with a pool pass are that pass's own, so that its own count covers them.
Started(p) == sel[p] \cup Given(p)
Load(r) == IF r \in pools THEN Own(r) \cup Started(r)
           ELSE InFlightIn(r) \cup (IF trepo = r THEN Started("tick") ELSE {})
LimitInv ==
    /\ \A j \in Jobs : by[j] \in Repos => by[j] \in pools
    /\ \A r \in pools : InFlightIn(r) \subseteq Own(r)
    /\ \A r \in Repos : Cardinality(Load(r)) <= Limit[r]

Base == TypeOK /\ PassInv

RowStates == {"absent", "queued", "running", "done"}
Phases == {"none", "start", "run", "ok", "busy", "err", "ending"}
OnJob == {"reserved", "isolated", "ending", "releasing"}


\* Every step keeps the types.
LEMMA TypeStep == Base /\ [Next]_vars => TypeOK'
<1> SUFFICES ASSUME Base, [Next]_vars PROVE TypeOK'
    OBVIOUS
<1>ty. /\ state \in [Jobs -> RowStates] /\ wkr \in [Jobs -> Phases]
       /\ iso \subseteq Jobs /\ tree \subseteq Jobs /\ deferred \subseteq Jobs
       /\ isoRun \subseteq Jobs /\ reserved \subseteq Jobs /\ pools \subseteq Repos
       /\ sess \in [Sessions -> Jobs \cup {NoJob, "other"}]
       /\ trk \in [Jobs -> Keys \cup {NoKey}] /\ by \in [Jobs -> Passes \cup {"none"}]
       /\ at \in [Passes -> Spots] /\ cur \in [Passes -> Jobs \cup {NoJob}]
       /\ pend \in [Passes -> SUBSET Jobs] /\ seen \in [Passes -> SUBSET Jobs]
       /\ sel \in [Passes -> SUBSET Jobs] /\ rest \in [Passes -> SUBSET Jobs]
       /\ seed \in [Passes -> [checkouts : SUBSET Keys, runtimes : SUBSET Sessions]]
       /\ moved \subseteq Passes /\ failed \subseteq Repos /\ bounced \in [Repos -> SUBSET Jobs]
  BY DEF Base, TypeOK, RowStates, Phases
<1>cu. \A q \in Passes : cur[q] # NoJob <=> at[q] \in OnJob
  BY DEF Base, TypeOK, OnJob
<1>pa. "tick" \in Passes /\ Repos \subseteq Passes /\ "tick" \notin Repos
  BY TrackerAssumption DEF Passes
<1>1. ASSUME NEW j \in Jobs, Enqueue(j) PROVE TypeOK'
    BY <1>1, TrackerAssumption DEF Enqueue, Base, TypeOK, rowVars, trackVars, jobVars,
       passVars, tickVars, pollVars, envVars,
       Keys, Passes, Spots
<1>2. ASSUME NEW j \in Jobs, Recover(j) PROVE TypeOK'
    BY <1>2, TrackerAssumption DEF Recover, Base, TypeOK, rowVars, trackVars, jobVars,
       passVars, tickVars, pollVars, envVars,
       Keys, Passes, Spots
<1>3. ASSUME NEW j \in Jobs, StartFail(j) PROVE TypeOK'
  <2>1. state' \in [Jobs -> RowStates]
    BY <1>3, <1>ty, SMTT(40) DEF StartFail, SetWkr, RowStates
  <2>2. wkr' \in [Jobs -> Phases]
    BY <1>3, <1>ty DEF StartFail, SetWkr, Phases
  <2> QED
    BY <1>3, <2>1, <2>2, TrackerAssumption DEF StartFail, Base, TypeOK, rowVars, trackVars,
       jobVars, passVars, tickVars, pollVars, envVars,
       RowStates, Phases, OnJob
<1>4. ASSUME NEW j \in Jobs, StartBusy(j) PROVE TypeOK'
    BY <1>4, TrackerAssumption DEF StartBusy, SetWkr, Base, TypeOK, rowVars, trackVars,
       jobVars, passVars, tickVars, pollVars, envVars,
       Keys, Passes, Spots
<1>5. ASSUME NEW j \in Jobs, Start(j) PROVE TypeOK'
  <2>1. state' \in [Jobs -> RowStates]
    BY <1>5, <1>ty DEF Start, RowStates
  <2>2. wkr' \in [Jobs -> Phases]
    BY <1>5, <1>ty DEF Start, SetWkr, Phases
  <2>3. sess' \in [Sessions -> Jobs \cup {NoJob, "other"}]
    BY <1>5, <1>ty DEF Start
  <2> QED
    BY <1>5, <2>1, <2>2, <2>3, TrackerAssumption DEF Start, Base, TypeOK, rowVars,
       trackVars, jobVars, passVars, tickVars, pollVars, envVars,
       RowStates, Phases, OnJob
<1>6. ASSUME NEW j \in Jobs, NEW res \in {"ok", "err"}, Finish(j, res) PROVE TypeOK'
  <2>1. state' \in [Jobs -> RowStates]
    BY <1>6, <1>ty DEF Finish, RowStates
  <2>2. deferred' \subseteq Jobs
    BY <1>6, <1>ty DEF Finish
  <2>3. wkr' \in [Jobs -> Phases]
    BY <1>6, <1>ty DEF Finish, SetWkr, Phases
  <2>4. sess' \in [Sessions -> Jobs \cup {NoJob, "other"}]
    BY <1>6, <1>ty DEF Finish
  <2> QED
    BY <1>6, <2>1, <2>2, <2>3, <2>4, TrackerAssumption DEF Finish, Base, TypeOK, rowVars,
       trackVars, jobVars, passVars, tickVars, pollVars, envVars,
       RowStates, Phases, OnJob
<1>7. ASSUME NEW j \in Jobs, BarrierRelease(j) PROVE TypeOK'
    BY <1>7, TrackerAssumption DEF BarrierRelease, SetWkr, Released, Base, TypeOK, rowVars,
       trackVars, jobVars, passVars, tickVars, pollVars, envVars,
       Keys, Passes, Spots
<1>8. ASSUME NEW j \in Jobs, BarrierEnd(j) PROVE TypeOK'
    BY <1>8, TrackerAssumption DEF BarrierEnd, Base, TypeOK, rowVars, trackVars, jobVars,
       passVars, tickVars, pollVars, envVars,
       Keys, Passes, Spots
<1>9. ASSUME NEW s \in Sessions, FgSession(s) PROVE TypeOK'
  <2>1. sess' \in [Sessions -> Jobs \cup {NoJob, "other"}]
    BY <1>9, <1>ty DEF FgSession
  <2> QED
    BY <1>9, <2>1, TrackerAssumption DEF FgSession, Base, TypeOK, rowVars, trackVars,
       jobVars, passVars, tickVars, pollVars, envVars,
       RowStates, Phases, OnJob
<1>10. ASSUME NEW r \in Repos, Flip(r) PROVE TypeOK'
    BY <1>10, TrackerAssumption DEF Flip, Base, TypeOK, rowVars, trackVars, jobVars,
       passVars, tickVars, pollVars, envVars,
       Keys, Passes, Spots
<1>11. ASSUME NEW r \in Repos, TickLock(r) PROVE TypeOK'
    BY <1>11, TrackerAssumption DEF TickLock, Step, Base, TypeOK, rowVars, trackVars,
       jobVars, passVars, tickVars, pollVars, envVars,
       Keys, Passes, Spots
<1>12. ASSUME NEW k \in Keys, MaintCheck(k) PROVE TypeOK'
    BY <1>12, TrackerAssumption, ZenonT(60) DEF MaintCheck, Step, Key, PoolRunning, Base, TypeOK,
       rowVars, trackVars, jobVars, passVars, tickVars, pollVars, envVars,
       Keys, Passes, Spots
<1>13. CASE MaintDone
    BY <1>13, TrackerAssumption DEF MaintDone, Step, Base, TypeOK, rowVars, trackVars,
       jobVars, passVars, tickVars, pollVars, envVars,
       Keys, Passes, Spots
<1>14. CASE TickPool
  <2>1. trepo \in Repos /\ trepo # "tick"
    BY <1>14, TrackerAssumption DEF TickPool, Base, TypeOK, PassInv
  <2>2. CASE CanBeginPool(trepo)
    <3>1. pools' = pools \cup {trepo} /\ trepo \notin pools
      BY <1>14, <2>2 DEF TickPool, CanBeginPool
    <3>2. at[trepo] = "idle" /\ cur' = cur
      BY <1>14, <2>1, <3>1 DEF Base, PassInv, TickPool
    <3>3. /\ at' = [at EXCEPT !["tick"] = "unlock", ![trepo] = "loop"]
          /\ bounced' = [bounced EXCEPT ![trepo] = {}] /\ failed' = failed \ {trepo}
      BY <1>14, <2>2 DEF TickPool
    <3>4. at' \in [Passes -> Spots] /\ bounced' \in [Repos -> SUBSET Jobs]
      BY <2>1, <3>3, <1>ty, <1>pa DEF Spots
    <3>5. at["tick"] = "maint"
      BY <1>14 DEF TickPool
    <3>6. (\A q \in Passes : cur[q] # NoJob <=> at[q] \in OnJob)'
      BY <2>1, <3>2, <3>3, <3>5, <1>ty, <1>pa, <1>cu DEF OnJob
    <3> QED
      BY <1>14, <2>1, <3>1, <3>3, <3>4, <3>6, ZenonT(60) DEF TickPool, Base, TypeOK, rowVars, trackVars,
         jobVars, passVars, tickVars, pollVars, envVars, OnJob
  <2>3. CASE ~CanBeginPool(trepo)
    <3>1. at' = [at EXCEPT !["tick"] = "unlock"] /\ cur' = cur /\ at["tick"] = "maint"
      BY <1>14, <2>3 DEF TickPool
    <3>2. at' \in [Passes -> Spots]
      BY <3>1, <1>ty, <1>pa DEF Spots
    <3>3. (\A q \in Passes : cur[q] # NoJob <=> at[q] \in OnJob)'
      BY <3>1, <1>ty, <1>pa, <1>cu DEF OnJob
    <3> QED
      BY <1>14, <2>3, <3>2, <3>3 DEF TickPool, Base, TypeOK, rowVars, trackVars, jobVars,
         passVars, tickVars, pollVars, envVars, OnJob
  <2> QED
    BY <2>2, <2>3
<1>15. CASE TickList
  <2>1. \/ pend' = pend /\ seen' = seen
        \/ \E L \in SUBSET Jobs : /\ pend' = [pend EXCEPT !["tick"] = L]
                                  /\ seen' = [seen EXCEPT !["tick"] = L \cap iso]
    BY <1>15 DEF TickList, Lists, Listing
  <2>2. pend' \in [Passes -> SUBSET Jobs] /\ seen' \in [Passes -> SUBSET Jobs]
    <3>1. CASE \E L \in SUBSET Jobs : /\ pend' = [pend EXCEPT !["tick"] = L]
                                       /\ seen' = [seen EXCEPT !["tick"] = L \cap iso]
      <4>1. PICK L \in SUBSET Jobs : /\ pend' = [pend EXCEPT !["tick"] = L]
                                     /\ seen' = [seen EXCEPT !["tick"] = L \cap iso]
        BY <3>1
      <4> QED
        BY <4>1, <1>ty
    <3> QED
      BY <2>1, <3>1, <1>ty
  <2>3. at' \in [Passes -> Spots]
    BY <1>15, <1>ty, <1>pa, ZenonT(60) DEF TickList, Step, Spots
  <2>4. (\A q \in Passes : cur[q] # NoJob <=> at[q] \in OnJob)'
    BY <1>15, <1>ty, <1>pa, <1>cu, ZenonT(60) DEF TickList, Step, OnJob
  <2> QED
    BY <1>15, <2>1, <2>2, <2>3, <2>4, TrackerAssumption DEF TickList, Base, TypeOK, rowVars,
       trackVars, jobVars, passVars, tickVars, pollVars, envVars,
       RowStates, Phases, OnJob
<1>16. CASE TickSelect
  <2> DEFINE sd == [checkouts |-> HeldKeys, runtimes |-> Runtimes(InFlight)]
             P  == pend["tick"] \ InFlight
  <2>1. P \subseteq Jobs
    BY <1>ty, <1>pa
  <2>2. \A n : \A S \in Selections("tick", P, n, sd) : S \subseteq P
    BY DEF Selections
  <2> HIDE DEF sd, P
  <2>3. /\ \E S \in SUBSET P : sel' = [sel EXCEPT !["tick"] = S]
        /\ pend' = [pend EXCEPT !["tick"] = {}]
    BY <1>16, <2>2 DEF TickSelect, sd, P
  <2>4. sel' \in [Passes -> SUBSET Jobs] /\ pend' \in [Passes -> SUBSET Jobs]
    <3>1. PICK S \in SUBSET P : sel' = [sel EXCEPT !["tick"] = S]
      BY <2>3
    <3>2. S \in SUBSET Jobs
      BY <2>1
    <3> QED
      BY <2>3, <3>1, <3>2, <1>ty
  <2>5. at' \in [Passes -> Spots]
    BY <1>16, <1>ty, <1>pa DEF TickSelect, Step, Spots
  <2>6. (\A q \in Passes : cur[q] # NoJob <=> at[q] \in OnJob)'
    BY <1>16, <1>ty, <1>pa, <1>cu DEF TickSelect, Step, OnJob
  <2> QED
    BY <1>16, <2>4, <2>5, <2>6 DEF TickSelect, Base, TypeOK, rowVars, trackVars, jobVars,
       passVars, tickVars, pollVars, envVars, OnJob
<1>17. CASE TickUnlock
    BY <1>17, TrackerAssumption, ZenonT(60) DEF TickUnlock, Base, TypeOK, rowVars, trackVars, jobVars,
       passVars, tickVars, pollVars, envVars,
       Keys, Passes, Spots
<1>18. ASSUME NEW p \in Passes, NEW j \in Jobs, Reserve(p, j) PROVE TypeOK'
  <2>1. sel' \in [Passes -> SUBSET Jobs]
    BY <1>18, <1>ty DEF Reserve
  <2>2. at' \in [Passes -> Spots]
    BY <1>18, <1>ty, <1>pa DEF Reserve, Spots
  <2>3. cur' \in [Passes -> Jobs \cup {NoJob}]
    BY <1>18, <1>ty DEF Reserve
  <2>4. j # NoJob /\ at[p] = "begin"
    BY <1>18, TrackerAssumption DEF Reserve
  <2>5. (\A q \in Passes : cur[q] # NoJob <=> at[q] \in OnJob)'
    BY <1>18, <2>4, <1>ty, <1>cu DEF Reserve, OnJob
  <2>6. reserved' \subseteq Jobs
    BY <1>18, <1>ty DEF Reserve
  <2> QED
    BY <1>18, <2>1, <2>2, <2>3, <2>4, <2>5, <2>6, TrackerAssumption DEF Reserve, Base,
       TypeOK, rowVars, trackVars, jobVars, passVars, tickVars, pollVars, envVars,
       RowStates, Phases, OnJob
<1>19. ASSUME NEW p \in Passes, Begin(p) PROVE TypeOK'
  <2>1. cur[p] \in Jobs
    BY <1>19, <1>ty, <1>cu, <1>pa DEF Begin, Step, OnJob
  <2>2. at' \in [Passes -> Spots] /\ cur' \in [Passes -> Jobs \cup {NoJob}]
    BY <1>19, <1>ty, <1>pa DEF Begin, Step, Spots
  <2>3. (\A q \in Passes : cur[q] # NoJob <=> at[q] \in OnJob)'
    BY <1>19, <1>ty, <1>pa, <1>cu DEF Begin, Step, OnJob
  <2>k. Key(cur[p], seen[p]) \in Keys /\ cur[p] \in Keys
    BY <2>1, TrackerAssumption DEF Key, Keys
  <2>4. trk' \in [Jobs -> Keys \cup {NoKey}]
    BY <1>19, <2>k, <1>ty DEF Begin
  <2>5. by' \in [Jobs -> Passes \cup {"none"}] /\ wkr' \in [Jobs -> Phases]
    BY <1>19, <2>1, <1>ty, <1>pa, ZenonT(60) DEF Begin, SetWkr, Phases
  <2>6. /\ reserved' \subseteq Jobs /\ moved' \subseteq Passes /\ isoRun' \subseteq Jobs
        /\ iso' \subseteq Jobs /\ tree' \subseteq Jobs
    BY <1>19, <2>1, <1>ty, <1>pa DEF Begin, Released, rowVars
  <2> QED
    BY <1>19, <2>2, <2>3, <2>4, <2>5, <2>6 DEF Begin, Base, TypeOK, rowVars, trackVars,
       jobVars, passVars, tickVars, pollVars, envVars, Phases, OnJob
<1>20. ASSUME NEW r \in Repos, NEW j \in Jobs, PoolReap(r, j) PROVE TypeOK'
    BY <1>20, TrackerAssumption DEF PoolReap, Base, TypeOK, rowVars, trackVars, jobVars,
       passVars, tickVars, pollVars, envVars,
       Keys, Passes, Spots
<1>21. ASSUME NEW r \in Repos, PoolEnd(r) PROVE TypeOK'
    BY <1>21, TrackerAssumption DEF PoolEnd, Step, Base, TypeOK, rowVars, trackVars,
       jobVars, passVars, tickVars, pollVars, envVars,
       Keys, Passes, Spots
<1>22. ASSUME NEW r \in Repos, PoolRelease(r) PROVE TypeOK'
    BY <1>22, TrackerAssumption DEF PoolRelease, Step, Released, Base, TypeOK, rowVars,
       trackVars, jobVars, passVars, tickVars, pollVars, envVars,
       Keys, Passes, Spots
<1>23. ASSUME NEW r \in Repos, PoolList(r) PROVE TypeOK'
  <2>1. \/ pend' = pend /\ seen' = seen
        \/ \E L \in SUBSET Jobs : /\ pend' = [pend EXCEPT ![r] = L]
                                  /\ seen' = [seen EXCEPT ![r] = L \cap iso]
    BY <1>23 DEF PoolList, Lists, Listing
  <2>2. pend' \in [Passes -> SUBSET Jobs] /\ seen' \in [Passes -> SUBSET Jobs]
    <3>1. CASE \E L \in SUBSET Jobs : /\ pend' = [pend EXCEPT ![r] = L]
                                       /\ seen' = [seen EXCEPT ![r] = L \cap iso]
      <4>1. PICK L \in SUBSET Jobs : /\ pend' = [pend EXCEPT ![r] = L]
                                     /\ seen' = [seen EXCEPT ![r] = L \cap iso]
        BY <3>1
      <4> QED
        BY <4>1, <1>ty
    <3> QED
      BY <2>1, <3>1, <1>ty
  <2>3. at' \in [Passes -> Spots]
    BY <1>23, <1>ty, <1>pa, SMTT(40) DEF PoolList, Spots
  <2>4. (\A q \in Passes : cur[q] # NoJob <=> at[q] \in OnJob)'
    BY <1>23, <1>ty, <1>pa, <1>cu, ZenonT(60) DEF PoolList, OnJob
  <2>5. moved' \subseteq Passes /\ failed' \subseteq Repos
    BY <1>23, <1>ty DEF PoolList
  <2> QED
    BY <1>23, <2>1, <2>2, <2>3, <2>4, <2>5, TrackerAssumption DEF PoolList, Base, TypeOK,
       rowVars, trackVars, jobVars, passVars, tickVars, pollVars, envVars,
       RowStates, Phases, OnJob
<1>24. ASSUME NEW r \in Repos, PoolSelect(r) PROVE TypeOK'
  <2> DEFINE sd == [checkouts |-> HeldKeys, runtimes |-> Runtimes(InFlight)]
             P  == pend[r] \ (Bouncing(r) \cup InFlight)
  <2>1. sd \in [checkouts : SUBSET Keys, runtimes : SUBSET Sessions]
    BY <1>ty DEF HeldKeys, InFlight, Runtimes, Sessions
  <2>2. P \subseteq Jobs
    BY <1>ty, <1>pa
  <2>3. \A n : \A S \in Selections(r, P, n, sd) : S \subseteq P
    BY DEF Selections
  <2> HIDE DEF sd, P
  <2>4. /\ \/ sel' = sel /\ rest' = rest /\ seed' = seed
           \/ /\ seed' = [seed EXCEPT ![r] = sd]
              /\ \E S \in SUBSET P : sel' = [sel EXCEPT ![r] = S] /\ rest' = [rest EXCEPT ![r] = P \ S]
        /\ seen' = seen \/ seen' = [seen EXCEPT ![r] = {}]
        /\ pend' = [pend EXCEPT ![r] = {}]
    BY <1>24, <2>3 DEF PoolSelect, sd, P
  <2>5. /\ sel' \in [Passes -> SUBSET Jobs] /\ rest' \in [Passes -> SUBSET Jobs]
    <3>1. CASE sel' = sel /\ rest' = rest
      BY <3>1, <1>ty
    <3>2. CASE \E S \in SUBSET P : sel' = [sel EXCEPT ![r] = S] /\ rest' = [rest EXCEPT ![r] = P \ S]
      <4>1. PICK S \in SUBSET P : sel' = [sel EXCEPT ![r] = S] /\ rest' = [rest EXCEPT ![r] = P \ S]
        BY <3>2
      <4>2. S \in SUBSET Jobs /\ P \ S \in SUBSET Jobs
        BY <2>2
      <4> QED
        BY <4>1, <4>2, <1>ty
    <3> QED
      BY <2>4, <3>1, <3>2
  <2>6. /\ seen' \in [Passes -> SUBSET Jobs] /\ pend' \in [Passes -> SUBSET Jobs]
        /\ seed' \in [Passes -> [checkouts : SUBSET Keys, runtimes : SUBSET Sessions]]
    <3>1. CASE seed' = seed
      BY <2>4, <3>1, <1>ty
    <3>2. CASE seed' = [seed EXCEPT ![r] = sd]
      BY <2>1, <2>4, <3>2, <1>ty
    <3> QED
      BY <2>4, <3>1, <3>2
  <2>7. at[r] = "select" /\ cur' = cur /\ \E x \in {"wait", "begin"} : at' = [at EXCEPT ![r] = x]
    BY <1>24 DEF PoolSelect, Step
  <2>8. at' \in [Passes -> Spots]
    BY <2>7, <1>ty, <1>pa DEF Spots
  <2>9. (\A q \in Passes : cur[q] # NoJob <=> at[q] \in OnJob)'
    BY <2>7, <1>ty, <1>pa, <1>cu DEF OnJob
  <2> QED
    BY <1>24, <2>5, <2>6, <2>8, <2>9 DEF PoolSelect, Base, TypeOK, rowVars, trackVars,
       jobVars, passVars, tickVars, pollVars, envVars, OnJob
<1>25. ASSUME NEW r \in Repos, NEW j \in Jobs, PoolIsolate(r, j) PROVE TypeOK'
  <2>1. rest' \in [Passes -> SUBSET Jobs]
    BY <1>25, <1>ty DEF PoolIsolate
  <2>2. at' \in [Passes -> Spots]
    BY <1>25, <1>ty, <1>pa, ZenonT(60) DEF PoolIsolate, Spots
  <2>3. cur' \in [Passes -> Jobs \cup {NoJob}]
    BY <1>25, <1>ty, <1>pa DEF PoolIsolate
  <2>4. (\A q \in Passes : cur[q] # NoJob <=> at[q] \in OnJob)'
    BY <1>25, <1>ty, <1>pa, <1>cu, TrackerAssumption DEF PoolIsolate, OnJob
  <2>5. /\ reserved' \subseteq Jobs /\ iso' \subseteq Jobs /\ tree' \subseteq Jobs
    BY <1>25, <1>ty DEF PoolIsolate
  <2> QED
    BY <1>25, <2>1, <2>2, <2>3, <2>4, <2>5, TrackerAssumption DEF PoolIsolate, Base, TypeOK,
       rowVars, trackVars, jobVars, passVars, tickVars, pollVars, envVars,
       RowStates, Phases, OnJob
<1>26. ASSUME NEW r \in Repos, PoolIsolatedBegin(r) PROVE TypeOK'
  <2>1. cur[r] \in Jobs
    BY <1>26, <1>ty, <1>cu, <1>pa DEF PoolIsolatedBegin, Step, OnJob
  <2>2. at' \in [Passes -> Spots] /\ cur' \in [Passes -> Jobs \cup {NoJob}]
    BY <1>26, <1>ty, <1>pa DEF PoolIsolatedBegin, Step, Spots
  <2>3. (\A q \in Passes : cur[q] # NoJob <=> at[q] \in OnJob)'
    BY <1>26, <1>ty, <1>pa, <1>cu DEF PoolIsolatedBegin, Step, OnJob
  <2>k. Key(cur[r], seen[r]) \in Keys /\ cur[r] \in Keys
    BY <2>1, TrackerAssumption DEF Key, Keys
  <2>4. trk' \in [Jobs -> Keys \cup {NoKey}]
    BY <1>26, <2>k, <1>ty DEF PoolIsolatedBegin
  <2>5. by' \in [Jobs -> Passes \cup {"none"}] /\ wkr' \in [Jobs -> Phases]
    BY <1>26, <2>1, <1>ty, <1>pa, ZenonT(60) DEF PoolIsolatedBegin, SetWkr, Phases
  <2>6. /\ reserved' \subseteq Jobs /\ moved' \subseteq Passes /\ isoRun' \subseteq Jobs
        /\ iso' \subseteq Jobs /\ tree' \subseteq Jobs
    BY <1>26, <2>1, <1>ty, <1>pa DEF PoolIsolatedBegin, Released, rowVars
  <2> QED
    BY <1>26, <2>2, <2>3, <2>4, <2>5, <2>6 DEF PoolIsolatedBegin, Base, TypeOK, rowVars,
       trackVars, jobVars, passVars, tickVars, pollVars, envVars, Phases, OnJob
<1>27. ASSUME NEW r \in Repos, PoolDispatched(r) PROVE TypeOK'
    BY <1>27, TrackerAssumption DEF PoolDispatched, Step, NoSeed, Base, TypeOK, rowVars,
       trackVars, jobVars, passVars, tickVars, pollVars, envVars,
       Keys, Passes, Spots
<1>28. ASSUME NEW r \in Repos, PoolWait(r) PROVE TypeOK'
  <2>1. at' \in [Passes -> Spots]
    BY <1>28, <1>ty, <1>pa, ZenonT(60) DEF PoolWait, Step, Spots
  <2>2. (\A q \in Passes : cur[q] # NoJob <=> at[q] \in OnJob)'
    BY <1>28, <1>ty, <1>pa, <1>cu, ZenonT(60) DEF PoolWait, Step, OnJob
  <2>3. pools' \subseteq Repos
    BY <1>28, <1>ty DEF PoolWait
  <2> QED
    BY <1>28, <2>1, <2>2, <2>3, TrackerAssumption DEF PoolWait, Base, TypeOK, rowVars,
       trackVars, jobVars, passVars, tickVars, pollVars, envVars,
       RowStates, Phases, OnJob
<1>29. ASSUME NEW r \in Repos, PollLock(r) PROVE TypeOK'
    BY <1>29, TrackerAssumption DEF PollLock, Base, TypeOK, rowVars, trackVars, jobVars,
       passVars, tickVars, pollVars, envVars,
       Keys, Passes, Spots
<1>30. CASE PollCheck
    BY <1>30, TrackerAssumption DEF PollCheck, Base, TypeOK, rowVars, trackVars, jobVars,
       passVars, tickVars, pollVars, envVars,
       Keys, Passes, Spots
<1>31. CASE PollDone
    BY <1>31, TrackerAssumption DEF PollDone, Base, TypeOK, rowVars, trackVars, jobVars,
       passVars, tickVars, pollVars, envVars,
       Keys, Passes, Spots
<1>32. CASE Stop
    BY <1>32, TrackerAssumption DEF Stop, Base, TypeOK, rowVars, trackVars, jobVars,
       passVars, tickVars, pollVars, envVars,
       Keys, Passes, Spots
<1>33. CASE Drain
    BY <1>33, TrackerAssumption DEF Drain, Base, TypeOK, rowVars, trackVars, jobVars,
       passVars, tickVars, pollVars, envVars,
       Keys, Passes, Spots
<1>34. CASE Down
    BY <1>34, TrackerAssumption DEF Down, NoSeed, Base, TypeOK, rowVars, trackVars, jobVars,
       passVars, tickVars, pollVars, envVars,
       Keys, Passes, Spots
<1>35. CASE Up
    BY <1>35, TrackerAssumption DEF Up, Base, TypeOK, rowVars, trackVars, jobVars, passVars,
       tickVars, pollVars, envVars,
       Keys, Passes, Spots
<1>36. CASE UNCHANGED vars
    BY <1>36 DEF vars, Base, TypeOK, rowVars, trackVars, jobVars, passVars, tickVars,
       pollVars, envVars
<1>37. QED
    BY <1>1, <1>2, <1>3, <1>4, <1>5, <1>6, <1>7, <1>8, <1>9, <1>10, <1>11,
       <1>12, <1>13, <1>14, <1>15, <1>16, <1>17, <1>18, <1>19, <1>20, <1>21,
       <1>22, <1>23, <1>24, <1>25, <1>26, <1>27, <1>28, <1>29, <1>30, <1>31,
       <1>32, <1>33, <1>34, <1>35, <1>36
    DEF Next, JobStep, TickStep, PoolStep, PollStep, Passes

\* Every step keeps the passes, their locks and the tick's repository in line.
LEMMA PassStep == Base /\ [Next]_vars => PassInv'
<1> SUFFICES ASSUME Base, [Next]_vars PROVE PassInv'
    OBVIOUS
<1> USE TrackerAssumption
        DEF Base, TypeOK, PassInv, rowVars, trackVars, jobVars, passVars, tickVars, pollVars, envVars, Passes
<1>1. ASSUME NEW j \in Jobs, Enqueue(j) PROVE PassInv'
    BY <1>1 DEF Enqueue
<1>2. ASSUME NEW j \in Jobs, Recover(j) PROVE PassInv'
    BY <1>2 DEF Recover
<1>3. ASSUME NEW j \in Jobs, StartFail(j) PROVE PassInv'
    BY <1>3 DEF StartFail, SetWkr
<1>4. ASSUME NEW j \in Jobs, StartBusy(j) PROVE PassInv'
    BY <1>4 DEF StartBusy, SetWkr
<1>5. ASSUME NEW j \in Jobs, Start(j) PROVE PassInv'
    BY <1>5 DEF Start, SetWkr
<1>6. ASSUME NEW j \in Jobs, NEW res \in {"ok", "err"}, Finish(j, res) PROVE PassInv'
    BY <1>6 DEF Finish, SetWkr
<1>7. ASSUME NEW j \in Jobs, BarrierRelease(j) PROVE PassInv'
    BY <1>7 DEF BarrierRelease, SetWkr, Released
<1>8. ASSUME NEW j \in Jobs, BarrierEnd(j) PROVE PassInv'
    BY <1>8 DEF BarrierEnd
<1>9. ASSUME NEW s \in Sessions, FgSession(s) PROVE PassInv'
    BY <1>9 DEF FgSession
<1>10. ASSUME NEW r \in Repos, Flip(r) PROVE PassInv'
    BY <1>10 DEF Flip
<1>11. ASSUME NEW r \in Repos, TickLock(r) PROVE PassInv'
    BY <1>11 DEF TickLock, Step
<1>12. ASSUME NEW k \in Keys, MaintCheck(k) PROVE PassInv'
    BY <1>12 DEF MaintCheck, Step, Key, PoolRunning
<1>13. CASE MaintDone
    BY <1>13 DEF MaintDone, Step
<1>14. CASE TickPool
  <2>1. trepo \in Repos /\ trepo # "tick"
    BY <1>14 DEF TickPool
  <2>2. CASE CanBeginPool(trepo)
    <3>1. /\ pools' = pools \cup {trepo}
          /\ at' = [at EXCEPT !["tick"] = "unlock", ![trepo] = "loop"]
      BY <1>14, <2>2 DEF TickPool
    <3>2. /\ at'["tick"] = "unlock" /\ at'[trepo] = "loop"
          /\ \A r \in Repos : r # trepo => at'[r] = at[r]
      BY <2>1, <3>1
    <3> QED
      BY <1>14, <2>1, <3>1, <3>2 DEF TickPool
  <2>3. CASE ~CanBeginPool(trepo)
    BY <1>14, <2>3 DEF TickPool
  <2> QED
    BY <2>2, <2>3
<1>15. CASE TickList
    BY <1>15 DEF TickList, Step, Lists, Listing, RepoAt, SingleSelector, PoolRunning
<1>16. CASE TickSelect
    BY <1>16 DEF TickSelect, Step, Selections
<1>17. CASE TickUnlock
    BY <1>17 DEF TickUnlock
<1>18. ASSUME NEW p \in Passes, NEW j \in Jobs, Reserve(p, j) PROVE PassInv'
    BY <1>18 DEF Reserve
<1>19. ASSUME NEW p \in Passes, Begin(p) PROVE PassInv'
    BY <1>19 DEF Begin, Step, SetWkr, Key, Released, RepoAt
<1>20. ASSUME NEW r \in Repos, NEW j \in Jobs, PoolReap(r, j) PROVE PassInv'
    BY <1>20 DEF PoolReap
<1>21. ASSUME NEW r \in Repos, PoolEnd(r) PROVE PassInv'
    BY <1>21 DEF PoolEnd, Step
<1>22. ASSUME NEW r \in Repos, PoolRelease(r) PROVE PassInv'
    BY <1>22 DEF PoolRelease, Step, Released
<1>23. ASSUME NEW r \in Repos, PoolList(r) PROVE PassInv'
    BY <1>23 DEF PoolList, Lists, Listing, RepoAt
<1>24. ASSUME NEW r \in Repos, PoolSelect(r) PROVE PassInv'
    BY <1>24 DEF PoolSelect, Step, Selections, HeldKeys, InFlight, Runtimes, Sessions
<1>25. ASSUME NEW r \in Repos, NEW j \in Jobs, PoolIsolate(r, j) PROVE PassInv'
    BY <1>25 DEF PoolIsolate
<1>26. ASSUME NEW r \in Repos, PoolIsolatedBegin(r) PROVE PassInv'
    BY <1>26 DEF PoolIsolatedBegin, Step, SetWkr, Released
<1>27. ASSUME NEW r \in Repos, PoolDispatched(r) PROVE PassInv'
    BY <1>27 DEF PoolDispatched, Step, NoSeed
<1>28. ASSUME NEW r \in Repos, PoolWait(r) PROVE PassInv'
    BY <1>28 DEF PoolWait, Step
<1>29. ASSUME NEW r \in Repos, PollLock(r) PROVE PassInv'
    BY <1>29 DEF PollLock
<1>30. CASE PollCheck
    BY <1>30 DEF PollCheck
<1>31. CASE PollDone
    BY <1>31 DEF PollDone
<1>32. CASE Stop
    BY <1>32 DEF Stop
<1>33. CASE Drain
    BY <1>33 DEF Drain
<1>34. CASE Down
    BY <1>34 DEF Down, NoSeed
<1>35. CASE Up
    BY <1>35 DEF Up
<1>36. CASE UNCHANGED vars
    BY <1>36 DEF vars
<1> HIDE DEF TypeOK, PassInv, Base
<1>37. QED
    BY <1>1, <1>2, <1>3, <1>4, <1>5, <1>6, <1>7, <1>8, <1>9, <1>10, <1>11,
       <1>12, <1>13, <1>14, <1>15, <1>16, <1>17, <1>18, <1>19, <1>20, <1>21,
       <1>22, <1>23, <1>24, <1>25, <1>26, <1>27, <1>28, <1>29, <1>30, <1>31,
       <1>32, <1>33, <1>34, <1>35, <1>36
    DEF Next, JobStep, TickStep, PoolStep, PollStep, Passes

\* A pass only ever has jobs of its own repository in hand.
LEMMA HandStep == Base /\ HandInv /\ [Next]_vars => HandInv'
<1> SUFFICES ASSUME Base, HandInv, [Next]_vars PROVE HandInv'
    OBVIOUS
<1>h. HandInv
  OBVIOUS
<1>ty. /\ at \in [Passes -> Spots] /\ cur \in [Passes -> Jobs \cup {NoJob}]
       /\ pend \in [Passes -> SUBSET Jobs] /\ sel \in [Passes -> SUBSET Jobs]
       /\ rest \in [Passes -> SUBSET Jobs] /\ by \in [Jobs -> Passes \cup {"none"}]
  BY DEF Base, TypeOK
<1>cu. /\ \A q \in Passes : cur[q] # NoJob <=> at[q] \in OnJob
       /\ at["tick"] \in {"idle", "maint", "mutating", "unlock", "select", "begin", "reserved"}
       /\ trepo \in Repos \cup {NoRepo} /\ (at["tick"] = "idle" <=> trepo = NoRepo)
  BY DEF Base, TypeOK, PassInv, OnJob
<1>pa. /\ "tick" \in Passes /\ Repos \subseteq Passes /\ "tick" \notin Repos
       /\ NoJob \notin Jobs /\ "none" \notin Repos
  BY TrackerAssumption DEF Passes
<1>u. ASSUME UNCHANGED <<at, pend, sel, rest, cur, by, trepo>> PROVE HandInv'
  BY <1>u DEF HandInv, Hand, RepoAt
<1>1. ASSUME NEW j \in Jobs, Enqueue(j) PROVE HandInv'
    BY <1>1, <1>u DEF Enqueue, rowVars, trackVars, jobVars, passVars, tickVars, pollVars,
       envVars
<1>2. ASSUME NEW j \in Jobs, Recover(j) PROVE HandInv'
    BY <1>2, <1>u DEF Recover, rowVars, trackVars, jobVars, passVars, tickVars, pollVars,
       envVars
<1>3. ASSUME NEW j \in Jobs, StartFail(j) PROVE HandInv'
    BY <1>3, <1>u DEF StartFail, rowVars, trackVars, jobVars, passVars, tickVars, pollVars,
       envVars
<1>4. ASSUME NEW j \in Jobs, StartBusy(j) PROVE HandInv'
    BY <1>4, <1>u DEF StartBusy, rowVars, trackVars, jobVars, passVars, tickVars, pollVars,
       envVars
<1>5. ASSUME NEW j \in Jobs, Start(j) PROVE HandInv'
    BY <1>5, <1>u DEF Start, rowVars, trackVars, jobVars, passVars, tickVars, pollVars, envVars
<1>6. ASSUME NEW j \in Jobs, NEW res \in {"ok", "err"}, Finish(j, res) PROVE HandInv'
    BY <1>6, <1>u DEF Finish, rowVars, trackVars, jobVars, passVars, tickVars, pollVars, envVars
<1>7. ASSUME NEW j \in Jobs, BarrierRelease(j) PROVE HandInv'
    BY <1>7, <1>u DEF BarrierRelease, rowVars, trackVars, jobVars, passVars, tickVars,
       pollVars, envVars
<1>8. ASSUME NEW j \in Jobs, BarrierEnd(j) PROVE HandInv'
    BY <1>8, <1>h, <1>ty, <1>pa, <1>cu DEF BarrierEnd, HandInv, Hand, RepoAt, OnJob,
       rowVars, trackVars, jobVars, passVars, tickVars, pollVars, envVars
<1>9. ASSUME NEW s \in Sessions, FgSession(s) PROVE HandInv'
    BY <1>9, <1>u DEF FgSession, rowVars, trackVars, jobVars, passVars, tickVars, pollVars,
       envVars
<1>10. ASSUME NEW r \in Repos, Flip(r) PROVE HandInv'
    BY <1>10, <1>u DEF Flip, rowVars, trackVars, jobVars, passVars, tickVars, pollVars, envVars
<1>11. ASSUME NEW r \in Repos, TickLock(r) PROVE HandInv'
    BY <1>11, <1>h, <1>ty, <1>pa, <1>cu DEF TickLock, Step, HandInv, Hand, RepoAt, OnJob,
       rowVars, trackVars, jobVars, passVars, tickVars, pollVars, envVars
<1>12. ASSUME NEW k \in Keys, MaintCheck(k) PROVE HandInv'
    BY <1>12, <1>h, <1>ty, <1>pa, <1>cu DEF MaintCheck, Step, HandInv, Hand, RepoAt, OnJob,
       rowVars, trackVars, jobVars, passVars, tickVars, pollVars, envVars
<1>13. CASE MaintDone
    BY <1>13, <1>h, <1>ty, <1>pa, <1>cu DEF MaintDone, Step, HandInv, Hand, RepoAt, OnJob,
       rowVars, trackVars, jobVars, passVars, tickVars, pollVars, envVars
<1>14. CASE TickPool
  <2>1. trepo \in Repos /\ at["tick"] = "maint"
    BY <1>14, <1>cu DEF TickPool
  <2>2. at[trepo] = "idle" \/ at'[trepo] = at[trepo]
    BY <1>14, <2>1, <1>ty, <1>pa DEF TickPool, CanBeginPool, Base, PassInv
  <2>3. \A q \in Passes : at'[q] # at[q] => at[q] \in {"idle", "maint"}
    BY <1>14, <2>1, <2>2, <1>ty, <1>pa DEF TickPool
  <2>4. \A q \in Passes : at'[q] # at[q] => pend[q] = {} /\ sel[q] = {} /\ rest[q] = {}
    BY <2>3, <1>h DEF HandInv
  <2>5. UNCHANGED <<pend, sel, rest, cur, by, trepo>>
    BY <1>14 DEF TickPool, jobVars, tickVars
  <2> QED
    BY <2>4, <2>5, <1>h, <1>pa DEF HandInv, Hand, RepoAt
<1>15. CASE TickList
    BY <1>15, <1>h, <1>ty, <1>pa, <1>cu DEF TickList, Step, Lists, Listing, HandInv, Hand,
       RepoAt, OnJob, rowVars, trackVars, jobVars, passVars, tickVars, pollVars, envVars
<1>16. CASE TickSelect
    BY <1>16, <1>h, <1>ty, <1>pa, <1>cu DEF TickSelect, Step, Selections, HandInv, Hand,
       RepoAt, OnJob, rowVars, trackVars, jobVars, passVars, tickVars, pollVars, envVars
<1>17. CASE TickUnlock
    BY <1>17, <1>h, <1>ty, <1>pa, <1>cu DEF TickUnlock, HandInv, Hand, RepoAt, OnJob,
       rowVars, trackVars, jobVars, passVars, tickVars, pollVars, envVars
<1>18. ASSUME NEW p \in Passes, NEW j \in Jobs, Reserve(p, j) PROVE HandInv'
    BY <1>18, <1>h, <1>ty, <1>pa, <1>cu DEF Reserve, HandInv, Hand, RepoAt, OnJob, rowVars,
       trackVars, jobVars, passVars, tickVars, pollVars, envVars
<1>19. ASSUME NEW p \in Passes, Begin(p) PROVE HandInv'
    BY <1>19, <1>h, <1>ty, <1>pa, <1>cu DEF Begin, Step, HandInv, Hand, RepoAt, OnJob,
       rowVars, trackVars, jobVars, passVars, tickVars, pollVars, envVars
<1>20. ASSUME NEW r \in Repos, NEW j \in Jobs, PoolReap(r, j) PROVE HandInv'
    BY <1>20, <1>h, <1>ty, <1>pa, <1>cu DEF PoolReap, HandInv, Hand, RepoAt, OnJob, rowVars,
       trackVars, jobVars, passVars, tickVars, pollVars, envVars
<1>21. ASSUME NEW r \in Repos, PoolEnd(r) PROVE HandInv'
    BY <1>21, <1>h, <1>ty, <1>pa, <1>cu DEF PoolEnd, Step, HandInv, Hand, RepoAt, OnJob,
       rowVars, trackVars, jobVars, passVars, tickVars, pollVars, envVars
<1>22. ASSUME NEW r \in Repos, PoolRelease(r) PROVE HandInv'
    BY <1>22, <1>h, <1>ty, <1>pa, <1>cu DEF PoolRelease, Step, HandInv, Hand, RepoAt, OnJob,
       rowVars, trackVars, jobVars, passVars, tickVars, pollVars, envVars
<1>23. ASSUME NEW r \in Repos, PoolList(r) PROVE HandInv'
    BY <1>23, <1>h, <1>ty, <1>pa, <1>cu DEF PoolList, Lists, Listing, HandInv, Hand, RepoAt,
       OnJob, rowVars, trackVars, jobVars, passVars, tickVars, pollVars, envVars
<1>24. ASSUME NEW r \in Repos, PoolSelect(r) PROVE HandInv'
    BY <1>24, <1>h, <1>ty, <1>pa, <1>cu DEF PoolSelect, Step, Selections, HandInv, Hand,
       RepoAt, OnJob, rowVars, trackVars, jobVars, passVars, tickVars, pollVars, envVars
<1>25. ASSUME NEW r \in Repos, NEW j \in Jobs, PoolIsolate(r, j) PROVE HandInv'
    BY <1>25, <1>h, <1>ty, <1>pa, <1>cu DEF PoolIsolate, HandInv, Hand, RepoAt, OnJob,
       rowVars, trackVars, jobVars, passVars, tickVars, pollVars, envVars
<1>26. ASSUME NEW r \in Repos, PoolIsolatedBegin(r) PROVE HandInv'
    BY <1>26, <1>h, <1>ty, <1>pa, <1>cu DEF PoolIsolatedBegin, Step, HandInv, Hand, RepoAt,
       OnJob, rowVars, trackVars, jobVars, passVars, tickVars, pollVars, envVars
<1>27. ASSUME NEW r \in Repos, PoolDispatched(r) PROVE HandInv'
    BY <1>27, <1>h, <1>ty, <1>pa, <1>cu DEF PoolDispatched, Step, HandInv, Hand, RepoAt,
       OnJob, rowVars, trackVars, jobVars, passVars, tickVars, pollVars, envVars
<1>28. ASSUME NEW r \in Repos, PoolWait(r) PROVE HandInv'
    BY <1>28, <1>h, <1>ty, <1>pa, <1>cu DEF PoolWait, Step, HandInv, Hand, RepoAt, OnJob,
       rowVars, trackVars, jobVars, passVars, tickVars, pollVars, envVars
<1>29. ASSUME NEW r \in Repos, PollLock(r) PROVE HandInv'
    BY <1>29, <1>u DEF PollLock, rowVars, trackVars, jobVars, passVars, tickVars, pollVars,
       envVars
<1>30. CASE PollCheck
    BY <1>30, <1>u DEF PollCheck, rowVars, trackVars, jobVars, passVars, tickVars, pollVars,
       envVars
<1>31. CASE PollDone
    BY <1>31, <1>u DEF PollDone, rowVars, trackVars, jobVars, passVars, tickVars, pollVars,
       envVars
<1>32. CASE Stop
    BY <1>32, <1>u DEF Stop, rowVars, trackVars, jobVars, passVars, tickVars, pollVars, envVars
<1>33. CASE Drain
    BY <1>33, <1>u DEF Drain, rowVars, trackVars, jobVars, passVars, tickVars, pollVars, envVars
<1>34. CASE Down
    BY <1>34, <1>h, <1>ty, <1>pa, <1>cu DEF Down, HandInv, Hand, RepoAt, OnJob, rowVars,
       trackVars, jobVars, passVars, tickVars, pollVars, envVars
<1>35. CASE Up
    BY <1>35, <1>u DEF Up, rowVars, trackVars, jobVars, passVars, tickVars, pollVars, envVars
<1>36. CASE UNCHANGED vars
    BY <1>36, <1>u DEF vars, rowVars, trackVars, jobVars, passVars, tickVars, pollVars, envVars
<1>37. QED
    BY <1>1, <1>2, <1>3, <1>4, <1>5, <1>6, <1>7, <1>8, <1>9, <1>10, <1>11,
       <1>12, <1>13, <1>14, <1>15, <1>16, <1>17, <1>18, <1>19, <1>20, <1>21,
       <1>22, <1>23, <1>24, <1>25, <1>26, <1>27, <1>28, <1>29, <1>30, <1>31,
       <1>32, <1>33, <1>34, <1>35, <1>36
    DEF Next, JobStep, TickStep, PoolStep, PollStep, Passes

\* Jobs of different repositories have different keys.
LEMMA KeysApart ==
    \A j, k \in Jobs : \A a \in {j, KeyOf[j]}, b \in {k, KeyOf[k]} :
        RepoOf[j] # RepoOf[k] \/ (j # k /\ a = j) => a # b
  BY TrackerAssumption

\* No two passes have work of one repository in hand.
LEMMA OneSelector ==
    Base /\ HandInv => \A p, q \in Passes :
        p # q /\ Hand(p) # {} /\ Hand(q) # {} => RepoAt(p) # RepoAt(q)
<1> SUFFICES ASSUME Base, HandInv, NEW p \in Passes, NEW q \in Passes,
                    p # q, Hand(p) # {}, Hand(q) # {}
             PROVE  RepoAt(p) # RepoAt(q)
  OBVIOUS
<1>1. ASSUME NEW r \in Repos, Hand(r) # {} PROVE r \in pools /\ RepoAt(r) = r
  <2>1. at[r] # "idle"
    BY <1>1 DEF Base, TypeOK, HandInv, Hand, Passes
  <2> QED
    BY <2>1, TrackerAssumption DEF Base, PassInv, RepoAt
<1>2. ASSUME Hand("tick") # {} PROVE trepo \notin pools /\ RepoAt("tick") = trepo
  <2>1. at["tick"] \in {"select", "begin", "reserved"}
    BY <1>2 DEF Base, TypeOK, PassInv, HandInv, Hand, Passes
  <2> QED
    BY <2>1 DEF Base, PassInv, RepoAt
<1> QED
  BY <1>1, <1>2 DEF Passes

\* What a pass is about to begin is of its own repository.
LEMMA OthersApart ==
    ASSUME Base, HandInv, NEW p \in Passes, NEW q \in Passes, p # q,
           NEW j \in Hand(p), NEW k \in Hand(q)
    PROVE  RepoOf[j] # RepoOf[k]
  BY OneSelector DEF HandInv

\* A selection is compatible with what is held, and with itself.
LEMMA SelectedApart ==
    \A p, P, n, sd : \A S \in Selections(p, P, n, sd) :
        /\ \A j \in S : Key(j, seen[p]) \notin sd.checkouts
        /\ \A j, k \in S : j # k => Key(j, seen[p]) # Key(k, seen[p])
<1> SUFFICES ASSUME NEW p, NEW P, NEW n, NEW sd, NEW S \in Selections(p, P, n, sd)
             PROVE  /\ \A j \in S : Key(j, seen[p]) \notin sd.checkouts
                    /\ \A j, k \in S : j # k => Key(j, seen[p]) # Key(k, seen[p])
  OBVIOUS
<1>1. \A j, R, d : Fits(p, j, R, d) =>
         Key(j, seen[p]) \notin d.checkouts /\ \A i \in R : Key(j, seen[p]) # Key(i, seen[p])
  BY DEF Fits
<1>2. \A j \in S : Fits(p, j, {}, sd)
  BY DEF Selections
<1>3. \A j, k \in S : j # k => Fits(p, j, {k}, NoSeed) \/ Fits(p, k, {j}, NoSeed)
  BY DEF Selections
<1> QED
  BY <1>1, <1>2, <1>3

\* What is picked stays compatible with what is in flight, so no checkout is shared.
LEMMA KeyStep ==
    Base /\ HandInv /\ KeyInv /\ CheckoutExclusive /\ [Next]_vars =>
        (KeyInv /\ CheckoutExclusive)'
<1> SUFFICES ASSUME Base, HandInv, KeyInv, CheckoutExclusive, [Next]_vars
             PROVE  (KeyInv /\ CheckoutExclusive)'
    OBVIOUS
<1>k. KeyInv /\ CheckoutExclusive
  OBVIOUS
<1>h. Base /\ HandInv
  OBVIOUS
<1>ty. /\ at \in [Passes -> Spots] /\ cur \in [Passes -> Jobs \cup {NoJob}]
       /\ pend \in [Passes -> SUBSET Jobs] /\ sel \in [Passes -> SUBSET Jobs]
       /\ seen \in [Passes -> SUBSET Jobs] /\ trk \in [Jobs -> Keys \cup {NoKey}]
  BY DEF Base, TypeOK
<1>cu. \A q \in Passes : cur[q] # NoJob <=> at[q] \in OnJob
  BY DEF Base, TypeOK, OnJob
<1>pa. /\ "tick" \in Passes /\ Repos \subseteq Passes /\ "tick" \notin Repos
       /\ NoJob \notin Jobs /\ trepo \in Repos \cup {NoRepo} /\ (trepo = NoRepo <=> at["tick"] = "idle")
  BY TrackerAssumption DEF Passes, Base, TypeOK, PassInv
<1>m. ASSUME \A j \in Jobs : trk'[j] \in {trk[j], NoKey},
             \A q \in Passes : Picked(q)' \subseteq Picked(q),
             \A q \in Passes : /\ Picked(q)' # {} => seen'[q] = seen[q]
                               /\ at'[q] = "reserved" => cur'[q] \notin sel'[q]
      PROVE  (KeyInv /\ CheckoutExclusive)'
  <2>1. HeldKeys' \subseteq HeldKeys /\ InFlight' \subseteq InFlight
    BY <1>m DEF HeldKeys, InFlight
  <2>2. \A j \in InFlight' : trk'[j] = trk[j]
    BY <1>m DEF InFlight
  <2>3. KeyInv'
    BY <1>m, <1>k, <2>1 DEF KeyInv
  <2> QED
    BY <2>1, <2>2, <2>3, <1>k DEF CheckoutExclusive
<1>u. ASSUME UNCHANGED <<trk, sel, seen, at, cur>> PROVE (KeyInv /\ CheckoutExclusive)'
  BY <1>u, <1>k DEF KeyInv, CheckoutExclusive, Picked, HeldKeys, InFlight
<1>1. ASSUME NEW j \in Jobs, Enqueue(j) PROVE (KeyInv /\ CheckoutExclusive)'
    BY <1>1, <1>u DEF Enqueue, rowVars, trackVars, jobVars, passVars, tickVars, pollVars,
       envVars
<1>2. ASSUME NEW j \in Jobs, Recover(j) PROVE (KeyInv /\ CheckoutExclusive)'
    BY <1>2, <1>u DEF Recover, rowVars, trackVars, jobVars, passVars, tickVars, pollVars,
       envVars
<1>3. ASSUME NEW j \in Jobs, StartFail(j) PROVE (KeyInv /\ CheckoutExclusive)'
    BY <1>3, <1>u DEF StartFail, rowVars, trackVars, jobVars, passVars, tickVars, pollVars,
       envVars
<1>4. ASSUME NEW j \in Jobs, StartBusy(j) PROVE (KeyInv /\ CheckoutExclusive)'
    BY <1>4, <1>u DEF StartBusy, rowVars, trackVars, jobVars, passVars, tickVars, pollVars,
       envVars
<1>5. ASSUME NEW j \in Jobs, Start(j) PROVE (KeyInv /\ CheckoutExclusive)'
    BY <1>5, <1>u DEF Start, rowVars, trackVars, jobVars, passVars, tickVars, pollVars, envVars
<1>6. ASSUME NEW j \in Jobs, NEW res \in {"ok", "err"}, Finish(j, res)
      PROVE  (KeyInv /\ CheckoutExclusive)'
    BY <1>6, <1>u DEF Finish, rowVars, trackVars, jobVars, passVars, tickVars, pollVars, envVars
<1>7. ASSUME NEW j \in Jobs, BarrierRelease(j) PROVE (KeyInv /\ CheckoutExclusive)'
    BY <1>7, <1>u DEF BarrierRelease, rowVars, trackVars, jobVars, passVars, tickVars,
       pollVars, envVars
<1>8. ASSUME NEW j \in Jobs, BarrierEnd(j) PROVE (KeyInv /\ CheckoutExclusive)'
  <2>1. \A i \in Jobs : trk'[i] \in {trk[i], NoKey}
    BY <1>8, <1>ty DEF BarrierEnd, rowVars, trackVars, jobVars, passVars, tickVars,
       pollVars, envVars
  <2>2. \A q \in Passes : Picked(q)' \subseteq Picked(q)
    BY <1>8, <1>k, <1>ty, <1>pa DEF BarrierEnd, rowVars, trackVars, jobVars, passVars,
       tickVars, pollVars, envVars, Picked, KeyInv
  <2>3. \A q \in Passes : /\ Picked(q)' # {} => seen'[q] = seen[q]
                          /\ at'[q] = "reserved" => cur'[q] \notin sel'[q]
    BY <1>8, <1>k, <1>h, <1>ty, <1>pa DEF BarrierEnd, rowVars, trackVars, jobVars, passVars,
       tickVars, pollVars, envVars, Picked, KeyInv, HandInv
  <2> QED
    BY <2>1, <2>2, <2>3, <1>m
<1>9. ASSUME NEW s \in Sessions, FgSession(s) PROVE (KeyInv /\ CheckoutExclusive)'
    BY <1>9, <1>u DEF FgSession, rowVars, trackVars, jobVars, passVars, tickVars, pollVars,
       envVars
<1>10. ASSUME NEW r \in Repos, Flip(r) PROVE (KeyInv /\ CheckoutExclusive)'
    BY <1>10, <1>u DEF Flip, rowVars, trackVars, jobVars, passVars, tickVars, pollVars, envVars
<1>11. ASSUME NEW r \in Repos, TickLock(r) PROVE (KeyInv /\ CheckoutExclusive)'
  <2>1. \A i \in Jobs : trk'[i] \in {trk[i], NoKey}
    BY <1>11, <1>ty DEF TickLock, Step, rowVars, trackVars, jobVars, passVars, tickVars,
       pollVars, envVars
  <2>2. \A q \in Passes : Picked(q)' \subseteq Picked(q)
    BY <1>11, <1>k, <1>ty, <1>pa DEF TickLock, Step, rowVars, trackVars, jobVars, passVars,
       tickVars, pollVars, envVars, Picked, KeyInv
  <2>3. \A q \in Passes : /\ Picked(q)' # {} => seen'[q] = seen[q]
                          /\ at'[q] = "reserved" => cur'[q] \notin sel'[q]
    BY <1>11, <1>k, <1>h, <1>ty, <1>pa DEF TickLock, Step, rowVars, trackVars, jobVars,
       passVars, tickVars, pollVars, envVars, Picked, KeyInv, HandInv
  <2> QED
    BY <2>1, <2>2, <2>3, <1>m
<1>12. ASSUME NEW k \in Keys, MaintCheck(k) PROVE (KeyInv /\ CheckoutExclusive)'
  <2>1. \A i \in Jobs : trk'[i] \in {trk[i], NoKey}
    BY <1>12, <1>ty DEF MaintCheck, Step, rowVars, trackVars, jobVars, passVars, tickVars,
       pollVars, envVars
  <2>2. \A q \in Passes : Picked(q)' \subseteq Picked(q)
    BY <1>12, <1>k, <1>ty, <1>pa DEF MaintCheck, Step, rowVars, trackVars, jobVars,
       passVars, tickVars, pollVars, envVars, Picked, KeyInv
  <2>3. \A q \in Passes : /\ Picked(q)' # {} => seen'[q] = seen[q]
                          /\ at'[q] = "reserved" => cur'[q] \notin sel'[q]
    BY <1>12, <1>k, <1>h, <1>ty, <1>pa DEF MaintCheck, Step, rowVars, trackVars, jobVars,
       passVars, tickVars, pollVars, envVars, Picked, KeyInv, HandInv
  <2> QED
    BY <2>1, <2>2, <2>3, <1>m
<1>13. CASE MaintDone
  <2>1. \A i \in Jobs : trk'[i] \in {trk[i], NoKey}
    BY <1>13, <1>ty DEF MaintDone, Step, rowVars, trackVars, jobVars, passVars, tickVars,
       pollVars, envVars
  <2>2. \A q \in Passes : Picked(q)' \subseteq Picked(q)
    BY <1>13, <1>k, <1>ty, <1>pa DEF MaintDone, Step, rowVars, trackVars, jobVars, passVars,
       tickVars, pollVars, envVars, Picked, KeyInv
  <2>3. \A q \in Passes : /\ Picked(q)' # {} => seen'[q] = seen[q]
                          /\ at'[q] = "reserved" => cur'[q] \notin sel'[q]
    BY <1>13, <1>k, <1>h, <1>ty, <1>pa DEF MaintDone, Step, rowVars, trackVars, jobVars,
       passVars, tickVars, pollVars, envVars, Picked, KeyInv, HandInv
  <2> QED
    BY <2>1, <2>2, <2>3, <1>m
<1>14. CASE TickPool
  <2>1. \A i \in Jobs : trk'[i] \in {trk[i], NoKey}
    BY <1>14, <1>ty DEF TickPool, rowVars, trackVars, jobVars, passVars, tickVars, pollVars,
       envVars
  <2>2. \A q \in Passes : Picked(q)' \subseteq Picked(q)
    BY <1>14, <1>k, <1>ty, <1>pa DEF TickPool, rowVars, trackVars, jobVars, passVars,
       tickVars, pollVars, envVars, Picked, KeyInv
  <2>3. \A q \in Passes : /\ Picked(q)' # {} => seen'[q] = seen[q]
                          /\ at'[q] = "reserved" => cur'[q] \notin sel'[q]
    BY <1>14, <1>k, <1>h, <1>ty, <1>pa DEF TickPool, rowVars, trackVars, jobVars, passVars,
       tickVars, pollVars, envVars, Picked, KeyInv, HandInv
  <2> QED
    BY <2>1, <2>2, <2>3, <1>m
<1>15. CASE TickList
  <2>1. \A i \in Jobs : trk'[i] \in {trk[i], NoKey}
    BY <1>15, <1>ty DEF TickList, Step, Lists, rowVars, trackVars, jobVars, passVars,
       tickVars, pollVars, envVars
  <2>2. \A q \in Passes : Picked(q)' \subseteq Picked(q)
    BY <1>15, <1>k, <1>ty, <1>pa DEF TickList, Step, Lists, rowVars, trackVars, jobVars,
       passVars, tickVars, pollVars, envVars, Picked, KeyInv
  <2>3. \A q \in Passes : /\ Picked(q)' # {} => seen'[q] = seen[q]
                          /\ at'[q] = "reserved" => cur'[q] \notin sel'[q]
    BY <1>15, <1>k, <1>h, <1>ty, <1>pa DEF TickList, Step, Lists, rowVars, trackVars,
       jobVars, passVars, tickVars, pollVars, envVars, Picked, KeyInv, HandInv
  <2> QED
    BY <2>1, <2>2, <2>3, <1>m
<1>16. CASE TickSelect
  <2>1. UNCHANGED <<trk, cur>> /\ at["tick"] = "select" /\ sel["tick"] = {}
    BY <1>16, <1>h, <1>ty, <1>pa DEF TickSelect, Step, HandInv, rowVars, trackVars, jobVars,
       passVars, tickVars, pollVars, envVars
  <2>2. \A q \in Passes : q # "tick" => at'[q] = at[q] /\ sel'[q] = sel[q] /\ seen'[q] = seen[q]
    BY <1>16, <1>ty, <1>pa DEF TickSelect, Step
  <2>3. at'["tick"] \in {"wait", "begin"} /\ Picked("tick")' = sel'["tick"]
    BY <1>16, <1>ty, <1>pa DEF TickSelect, Step, Picked
  <2> DEFINE sd == [checkouts |-> HeldKeys, runtimes |-> Runtimes(InFlight)]
             P == pend["tick"] \ InFlight
  <2>4. \A n : \A S \in Selections("tick", P, n, sd) :
          /\ \A j \in S : Key(j, seen["tick"]) \notin HeldKeys
          /\ \A j, k \in S : j # k => Key(j, seen["tick"]) # Key(k, seen["tick"])
    BY SelectedApart
  <2> HIDE DEF sd, P
  <2>5. \/ sel'["tick"] = {}
        \/ seen'["tick"] = seen["tick"] /\ \E n : sel'["tick"] \in Selections("tick", P, n, sd)
    BY <1>16, <2>1, <1>ty, <1>pa DEF TickSelect, sd, P
  <2>6. /\ \A j \in Picked("tick")' : Key(j, seen'["tick"]) \notin HeldKeys
        /\ \A j, k \in Picked("tick")' : j # k => Key(j, seen'["tick"]) # Key(k, seen'["tick"])
    BY <2>3, <2>4, <2>5
  <2>7. \A q \in Passes : q # "tick" => Picked(q)' = Picked(q)
    BY <2>1, <2>2 DEF Picked
  <2>8. HeldKeys' = HeldKeys /\ InFlight' = InFlight
    BY <2>1 DEF HeldKeys, InFlight
  <2>9. at'["tick"] # "reserved"
    BY <2>3
  <2> QED
    BY <2>1, <2>2, <2>6, <2>7, <2>8, <2>9, <1>k DEF KeyInv, CheckoutExclusive
<1>17. CASE TickUnlock
  <2>1. \A i \in Jobs : trk'[i] \in {trk[i], NoKey}
    BY <1>17, <1>ty DEF TickUnlock, rowVars, trackVars, jobVars, passVars, tickVars,
       pollVars, envVars
  <2>2. \A q \in Passes : Picked(q)' \subseteq Picked(q)
    BY <1>17, <1>k, <1>ty, <1>pa DEF TickUnlock, rowVars, trackVars, jobVars, passVars,
       tickVars, pollVars, envVars, Picked, KeyInv
  <2>3. \A q \in Passes : /\ Picked(q)' # {} => seen'[q] = seen[q]
                          /\ at'[q] = "reserved" => cur'[q] \notin sel'[q]
    BY <1>17, <1>k, <1>h, <1>ty, <1>pa DEF TickUnlock, rowVars, trackVars, jobVars,
       passVars, tickVars, pollVars, envVars, Picked, KeyInv, HandInv
  <2> QED
    BY <2>1, <2>2, <2>3, <1>m
<1>18. ASSUME NEW p \in Passes, NEW j \in Jobs, Reserve(p, j)
       PROVE  (KeyInv /\ CheckoutExclusive)'
  <2>1. \A i \in Jobs : trk'[i] \in {trk[i], NoKey}
    BY <1>18, <1>ty DEF Reserve, rowVars, trackVars, jobVars, passVars, tickVars, pollVars,
       envVars
  <2>2. \A q \in Passes : Picked(q)' \subseteq Picked(q)
    BY <1>18, <1>k, <1>ty, <1>pa DEF Reserve, rowVars, trackVars, jobVars, passVars,
       tickVars, pollVars, envVars, Picked, KeyInv
  <2>3. \A q \in Passes : /\ Picked(q)' # {} => seen'[q] = seen[q]
                          /\ at'[q] = "reserved" => cur'[q] \notin sel'[q]
    BY <1>18, <1>k, <1>h, <1>ty, <1>pa DEF Reserve, rowVars, trackVars, jobVars, passVars,
       tickVars, pollVars, envVars, Picked, KeyInv, HandInv
  <2> QED
    BY <2>1, <2>2, <2>3, <1>m
<1>19. ASSUME NEW p \in Passes, Begin(p) PROVE (KeyInv /\ CheckoutExclusive)'
  <2> DEFINE b == cur[p]
             key == Key(b, seen[p])
  <2>1. b \in Jobs /\ b \in Hand(p) /\ at[p] = "reserved"
    BY <1>19, <1>ty, <1>pa, <1>cu DEF Begin, Step, Hand, OnJob
  <2>2. /\ \A q \in Passes : q # p => at'[q] = at[q] /\ cur'[q] = cur[q]
        /\ at'[p] = "begin" /\ sel' = sel /\ seen' = seen
    BY <1>19, <1>ty, <1>pa DEF Begin, Step, rowVars, trackVars, jobVars, passVars, tickVars,
       pollVars, envVars
  <2>3. /\ Picked(p)' = sel[p] /\ sel[p] \subseteq Picked(p)
        /\ \A q \in Passes : q # p => Picked(q)' = Picked(q) /\ Picked(q) \subseteq Hand(q)
    BY <2>2, <1>ty, <1>cu, <1>pa DEF Picked, Hand, OnJob
  <2>4. CASE trk' = trk
    <3>1. \A q \in Passes : Picked(q)' \subseteq Picked(q)
      BY <2>3
    <3> QED
      BY <2>2, <2>4, <3>1, <1>k, <1>m DEF KeyInv
  <2>5. CASE b \notin InFlight /\ trk' = [trk EXCEPT ![b] = key]
    <3>1. key \in {b, KeyOf[b]} /\ key # NoKey
      BY <2>1, TrackerAssumption DEF Key, Keys
    <3>2. key \notin HeldKeys
      BY <2>1, <1>k, <1>pa DEF KeyInv, Picked
    <3>3. InFlight' = InFlight \cup {b} /\ \A i \in InFlight : trk'[i] = trk[i]
      BY <2>1, <2>5, <3>1, <1>ty DEF InFlight
    <3>4. trk'[b] = key /\ HeldKeys' = HeldKeys \cup {key}
      BY <2>1, <2>5, <3>3, <1>ty DEF HeldKeys
    <3>5. \A q \in Passes : \A j \in Picked(q)' : Key(j, seen'[q]) # key
      <4>1. ASSUME NEW j \in Picked(p)' PROVE Key(j, seen'[p]) # key
        BY <2>1, <2>2, <2>3, <4>1, <1>k, <1>pa DEF KeyInv, Picked
      <4>2. ASSUME NEW q \in Passes, q # p, NEW j \in Picked(q)'
            PROVE  Key(j, seen'[q]) # key
        <5>1. j \in Hand(q) /\ j \in Jobs
          BY <2>3, <4>2, <1>ty, <1>cu, <1>pa DEF Picked, Hand, OnJob
        <5>2. RepoOf[j] # RepoOf[b]
          BY <2>1, <4>2, <5>1, <1>h, <1>pa, OthersApart
        <5> QED
          BY <2>1, <3>1, <5>1, <5>2, KeysApart DEF Key
      <4> QED
        BY <4>1, <4>2
    <3>6. \A q \in Passes : Picked(q)' \subseteq Picked(q)
      BY <2>3
    <3>7. KeyInv'
      BY <2>1, <2>2, <2>5, <3>1, <3>3, <3>4, <3>5, <3>6, <1>k, <1>ty DEF KeyInv
    <3> QED
      BY <3>2, <3>3, <3>4, <3>7, <1>k DEF CheckoutExclusive, HeldKeys
  <2>6. trk' = trk \/ (b \notin InFlight /\ trk' = [trk EXCEPT ![b] = key])
    BY <1>19 DEF Begin, CanBegin
  <2> QED
    BY <2>4, <2>5, <2>6
<1>20. ASSUME NEW r \in Repos, NEW j \in Jobs, PoolReap(r, j)
       PROVE  (KeyInv /\ CheckoutExclusive)'
  <2>1. \A i \in Jobs : trk'[i] \in {trk[i], NoKey}
    BY <1>20, <1>ty DEF PoolReap, rowVars, trackVars, jobVars, passVars, tickVars, pollVars,
       envVars
  <2>2. \A q \in Passes : Picked(q)' \subseteq Picked(q)
    BY <1>20, <1>k, <1>ty, <1>pa DEF PoolReap, rowVars, trackVars, jobVars, passVars,
       tickVars, pollVars, envVars, Picked, KeyInv
  <2>3. \A q \in Passes : /\ Picked(q)' # {} => seen'[q] = seen[q]
                          /\ at'[q] = "reserved" => cur'[q] \notin sel'[q]
    BY <1>20, <1>k, <1>h, <1>ty, <1>pa DEF PoolReap, rowVars, trackVars, jobVars, passVars,
       tickVars, pollVars, envVars, Picked, KeyInv, HandInv
  <2> QED
    BY <2>1, <2>2, <2>3, <1>m
<1>21. ASSUME NEW r \in Repos, PoolEnd(r) PROVE (KeyInv /\ CheckoutExclusive)'
  <2>1. \A i \in Jobs : trk'[i] \in {trk[i], NoKey}
    BY <1>21, <1>ty DEF PoolEnd, Step, rowVars, trackVars, jobVars, passVars, tickVars,
       pollVars, envVars
  <2>2. \A q \in Passes : Picked(q)' \subseteq Picked(q)
    BY <1>21, <1>k, <1>ty, <1>pa DEF PoolEnd, Step, rowVars, trackVars, jobVars, passVars,
       tickVars, pollVars, envVars, Picked, KeyInv
  <2>3. \A q \in Passes : /\ Picked(q)' # {} => seen'[q] = seen[q]
                          /\ at'[q] = "reserved" => cur'[q] \notin sel'[q]
    BY <1>21, <1>k, <1>h, <1>ty, <1>pa DEF PoolEnd, Step, rowVars, trackVars, jobVars,
       passVars, tickVars, pollVars, envVars, Picked, KeyInv, HandInv
  <2> QED
    BY <2>1, <2>2, <2>3, <1>m
<1>22. ASSUME NEW r \in Repos, PoolRelease(r) PROVE (KeyInv /\ CheckoutExclusive)'
  <2>1. \A i \in Jobs : trk'[i] \in {trk[i], NoKey}
    BY <1>22, <1>ty DEF PoolRelease, Step, rowVars, trackVars, jobVars, passVars, tickVars,
       pollVars, envVars
  <2>2. \A q \in Passes : Picked(q)' \subseteq Picked(q)
    BY <1>22, <1>k, <1>ty, <1>pa DEF PoolRelease, Step, rowVars, trackVars, jobVars,
       passVars, tickVars, pollVars, envVars, Picked, KeyInv
  <2>3. \A q \in Passes : /\ Picked(q)' # {} => seen'[q] = seen[q]
                          /\ at'[q] = "reserved" => cur'[q] \notin sel'[q]
    BY <1>22, <1>k, <1>h, <1>ty, <1>pa DEF PoolRelease, Step, rowVars, trackVars, jobVars,
       passVars, tickVars, pollVars, envVars, Picked, KeyInv, HandInv
  <2> QED
    BY <2>1, <2>2, <2>3, <1>m
<1>23. ASSUME NEW r \in Repos, PoolList(r) PROVE (KeyInv /\ CheckoutExclusive)'
  <2>1. \A i \in Jobs : trk'[i] \in {trk[i], NoKey}
    BY <1>23, <1>ty DEF PoolList, Lists, rowVars, trackVars, jobVars, passVars, tickVars,
       pollVars, envVars
  <2>2. \A q \in Passes : Picked(q)' \subseteq Picked(q)
    BY <1>23, <1>k, <1>ty, <1>pa DEF PoolList, Lists, rowVars, trackVars, jobVars, passVars,
       tickVars, pollVars, envVars, Picked, KeyInv
  <2>3. \A q \in Passes : /\ Picked(q)' # {} => seen'[q] = seen[q]
                          /\ at'[q] = "reserved" => cur'[q] \notin sel'[q]
    BY <1>23, <1>k, <1>h, <1>ty, <1>pa DEF PoolList, Lists, rowVars, trackVars, jobVars,
       passVars, tickVars, pollVars, envVars, Picked, KeyInv, HandInv
  <2> QED
    BY <2>1, <2>2, <2>3, <1>m
<1>24. ASSUME NEW r \in Repos, PoolSelect(r) PROVE (KeyInv /\ CheckoutExclusive)'
  <2>1. UNCHANGED <<trk, cur>> /\ at[r] = "select" /\ sel[r] = {}
    BY <1>24, <1>h, <1>ty, <1>pa DEF PoolSelect, Step, HandInv, rowVars, trackVars, jobVars,
       passVars, tickVars, pollVars, envVars
  <2>2. \A q \in Passes : q # r => at'[q] = at[q] /\ sel'[q] = sel[q] /\ seen'[q] = seen[q]
    BY <1>24, <1>ty, <1>pa DEF PoolSelect, Step
  <2>3. at'[r] \in {"wait", "begin"} /\ Picked(r)' = sel'[r]
    BY <1>24, <1>ty, <1>pa DEF PoolSelect, Step, Picked
  <2> DEFINE sd == [checkouts |-> HeldKeys, runtimes |-> Runtimes(InFlight)]
             P == pend[r] \ (Bouncing(r) \cup InFlight)
  <2>4. \A n : \A S \in Selections(r, P, n, sd) :
          /\ \A j \in S : Key(j, seen[r]) \notin HeldKeys
          /\ \A j, k \in S : j # k => Key(j, seen[r]) # Key(k, seen[r])
    BY SelectedApart
  <2> HIDE DEF sd, P
  <2>5. \/ sel'[r] = {}
        \/ seen'[r] = seen[r] /\ \E n : sel'[r] \in Selections(r, P, n, sd)
    <3> DEFINE n == Most(Slots(r, Cardinality(Own(r))))
    <3>1. CASE n = 0
      BY <1>24, <2>1, <3>1 DEF PoolSelect
    <3>2. CASE n # 0
      <4>1. /\ \E S \in Selections(r, P, n, sd) : sel' = [sel EXCEPT ![r] = S]
            /\ seen' = seen
        BY <1>24, <3>2 DEF PoolSelect, sd, P
      <4> HIDE DEF n
      <4> QED
        BY <4>1, <1>ty, <1>pa
    <3> QED
      BY <3>1, <3>2
  <2>6. /\ \A j \in Picked(r)' : Key(j, seen'[r]) \notin HeldKeys
        /\ \A j, k \in Picked(r)' : j # k => Key(j, seen'[r]) # Key(k, seen'[r])
    BY <2>3, <2>4, <2>5
  <2>7. \A q \in Passes : q # r => Picked(q)' = Picked(q)
    BY <2>1, <2>2 DEF Picked
  <2>8. HeldKeys' = HeldKeys /\ InFlight' = InFlight
    BY <2>1 DEF HeldKeys, InFlight
  <2>9. at'[r] # "reserved"
    BY <2>3
  <2> QED
    BY <2>1, <2>2, <2>6, <2>7, <2>8, <2>9, <1>k DEF KeyInv, CheckoutExclusive
<1>25. ASSUME NEW r \in Repos, NEW j \in Jobs, PoolIsolate(r, j)
       PROVE  (KeyInv /\ CheckoutExclusive)'
  <2>1. \A i \in Jobs : trk'[i] \in {trk[i], NoKey}
    BY <1>25, <1>ty DEF PoolIsolate, rowVars, trackVars, jobVars, passVars, tickVars,
       pollVars, envVars
  <2>2. \A q \in Passes : Picked(q)' \subseteq Picked(q)
    BY <1>25, <1>k, <1>ty, <1>pa DEF PoolIsolate, rowVars, trackVars, jobVars, passVars,
       tickVars, pollVars, envVars, Picked, KeyInv
  <2>3. \A q \in Passes : /\ Picked(q)' # {} => seen'[q] = seen[q]
                          /\ at'[q] = "reserved" => cur'[q] \notin sel'[q]
    BY <1>25, <1>k, <1>h, <1>ty, <1>pa DEF PoolIsolate, rowVars, trackVars, jobVars,
       passVars, tickVars, pollVars, envVars, Picked, KeyInv, HandInv
  <2> QED
    BY <2>1, <2>2, <2>3, <1>m
<1>26. ASSUME NEW r \in Repos, PoolIsolatedBegin(r) PROVE (KeyInv /\ CheckoutExclusive)'
  <2> DEFINE b == cur[r]
             key == b
  <2>1. b \in Jobs /\ b \in Hand(r) /\ at[r] = "isolated"
    BY <1>26, <1>ty, <1>pa, <1>cu DEF PoolIsolatedBegin, Step, Hand, OnJob
  <2>2. /\ \A q \in Passes : q # r => at'[q] = at[q] /\ cur'[q] = cur[q]
        /\ at'[r] = "begin" /\ sel' = sel /\ seen' = seen
    BY <1>26, <1>ty, <1>pa DEF PoolIsolatedBegin, Step, rowVars, trackVars, jobVars,
       passVars, tickVars, pollVars, envVars
  <2>3. /\ Picked(r)' = sel[r] /\ sel[r] \subseteq Picked(r)
        /\ \A q \in Passes : q # r => Picked(q)' = Picked(q) /\ Picked(q) \subseteq Hand(q)
    BY <2>2, <1>ty, <1>cu, <1>pa DEF Picked, Hand, OnJob
  <2>4. CASE trk' = trk
    <3>1. \A q \in Passes : Picked(q)' \subseteq Picked(q)
      BY <2>3
    <3> QED
      BY <2>2, <2>4, <3>1, <1>k, <1>m DEF KeyInv
  <2>5. CASE b \notin InFlight /\ trk' = [trk EXCEPT ![b] = key]
    <3>1. key \in {b, KeyOf[b]} /\ key # NoKey
      BY <2>1, TrackerAssumption DEF Key, Keys
    <3>2. key \notin HeldKeys
      BY <2>1, <2>5, <1>k, KeysApart DEF KeyInv, HeldKeys, InFlight
    <3>3. InFlight' = InFlight \cup {b} /\ \A i \in InFlight : trk'[i] = trk[i]
      BY <2>1, <2>5, <3>1, <1>ty DEF InFlight
    <3>4. trk'[b] = key /\ HeldKeys' = HeldKeys \cup {key}
      BY <2>1, <2>5, <3>3, <1>ty DEF HeldKeys
    <3>5. \A q \in Passes : \A j \in Picked(q)' : Key(j, seen'[q]) # key
      <4>1. ASSUME NEW j \in Picked(r)' PROVE Key(j, seen'[r]) # key
        BY <2>1, <2>3, <4>1, <1>h, <1>pa DEF HandInv
      <4>2. ASSUME NEW q \in Passes, q # r, NEW j \in Picked(q)'
            PROVE  Key(j, seen'[q]) # key
        <5>1. j \in Hand(q) /\ j \in Jobs
          BY <2>3, <4>2, <1>ty, <1>cu, <1>pa DEF Picked, Hand, OnJob
        <5>2. RepoOf[j] # RepoOf[b]
          BY <2>1, <4>2, <5>1, <1>h, <1>pa, OthersApart
        <5> QED
          BY <2>1, <3>1, <5>1, <5>2, KeysApart DEF Key
      <4> QED
        BY <4>1, <4>2
    <3>6. \A q \in Passes : Picked(q)' \subseteq Picked(q)
      BY <2>3
    <3>7. KeyInv'
      BY <2>1, <2>2, <2>5, <3>1, <3>3, <3>4, <3>5, <3>6, <1>k, <1>ty DEF KeyInv
    <3> QED
      BY <3>2, <3>3, <3>4, <3>7, <1>k DEF CheckoutExclusive, HeldKeys
  <2>6. trk' = trk \/ (b \notin InFlight /\ trk' = [trk EXCEPT ![b] = key])
    BY <1>26 DEF PoolIsolatedBegin, CanBegin
  <2> QED
    BY <2>4, <2>5, <2>6
<1>27. ASSUME NEW r \in Repos, PoolDispatched(r) PROVE (KeyInv /\ CheckoutExclusive)'
  <2>1. \A i \in Jobs : trk'[i] \in {trk[i], NoKey}
    BY <1>27, <1>ty DEF PoolDispatched, Step, rowVars, trackVars, jobVars, passVars,
       tickVars, pollVars, envVars
  <2>2. \A q \in Passes : Picked(q)' \subseteq Picked(q)
    BY <1>27, <1>k, <1>ty, <1>pa DEF PoolDispatched, Step, rowVars, trackVars, jobVars,
       passVars, tickVars, pollVars, envVars, Picked, KeyInv
  <2>3. \A q \in Passes : /\ Picked(q)' # {} => seen'[q] = seen[q]
                          /\ at'[q] = "reserved" => cur'[q] \notin sel'[q]
    BY <1>27, <1>k, <1>h, <1>ty, <1>pa DEF PoolDispatched, Step, rowVars, trackVars,
       jobVars, passVars, tickVars, pollVars, envVars, Picked, KeyInv, HandInv
  <2> QED
    BY <2>1, <2>2, <2>3, <1>m
<1>28. ASSUME NEW r \in Repos, PoolWait(r) PROVE (KeyInv /\ CheckoutExclusive)'
  <2>1. \A i \in Jobs : trk'[i] \in {trk[i], NoKey}
    BY <1>28, <1>ty DEF PoolWait, Step, rowVars, trackVars, jobVars, passVars, tickVars,
       pollVars, envVars
  <2>2. \A q \in Passes : Picked(q)' \subseteq Picked(q)
    BY <1>28, <1>k, <1>ty, <1>pa DEF PoolWait, Step, rowVars, trackVars, jobVars, passVars,
       tickVars, pollVars, envVars, Picked, KeyInv
  <2>3. \A q \in Passes : /\ Picked(q)' # {} => seen'[q] = seen[q]
                          /\ at'[q] = "reserved" => cur'[q] \notin sel'[q]
    BY <1>28, <1>k, <1>h, <1>ty, <1>pa DEF PoolWait, Step, rowVars, trackVars, jobVars,
       passVars, tickVars, pollVars, envVars, Picked, KeyInv, HandInv
  <2> QED
    BY <2>1, <2>2, <2>3, <1>m
<1>29. ASSUME NEW r \in Repos, PollLock(r) PROVE (KeyInv /\ CheckoutExclusive)'
    BY <1>29, <1>u DEF PollLock, rowVars, trackVars, jobVars, passVars, tickVars, pollVars,
       envVars
<1>30. CASE PollCheck
    BY <1>30, <1>u DEF PollCheck, rowVars, trackVars, jobVars, passVars, tickVars, pollVars,
       envVars
<1>31. CASE PollDone
    BY <1>31, <1>u DEF PollDone, rowVars, trackVars, jobVars, passVars, tickVars, pollVars,
       envVars
<1>32. CASE Stop
    BY <1>32, <1>u DEF Stop, rowVars, trackVars, jobVars, passVars, tickVars, pollVars, envVars
<1>33. CASE Drain
    BY <1>33, <1>u DEF Drain, rowVars, trackVars, jobVars, passVars, tickVars, pollVars, envVars
<1>34. CASE Down
  <2>1. \A i \in Jobs : trk'[i] \in {trk[i], NoKey}
    BY <1>34, <1>ty DEF Down, rowVars, trackVars, jobVars, passVars, tickVars, pollVars, envVars
  <2>2. \A q \in Passes : Picked(q)' \subseteq Picked(q)
    BY <1>34, <1>k, <1>ty, <1>pa DEF Down, rowVars, trackVars, jobVars, passVars, tickVars,
       pollVars, envVars, Picked, KeyInv
  <2>3. \A q \in Passes : /\ Picked(q)' # {} => seen'[q] = seen[q]
                          /\ at'[q] = "reserved" => cur'[q] \notin sel'[q]
    BY <1>34, <1>k, <1>h, <1>ty, <1>pa DEF Down, rowVars, trackVars, jobVars, passVars,
       tickVars, pollVars, envVars, Picked, KeyInv, HandInv
  <2> QED
    BY <2>1, <2>2, <2>3, <1>m
<1>35. CASE Up
    BY <1>35, <1>u DEF Up, rowVars, trackVars, jobVars, passVars, tickVars, pollVars, envVars
<1>36. CASE UNCHANGED vars
    BY <1>36, <1>u DEF vars, rowVars, trackVars, jobVars, passVars, tickVars, pollVars, envVars
<1>37. QED
    BY <1>1, <1>2, <1>3, <1>4, <1>5, <1>6, <1>7, <1>8, <1>9, <1>10, <1>11,
       <1>12, <1>13, <1>14, <1>15, <1>16, <1>17, <1>18, <1>19, <1>20, <1>21,
       <1>22, <1>23, <1>24, <1>25, <1>26, <1>27, <1>28, <1>29, <1>30, <1>31,
       <1>32, <1>33, <1>34, <1>35, <1>36
    DEF Next, JobStep, TickStep, PoolStep, PollStep, Passes

\* While the tick mutates or the poll runs in full, nothing begins in the way.
LEMMA QuietStep ==
    Base /\ HandInv /\ MaintInv /\ MaintQuiet /\ PollQuiet /\ [Next]_vars =>
        (MaintInv /\ MaintQuiet /\ PollQuiet)'
<1> SUFFICES ASSUME Base, HandInv, MaintInv, MaintQuiet, PollQuiet, [Next]_vars
             PROVE  (MaintInv /\ MaintQuiet /\ PollQuiet)'
    OBVIOUS
<1>q. MaintInv /\ MaintQuiet /\ PollQuiet
  OBVIOUS
<1>ty. /\ at \in [Passes -> Spots] /\ cur \in [Passes -> Jobs \cup {NoJob}]
       /\ trk \in [Jobs -> Keys \cup {NoKey}]
  BY DEF Base, TypeOK
<1>cu. \A q \in Passes : cur[q] # NoJob <=> at[q] \in OnJob
  BY DEF Base, TypeOK, OnJob
<1>pa. /\ "tick" \in Passes /\ Repos \subseteq Passes /\ "tick" \notin Repos /\ NoJob \notin Jobs
  BY TrackerAssumption DEF Passes
<1>ps. /\ \A r \in Repos : r \in pools <=> at[r] # "idle"
       /\ trepo \in Repos \cup {NoRepo} /\ (at["tick"] = "idle" <=> trepo = NoRepo)
       /\ poll \in Repos \cup {NoRepo} /\ (pollAt = "idle" <=> poll = NoRepo)
       /\ trepo # NoRepo => mutex[trepo] = "tick"
       /\ poll # NoRepo => mutex[poll] = "poll"
       /\ at["tick"] = "mutating" => trepo \notin pools
       /\ at["tick"] = "mutating" <=> mkey # NoKey
  BY DEF Base, TypeOK, PassInv
<1>m. ASSUME \A j \in Jobs : trk'[j] \in {trk[j], NoKey},
             mkey' = NoKey \/ (mkey' = mkey /\ trepo' = trepo),
             pools' \subseteq pools, pollAt' = "full" => pollAt = "full" /\ poll' = poll
      PROVE  (MaintInv /\ MaintQuiet /\ PollQuiet)'
  <2>1. HeldKeys' \subseteq HeldKeys /\ InFlight' \subseteq InFlight
    BY <1>m DEF HeldKeys, InFlight
  <2> QED
    BY <1>m, <2>1, <1>q DEF MaintInv, MaintQuiet, PollQuiet, InFlightIn
<1>u. ASSUME UNCHANGED <<trk, pools, trepo, mkey, poll, pollAt>>
      PROVE  (MaintInv /\ MaintQuiet /\ PollQuiet)'
  BY <1>u, <1>q DEF MaintInv, MaintQuiet, PollQuiet, HeldKeys, InFlightIn, InFlight
<1>1. ASSUME NEW j \in Jobs, Enqueue(j) PROVE (MaintInv /\ MaintQuiet /\ PollQuiet)'
    BY <1>1, <1>u DEF Enqueue, rowVars, trackVars, jobVars, passVars, tickVars, pollVars,
       envVars
<1>2. ASSUME NEW j \in Jobs, Recover(j) PROVE (MaintInv /\ MaintQuiet /\ PollQuiet)'
    BY <1>2, <1>u DEF Recover, rowVars, trackVars, jobVars, passVars, tickVars, pollVars,
       envVars
<1>3. ASSUME NEW j \in Jobs, StartFail(j) PROVE (MaintInv /\ MaintQuiet /\ PollQuiet)'
    BY <1>3, <1>u DEF StartFail, rowVars, trackVars, jobVars, passVars, tickVars, pollVars,
       envVars
<1>4. ASSUME NEW j \in Jobs, StartBusy(j) PROVE (MaintInv /\ MaintQuiet /\ PollQuiet)'
    BY <1>4, <1>u DEF StartBusy, rowVars, trackVars, jobVars, passVars, tickVars, pollVars,
       envVars
<1>5. ASSUME NEW j \in Jobs, Start(j) PROVE (MaintInv /\ MaintQuiet /\ PollQuiet)'
    BY <1>5, <1>u DEF Start, rowVars, trackVars, jobVars, passVars, tickVars, pollVars, envVars
<1>6. ASSUME NEW j \in Jobs, NEW res \in {"ok", "err"}, Finish(j, res)
      PROVE  (MaintInv /\ MaintQuiet /\ PollQuiet)'
    BY <1>6, <1>u DEF Finish, rowVars, trackVars, jobVars, passVars, tickVars, pollVars, envVars
<1>7. ASSUME NEW j \in Jobs, BarrierRelease(j) PROVE (MaintInv /\ MaintQuiet /\ PollQuiet)'
    BY <1>7, <1>u DEF BarrierRelease, rowVars, trackVars, jobVars, passVars, tickVars,
       pollVars, envVars
<1>8. ASSUME NEW j \in Jobs, BarrierEnd(j) PROVE (MaintInv /\ MaintQuiet /\ PollQuiet)'
  <2>1. /\ \A i \in Jobs : trk'[i] \in {trk[i], NoKey}
        /\ mkey' = NoKey \/ (mkey' = mkey /\ trepo' = trepo)
    BY <1>8, <1>ty, <1>pa, <1>ps DEF BarrierEnd, rowVars, trackVars, jobVars, passVars,
       tickVars, pollVars, envVars
  <2>2. pools' \subseteq pools /\ (pollAt' = "full" => pollAt = "full" /\ poll' = poll)
    BY <1>8, <1>ty, <1>pa, <1>ps DEF BarrierEnd, rowVars, trackVars, jobVars, passVars,
       tickVars, pollVars, envVars
  <2> QED
    BY <2>1, <2>2, <1>m
<1>9. ASSUME NEW s \in Sessions, FgSession(s) PROVE (MaintInv /\ MaintQuiet /\ PollQuiet)'
    BY <1>9, <1>u DEF FgSession, rowVars, trackVars, jobVars, passVars, tickVars, pollVars,
       envVars
<1>10. ASSUME NEW r \in Repos, Flip(r) PROVE (MaintInv /\ MaintQuiet /\ PollQuiet)'
    BY <1>10, <1>u DEF Flip, rowVars, trackVars, jobVars, passVars, tickVars, pollVars, envVars
<1>11. ASSUME NEW r \in Repos, TickLock(r) PROVE (MaintInv /\ MaintQuiet /\ PollQuiet)'
  <2>1. /\ \A i \in Jobs : trk'[i] \in {trk[i], NoKey}
        /\ mkey' = NoKey \/ (mkey' = mkey /\ trepo' = trepo)
    BY <1>11, <1>ty, <1>pa, <1>ps DEF TickLock, Step, rowVars, trackVars, jobVars, passVars,
       tickVars, pollVars, envVars
  <2>2. pools' \subseteq pools /\ (pollAt' = "full" => pollAt = "full" /\ poll' = poll)
    BY <1>11, <1>ty, <1>pa, <1>ps DEF TickLock, Step, rowVars, trackVars, jobVars, passVars,
       tickVars, pollVars, envVars
  <2> QED
    BY <2>1, <2>2, <1>m
<1>12. ASSUME NEW k \in Keys, MaintCheck(k) PROVE (MaintInv /\ MaintQuiet /\ PollQuiet)'
  <2>1. /\ mkey' = k /\ k \notin HeldKeys /\ HeldKeys' = HeldKeys /\ trepo' = trepo
        /\ k = trepo \/ \E j \in Jobs : RepoOf[j] = trepo /\ k = Key(j, iso)
    BY <1>12 DEF MaintCheck, CheckoutHeld, HeldKeys, InFlight, rowVars, trackVars, jobVars,
       passVars, tickVars, pollVars, envVars
  <2>2. MaintInv' /\ MaintQuiet'
    BY <2>1 DEF MaintInv, MaintQuiet, Key
  <2>3. PollQuiet'
    BY <1>12, <1>q DEF MaintCheck, PollQuiet, InFlightIn, InFlight, rowVars, trackVars,
       jobVars, passVars, tickVars, pollVars, envVars
  <2> QED
    BY <2>2, <2>3
<1>13. CASE MaintDone
  <2>1. /\ \A i \in Jobs : trk'[i] \in {trk[i], NoKey}
        /\ mkey' = NoKey \/ (mkey' = mkey /\ trepo' = trepo)
    BY <1>13, <1>ty, <1>pa, <1>ps DEF MaintDone, Step, rowVars, trackVars, jobVars,
       passVars, tickVars, pollVars, envVars
  <2>2. pools' \subseteq pools /\ (pollAt' = "full" => pollAt = "full" /\ poll' = poll)
    BY <1>13, <1>ty, <1>pa, <1>ps DEF MaintDone, Step, rowVars, trackVars, jobVars,
       passVars, tickVars, pollVars, envVars
  <2> QED
    BY <2>1, <2>2, <1>m
<1>14. CASE TickPool
  <2>1. UNCHANGED <<trk, trepo, mkey, poll, pollAt>> /\ pools' \subseteq pools \cup {trepo}
    BY <1>14 DEF TickPool, rowVars, trackVars, jobVars, passVars, tickVars, pollVars, envVars
  <2>2. pollAt = "full" => poll # trepo
    BY <1>14, <1>ps DEF TickPool
  <2> QED
    BY <2>1, <2>2, <1>q DEF MaintInv, MaintQuiet, PollQuiet, HeldKeys, InFlightIn, InFlight
<1>15. CASE TickList
    BY <1>15, <1>u DEF TickList, rowVars, trackVars, jobVars, passVars, tickVars, pollVars,
       envVars
<1>16. CASE TickSelect
    BY <1>16, <1>u DEF TickSelect, rowVars, trackVars, jobVars, passVars, tickVars,
       pollVars, envVars
<1>17. CASE TickUnlock
  <2>1. /\ \A i \in Jobs : trk'[i] \in {trk[i], NoKey}
        /\ mkey' = NoKey \/ (mkey' = mkey /\ trepo' = trepo)
    BY <1>17, <1>ty, <1>pa, <1>ps DEF TickUnlock, rowVars, trackVars, jobVars, passVars,
       tickVars, pollVars, envVars
  <2>2. pools' \subseteq pools /\ (pollAt' = "full" => pollAt = "full" /\ poll' = poll)
    BY <1>17, <1>ty, <1>pa, <1>ps DEF TickUnlock, rowVars, trackVars, jobVars, passVars,
       tickVars, pollVars, envVars
  <2> QED
    BY <2>1, <2>2, <1>m
<1>18. ASSUME NEW p \in Passes, NEW j \in Jobs, Reserve(p, j)
       PROVE  (MaintInv /\ MaintQuiet /\ PollQuiet)'
    BY <1>18, <1>u DEF Reserve, rowVars, trackVars, jobVars, passVars, tickVars, pollVars,
       envVars
<1>19. ASSUME NEW p \in Passes, Begin(p) PROVE (MaintInv /\ MaintQuiet /\ PollQuiet)'
  <2> DEFINE b == cur[p]
             key == Key(b, seen[p])
  <2>1. b \in Jobs /\ b \in Hand(p) /\ at[p] = "reserved"
    BY <1>19, <1>ty, <1>pa, <1>cu DEF Begin, Step, Hand, OnJob
  <2>2. RepoOf[b] = RepoAt(p)
    BY <2>1, <1>pa DEF HandInv
  <2>3. UNCHANGED <<pools, trepo, mkey, poll, pollAt>>
    BY <1>19 DEF Begin, rowVars, trackVars, jobVars, passVars, tickVars, pollVars, envVars
  <2>4. trk' = trk \/ (b \notin InFlight /\ trk' = [trk EXCEPT ![b] = key])
    BY <1>19 DEF Begin, CanBegin
  <2>5. CASE trk' = trk
    BY <2>3, <2>5, <1>u
  <2>6. CASE b \notin InFlight /\ trk' = [trk EXCEPT ![b] = key]
    <3>1. key \in {b, KeyOf[b]} /\ key # NoKey
      BY <2>1, TrackerAssumption DEF Key, Keys
    <3>2. InFlight' = InFlight \cup {b} /\ HeldKeys' = HeldKeys \cup {key}
      <4>1. InFlight' = InFlight \cup {b} /\ \A i \in InFlight : trk'[i] = trk[i]
        BY <2>1, <2>6, <3>1, <1>ty DEF InFlight
      <4> QED
        BY <2>1, <2>6, <4>1, <1>ty DEF HeldKeys
    <3>3. mkey # NoKey => trepo \in Repos /\ RepoOf[b] # trepo
      BY <2>1, <2>2, <1>ps, <1>pa DEF RepoAt, Passes
    <3>4. mkey # NoKey => mkey # key
      <4> SUFFICES ASSUME mkey # NoKey PROVE mkey # key
        OBVIOUS
      <4>1. mkey = trepo \/ \E j \in Jobs : RepoOf[j] = trepo /\ mkey \in {j, KeyOf[j]}
        BY <1>q DEF MaintInv
      <4>2. CASE mkey = trepo
        BY <2>1, <3>1, <3>3, <4>2, TrackerAssumption
      <4>3. CASE \E j \in Jobs : RepoOf[j] = trepo /\ mkey \in {j, KeyOf[j]}
        BY <2>1, <3>1, <3>3, <4>3, KeysApart
      <4> QED
        BY <4>1, <4>2, <4>3
    <3>5. pollAt = "full" => RepoOf[b] # poll
      BY <2>1, <2>2, <1>ps, <1>pa, <1>q DEF RepoAt, Passes, PollQuiet
    <3> HIDE DEF key
    <3> QED
      BY <2>3, <3>2, <3>4, <3>5, <1>q DEF MaintInv, MaintQuiet, PollQuiet, InFlightIn
  <2> QED
    BY <2>4, <2>5, <2>6
<1>20. ASSUME NEW r \in Repos, NEW j \in Jobs, PoolReap(r, j)
       PROVE  (MaintInv /\ MaintQuiet /\ PollQuiet)'
    BY <1>20, <1>u DEF PoolReap, rowVars, trackVars, jobVars, passVars, tickVars, pollVars,
       envVars
<1>21. ASSUME NEW r \in Repos, PoolEnd(r) PROVE (MaintInv /\ MaintQuiet /\ PollQuiet)'
  <2>1. /\ \A i \in Jobs : trk'[i] \in {trk[i], NoKey}
        /\ mkey' = NoKey \/ (mkey' = mkey /\ trepo' = trepo)
    BY <1>21, <1>ty, <1>pa, <1>ps DEF PoolEnd, Step, rowVars, trackVars, jobVars, passVars,
       tickVars, pollVars, envVars
  <2>2. pools' \subseteq pools /\ (pollAt' = "full" => pollAt = "full" /\ poll' = poll)
    BY <1>21, <1>ty, <1>pa, <1>ps DEF PoolEnd, Step, rowVars, trackVars, jobVars, passVars,
       tickVars, pollVars, envVars
  <2> QED
    BY <2>1, <2>2, <1>m
<1>22. ASSUME NEW r \in Repos, PoolRelease(r) PROVE (MaintInv /\ MaintQuiet /\ PollQuiet)'
    BY <1>22, <1>u DEF PoolRelease, rowVars, trackVars, jobVars, passVars, tickVars,
       pollVars, envVars
<1>23. ASSUME NEW r \in Repos, PoolList(r) PROVE (MaintInv /\ MaintQuiet /\ PollQuiet)'
    BY <1>23, <1>u DEF PoolList, rowVars, trackVars, jobVars, passVars, tickVars, pollVars,
       envVars
<1>24. ASSUME NEW r \in Repos, PoolSelect(r) PROVE (MaintInv /\ MaintQuiet /\ PollQuiet)'
    BY <1>24, <1>u DEF PoolSelect, rowVars, trackVars, jobVars, passVars, tickVars,
       pollVars, envVars
<1>25. ASSUME NEW r \in Repos, NEW j \in Jobs, PoolIsolate(r, j)
       PROVE  (MaintInv /\ MaintQuiet /\ PollQuiet)'
    BY <1>25, <1>u DEF PoolIsolate, rowVars, trackVars, jobVars, passVars, tickVars,
       pollVars, envVars
<1>26. ASSUME NEW r \in Repos, PoolIsolatedBegin(r) PROVE (MaintInv /\ MaintQuiet /\ PollQuiet)'
  <2> DEFINE b == cur[r]
             key == b
  <2>1. b \in Jobs /\ b \in Hand(r) /\ at[r] = "isolated"
    BY <1>26, <1>ty, <1>pa, <1>cu DEF PoolIsolatedBegin, Step, Hand, OnJob
  <2>2. RepoOf[b] = RepoAt(r)
    BY <2>1, <1>pa DEF HandInv
  <2>3. UNCHANGED <<pools, trepo, mkey, poll, pollAt>>
    BY <1>26 DEF PoolIsolatedBegin, rowVars, trackVars, jobVars, passVars, tickVars,
       pollVars, envVars
  <2>4. trk' = trk \/ (b \notin InFlight /\ trk' = [trk EXCEPT ![b] = key])
    BY <1>26 DEF PoolIsolatedBegin, CanBegin
  <2>5. CASE trk' = trk
    BY <2>3, <2>5, <1>u
  <2>6. CASE b \notin InFlight /\ trk' = [trk EXCEPT ![b] = key]
    <3>1. key \in {b, KeyOf[b]} /\ key # NoKey
      BY <2>1, TrackerAssumption DEF Key, Keys
    <3>2. InFlight' = InFlight \cup {b} /\ HeldKeys' = HeldKeys \cup {key}
      <4>1. InFlight' = InFlight \cup {b} /\ \A i \in InFlight : trk'[i] = trk[i]
        BY <2>1, <2>6, <3>1, <1>ty DEF InFlight
      <4> QED
        BY <2>1, <2>6, <4>1, <1>ty DEF HeldKeys
    <3>3. mkey # NoKey => trepo \in Repos /\ RepoOf[b] # trepo
      BY <2>1, <2>2, <1>ps, <1>pa DEF RepoAt, Passes
    <3>4. mkey # NoKey => mkey # key
      <4> SUFFICES ASSUME mkey # NoKey PROVE mkey # key
        OBVIOUS
      <4>1. mkey = trepo \/ \E j \in Jobs : RepoOf[j] = trepo /\ mkey \in {j, KeyOf[j]}
        BY <1>q DEF MaintInv
      <4>2. CASE mkey = trepo
        BY <2>1, <3>1, <3>3, <4>2, TrackerAssumption
      <4>3. CASE \E j \in Jobs : RepoOf[j] = trepo /\ mkey \in {j, KeyOf[j]}
        BY <2>1, <3>1, <3>3, <4>3, KeysApart
      <4> QED
        BY <4>1, <4>2, <4>3
    <3>5. pollAt = "full" => RepoOf[b] # poll
      BY <2>1, <2>2, <1>ps, <1>pa, <1>q DEF RepoAt, Passes, PollQuiet
    <3> HIDE DEF key
    <3> QED
      BY <2>3, <3>2, <3>4, <3>5, <1>q DEF MaintInv, MaintQuiet, PollQuiet, InFlightIn
  <2> QED
    BY <2>4, <2>5, <2>6
<1>27. ASSUME NEW r \in Repos, PoolDispatched(r) PROVE (MaintInv /\ MaintQuiet /\ PollQuiet)'
    BY <1>27, <1>u DEF PoolDispatched, rowVars, trackVars, jobVars, passVars, tickVars,
       pollVars, envVars
<1>28. ASSUME NEW r \in Repos, PoolWait(r) PROVE (MaintInv /\ MaintQuiet /\ PollQuiet)'
  <2>1. /\ \A i \in Jobs : trk'[i] \in {trk[i], NoKey}
        /\ mkey' = NoKey \/ (mkey' = mkey /\ trepo' = trepo)
    BY <1>28, <1>ty, <1>pa, <1>ps DEF PoolWait, Step, rowVars, trackVars, jobVars, passVars,
       tickVars, pollVars, envVars
  <2>2. pools' \subseteq pools /\ (pollAt' = "full" => pollAt = "full" /\ poll' = poll)
    BY <1>28, <1>ty, <1>pa, <1>ps DEF PoolWait, Step, rowVars, trackVars, jobVars, passVars,
       tickVars, pollVars, envVars
  <2> QED
    BY <2>1, <2>2, <1>m
<1>29. ASSUME NEW r \in Repos, PollLock(r) PROVE (MaintInv /\ MaintQuiet /\ PollQuiet)'
  <2>1. /\ \A i \in Jobs : trk'[i] \in {trk[i], NoKey}
        /\ mkey' = NoKey \/ (mkey' = mkey /\ trepo' = trepo)
    BY <1>29, <1>ty, <1>pa, <1>ps DEF PollLock, rowVars, trackVars, jobVars, passVars,
       tickVars, pollVars, envVars
  <2>2. pools' \subseteq pools /\ (pollAt' = "full" => pollAt = "full" /\ poll' = poll)
    BY <1>29, <1>ty, <1>pa, <1>ps DEF PollLock, rowVars, trackVars, jobVars, passVars,
       tickVars, pollVars, envVars
  <2> QED
    BY <2>1, <2>2, <1>m
<1>30. CASE PollCheck
  <2>1. UNCHANGED <<trk, pools, trepo, mkey, poll>> /\ (pollAt' = "full" => ~Busy(poll))
    BY <1>30 DEF PollCheck, rowVars, trackVars, jobVars, passVars, tickVars, pollVars, envVars
  <2> QED
    BY <2>1, <1>q DEF MaintInv, MaintQuiet, PollQuiet, Busy, HeldKeys, InFlightIn, InFlight
<1>31. CASE PollDone
  <2>1. /\ \A i \in Jobs : trk'[i] \in {trk[i], NoKey}
        /\ mkey' = NoKey \/ (mkey' = mkey /\ trepo' = trepo)
    BY <1>31, <1>ty, <1>pa, <1>ps DEF PollDone, rowVars, trackVars, jobVars, passVars,
       tickVars, pollVars, envVars
  <2>2. pools' \subseteq pools /\ (pollAt' = "full" => pollAt = "full" /\ poll' = poll)
    BY <1>31, <1>ty, <1>pa, <1>ps DEF PollDone, rowVars, trackVars, jobVars, passVars,
       tickVars, pollVars, envVars
  <2> QED
    BY <2>1, <2>2, <1>m
<1>32. CASE Stop
    BY <1>32, <1>u DEF Stop, rowVars, trackVars, jobVars, passVars, tickVars, pollVars, envVars
<1>33. CASE Drain
    BY <1>33, <1>u DEF Drain, rowVars, trackVars, jobVars, passVars, tickVars, pollVars, envVars
<1>34. CASE Down
  <2>1. /\ \A i \in Jobs : trk'[i] \in {trk[i], NoKey}
        /\ mkey' = NoKey \/ (mkey' = mkey /\ trepo' = trepo)
    BY <1>34, <1>ty, <1>pa, <1>ps DEF Down, rowVars, trackVars, jobVars, passVars, tickVars,
       pollVars, envVars
  <2>2. pools' \subseteq pools /\ (pollAt' = "full" => pollAt = "full" /\ poll' = poll)
    BY <1>34, <1>ty, <1>pa, <1>ps DEF Down, rowVars, trackVars, jobVars, passVars, tickVars,
       pollVars, envVars
  <2> QED
    BY <2>1, <2>2, <1>m
<1>35. CASE Up
    BY <1>35, <1>u DEF Up, rowVars, trackVars, jobVars, passVars, tickVars, pollVars, envVars
<1>36. CASE UNCHANGED vars
    BY <1>36, <1>u DEF vars, rowVars, trackVars, jobVars, passVars, tickVars, pollVars, envVars
<1>37. QED
    BY <1>1, <1>2, <1>3, <1>4, <1>5, <1>6, <1>7, <1>8, <1>9, <1>10, <1>11,
       <1>12, <1>13, <1>14, <1>15, <1>16, <1>17, <1>18, <1>19, <1>20, <1>21,
       <1>22, <1>23, <1>24, <1>25, <1>26, <1>27, <1>28, <1>29, <1>30, <1>31,
       <1>32, <1>33, <1>34, <1>35, <1>36
    DEF Next, JobStep, TickStep, PoolStep, PollStep, Passes

\* A dispatch, its reservation and the pass that has it come and go together.
LEMMA WorkStep ==
    Base /\ HandInv /\ WorkInv /\ NoReservationLeak /\ [Next]_vars =>
        (WorkInv /\ NoReservationLeak)'
<1> SUFFICES ASSUME Base, HandInv, WorkInv, NoReservationLeak, [Next]_vars
             PROVE  (WorkInv /\ NoReservationLeak)'
    OBVIOUS
<1>w. WorkInv /\ NoReservationLeak
  OBVIOUS
<1>h. Base /\ HandInv
  OBVIOUS
<1>ty. /\ at \in [Passes -> Spots] /\ cur \in [Passes -> Jobs \cup {NoJob}]
       /\ pend \in [Passes -> SUBSET Jobs] /\ sel \in [Passes -> SUBSET Jobs]
       /\ rest \in [Passes -> SUBSET Jobs] /\ trk \in [Jobs -> Keys \cup {NoKey}]
       /\ wkr \in [Jobs -> Phases] /\ by \in [Jobs -> Passes \cup {"none"}] /\ reserved \subseteq Jobs
  BY DEF Base, TypeOK, Phases
<1>cu. \A q \in Passes : cur[q] # NoJob <=> at[q] \in OnJob
  BY DEF Base, TypeOK, OnJob
<1>pa. /\ "tick" \in Passes /\ Repos \subseteq Passes /\ "tick" \notin Repos /\ NoJob \notin Jobs
  BY TrackerAssumption DEF Passes
<1>u. ASSUME UNCHANGED <<sel, rest, at, cur, wkr, trk, by, reserved>>
      PROVE  (WorkInv /\ NoReservationLeak)'
  BY <1>u, <1>w DEF WorkInv, NoReservationLeak, Todo, Given, Returned, InFlight
<1>1. ASSUME NEW j \in Jobs, Enqueue(j) PROVE (WorkInv /\ NoReservationLeak)'
    BY <1>1, <1>u DEF Enqueue, rowVars, trackVars, jobVars, passVars, tickVars, pollVars,
       envVars
<1>2. ASSUME NEW j \in Jobs, Recover(j) PROVE (WorkInv /\ NoReservationLeak)'
    BY <1>2, <1>u DEF Recover, rowVars, trackVars, jobVars, passVars, tickVars, pollVars,
       envVars
<1>3. ASSUME NEW j \in Jobs, StartFail(j) PROVE (WorkInv /\ NoReservationLeak)'
  <2>1. /\ wkr[j] = "start" /\ UNCHANGED <<sel, rest, at, cur, trk, by, reserved>>
        /\ \E x \in {"ok", "err"} : wkr' = [wkr EXCEPT ![j] = x]
    BY <1>3 DEF StartFail, SetWkr, rowVars, trackVars, jobVars, passVars, tickVars,
       pollVars, envVars
  <2> QED
    BY <2>1, <1>w, <1>ty, <1>pa, <1>cu DEF WorkInv, NoReservationLeak, Todo, Given,
       Returned, InFlight
<1>4. ASSUME NEW j \in Jobs, StartBusy(j) PROVE (WorkInv /\ NoReservationLeak)'
    BY <1>4, <1>w, <1>ty, <1>pa, <1>cu DEF StartBusy, SetWkr, rowVars, trackVars, jobVars,
       passVars, tickVars, pollVars, envVars,
       WorkInv, NoReservationLeak, Todo, Given, Returned, InFlight
<1>5. ASSUME NEW j \in Jobs, Start(j) PROVE (WorkInv /\ NoReservationLeak)'
    BY <1>5, <1>w, <1>ty, <1>pa, <1>cu DEF Start, SetWkr, rowVars, trackVars, jobVars,
       passVars, tickVars, pollVars, envVars,
       WorkInv, NoReservationLeak, Todo, Given, Returned, InFlight
<1>6. ASSUME NEW j \in Jobs, NEW res \in {"ok", "err"}, Finish(j, res)
      PROVE  (WorkInv /\ NoReservationLeak)'
    BY <1>6, <1>w, <1>ty, <1>pa, <1>cu DEF Finish, SetWkr, rowVars, trackVars, jobVars,
       passVars, tickVars, pollVars, envVars,
       WorkInv, NoReservationLeak, Todo, Given, Returned, InFlight
<1>7. ASSUME NEW j \in Jobs, BarrierRelease(j) PROVE (WorkInv /\ NoReservationLeak)'
    BY <1>7, <1>w, <1>ty, <1>pa, <1>cu DEF BarrierRelease, SetWkr, Released, rowVars,
       trackVars, jobVars, passVars, tickVars, pollVars, envVars,
       WorkInv, NoReservationLeak, Todo, Given, Returned, InFlight
<1>8. ASSUME NEW j \in Jobs, BarrierEnd(j) PROVE (WorkInv /\ NoReservationLeak)'
    BY <1>8, <1>w, <1>ty, <1>pa, <1>cu DEF BarrierEnd, rowVars, trackVars, jobVars,
       passVars, tickVars, pollVars, envVars,
       WorkInv, NoReservationLeak, Todo, Given, Returned, InFlight
<1>9. ASSUME NEW s \in Sessions, FgSession(s) PROVE (WorkInv /\ NoReservationLeak)'
    BY <1>9, <1>u DEF FgSession, rowVars, trackVars, jobVars, passVars, tickVars, pollVars,
       envVars
<1>10. ASSUME NEW r \in Repos, Flip(r) PROVE (WorkInv /\ NoReservationLeak)'
    BY <1>10, <1>u DEF Flip, rowVars, trackVars, jobVars, passVars, tickVars, pollVars, envVars
<1>11. ASSUME NEW r \in Repos, TickLock(r) PROVE (WorkInv /\ NoReservationLeak)'
    BY <1>11, <1>w, <1>ty, <1>pa, <1>cu DEF TickLock, Step, rowVars, trackVars, jobVars,
       passVars, tickVars, pollVars, envVars,
       WorkInv, NoReservationLeak, Todo, Given, Returned, InFlight
<1>12. ASSUME NEW k \in Keys, MaintCheck(k) PROVE (WorkInv /\ NoReservationLeak)'
    BY <1>12, <1>w, <1>ty, <1>pa, <1>cu DEF MaintCheck, Step, rowVars, trackVars, jobVars,
       passVars, tickVars, pollVars, envVars,
       WorkInv, NoReservationLeak, Todo, Given, Returned, InFlight
<1>13. CASE MaintDone
    BY <1>13, <1>w, <1>ty, <1>pa, <1>cu DEF MaintDone, Step, rowVars, trackVars, jobVars,
       passVars, tickVars, pollVars, envVars,
       WorkInv, NoReservationLeak, Todo, Given, Returned, InFlight
<1>14. CASE TickPool
  <2>1. trepo \in Repos /\ UNCHANGED <<sel, rest, cur, wkr, trk, by, reserved>>
    BY <1>14 DEF TickPool, Base, TypeOK, PassInv, rowVars, trackVars, jobVars, passVars,
       tickVars, pollVars, envVars
  <2>2. at[trepo] = "idle" \/ at'[trepo] = at[trepo]
    BY <1>14, <2>1, <1>ty, <1>pa DEF TickPool, CanBeginPool, Base, PassInv
  <2>3. \A q \in Passes : at'[q] # at[q] =>
           at[q] \in {"idle", "maint"} /\ at'[q] \in {"unlock", "loop"}
    BY <1>14, <2>1, <2>2, <1>ty, <1>pa DEF TickPool
  <2> QED
    BY <2>1, <2>3, <1>w, <1>pa DEF WorkInv, NoReservationLeak, Todo, Given, Returned, InFlight
<1>15. CASE TickList
    BY <1>15, <1>w, <1>ty, <1>pa, <1>cu DEF TickList, Step, SingleSelector, PoolRunning,
       rowVars, trackVars, jobVars, passVars, tickVars, pollVars, envVars,
       WorkInv, NoReservationLeak, Todo, Given, Returned, InFlight
<1>16. CASE TickSelect
  <2>1. /\ UNCHANGED <<cur, wkr, trk, by, reserved>> /\ at["tick"] = "select"
        /\ \E s \in {"wait", "begin"} : at' = [at EXCEPT !["tick"] = s]
    BY <1>16 DEF TickSelect, Step, rowVars, trackVars, jobVars, passVars, tickVars,
       pollVars, envVars
  <2>2. sel["tick"] = {} /\ rest["tick"] = {}
    BY <2>1, <1>pa DEF HandInv
  <2> DEFINE P == pend["tick"] \ InFlight
             sd == [checkouts |-> HeldKeys, runtimes |-> Runtimes(InFlight)]
  <2>3. \A n : \A S \in Selections("tick", P, n, sd) : S \subseteq P
    BY DEF Selections
  <2>4. P \subseteq Jobs /\ \A i \in P : i \in pend["tick"] /\ trk[i] = NoKey
    BY <1>ty, <1>pa DEF InFlight
  <2>5. \A i \in P : wkr[i] = "none"
    <3> SUFFICES ASSUME NEW i \in P, wkr[i] # "none" PROVE FALSE
      OBVIOUS
    <3>1. PICK q \in Repos : at[q] = "releasing" /\ cur[q] = i
      BY <2>4, <1>w DEF WorkInv
    <3>2. i \in Hand(q) /\ i \in Hand("tick") /\ q # "tick"
      BY <2>1, <2>4, <3>1, <1>pa DEF Hand
    <3> QED
      BY <3>2, <1>h, <1>pa, OthersApart
  <2> HIDE DEF P, sd
  <2>6. \/ sel' = sel /\ rest' = rest
        \/ \E S \in SUBSET P : sel' = [sel EXCEPT !["tick"] = S] /\ rest' = rest
    BY <1>16, <2>3 DEF TickSelect, P, sd, rowVars, trackVars, jobVars, passVars, tickVars,
       pollVars, envVars
  <2>7. /\ sel'["tick"] \subseteq P /\ rest'["tick"] \subseteq P /\ sel'["tick"] \cap rest'["tick"] = {}
        /\ \A q \in Passes : q # "tick" => sel'[q] = sel[q] /\ rest'[q] = rest[q]
    BY <2>2, <2>6, <1>ty, <1>pa
  <2> QED
    BY <2>1, <2>5, <2>7, <1>w, <1>ty, <1>pa DEF WorkInv, NoReservationLeak, Todo, Given,
       Returned, InFlight
<1>17. CASE TickUnlock
    BY <1>17, <1>w, <1>ty, <1>pa, <1>cu DEF TickUnlock, rowVars, trackVars, jobVars,
       passVars, tickVars, pollVars, envVars,
       WorkInv, NoReservationLeak, Todo, Given, Returned, InFlight
<1>18. ASSUME NEW p \in Passes, NEW j \in Jobs, Reserve(p, j)
       PROVE  (WorkInv /\ NoReservationLeak)'
  <2>1. /\ at[p] = "begin" /\ j \in sel[p] /\ UNCHANGED <<rest, wkr, trk, by>>
        /\ sel' = [sel EXCEPT ![p] = sel[p] \ {j}]
    BY <1>18 DEF Reserve, rowVars, trackVars, jobVars, passVars, tickVars, pollVars, envVars
  <2>2. \A q \in Passes : sel'[q] \subseteq sel[q] /\ (q = p => j \notin sel'[q]) /\ rest'[q] = rest[q]
    BY <2>1, <1>ty
  <2>3. wkr[j] = "none" /\ j \notin rest[p]
    BY <2>1, <1>w, <1>pa DEF WorkInv, Todo
  <2>4. CASE UNCHANGED <<reserved, cur, at>>
    BY <2>1, <2>2, <2>4, <1>w DEF WorkInv, NoReservationLeak, Todo, Given, Returned, InFlight
  <2>5. CASE at' = [at EXCEPT ![p] = "reserved"] /\ cur' = [cur EXCEPT ![p] = j]
                 /\ reserved' = reserved \cup {j}
    <3>1. /\ at'[p] = "reserved" /\ cur'[p] = j
          /\ \A q \in Passes : q # p => at'[q] = at[q] /\ cur'[q] = cur[q]
      BY <2>5, <1>ty, <1>pa
    <3>2. \A q \in Passes : Todo(q)' \subseteq Todo(q)
      BY <2>1, <2>2, <3>1 DEF Todo, Given
    <3>3. \A q \in Passes : /\ Given(q)' \subseteq reserved' /\ sel'[q] \cap rest'[q] = {}
                            /\ Given(q)' \cap (sel'[q] \cup rest'[q]) = {}
      BY <2>1, <2>2, <2>3, <2>5, <3>1, <1>w DEF WorkInv, Given
    <3>4. cur[p] = NoJob
      BY <2>1, <1>cu, <1>pa DEF OnJob
    <3>5. WorkInv'
      BY <2>1, <2>3, <2>5, <3>1, <3>2, <3>3, <1>w, <1>pa DEF WorkInv, Returned
    <3>6. NoReservationLeak'
      BY <2>1, <2>5, <3>1, <3>4, <1>w, <1>ty, <1>pa DEF NoReservationLeak, InFlight
    <3> QED
      BY <3>5, <3>6
  <2> QED
    BY <1>18, <2>4, <2>5 DEF Reserve, rowVars, trackVars, jobVars, passVars, tickVars,
       pollVars, envVars
<1>19. ASSUME NEW p \in Passes, Begin(p) PROVE (WorkInv /\ NoReservationLeak)'
  <2> DEFINE b == cur[p]
  <2>1. b \in Jobs /\ at[p] = "reserved" /\ Given(p) = {b} /\ b \in Hand(p)
    BY <1>19, <1>ty, <1>pa, <1>cu DEF Begin, Step, OnJob, Given, Hand
  <2>2. /\ UNCHANGED <<sel, rest>>
        /\ at' = [at EXCEPT ![p] = "begin"] /\ cur' = [cur EXCEPT ![p] = NoJob]
    BY <1>19 DEF Begin, Step, rowVars, trackVars, jobVars, passVars, tickVars, pollVars, envVars
  <2>3. /\ at'[p] = "begin" /\ cur'[p] = NoJob
        /\ \A q \in Passes : q # p => at'[q] = at[q] /\ cur'[q] = cur[q]
    BY <2>2, <1>ty, <1>pa
  <2>4. wkr[b] = "none" /\ b \in reserved /\ b \notin sel[p] /\ b \notin rest[p] /\ trk[b] = NoKey
    BY <2>1, <1>w, <1>pa DEF WorkInv, Todo
  <2>5. \A q \in Passes : q # p => b \notin Todo(q)
    <3> SUFFICES ASSUME NEW q \in Passes, q # p, b \in Todo(q) PROVE FALSE
      OBVIOUS
    <3>1. b \in Hand(q)
      BY <2>1, <1>pa DEF Todo, Given, Hand
    <3> QED
      BY <2>1, <3>1, <1>h, <1>pa, OthersApart
  <2>6. /\ Given(p)' = {} /\ \A q \in Passes : Todo(q)' \subseteq Todo(q) /\ b \notin Todo(q)'
        /\ \A q \in Passes : q # p => Given(q)' = Given(q) /\ b \notin Given(q)
    BY <2>2, <2>3, <2>4, <2>5 DEF Todo, Given
  <2>7. CASE /\ trk' = [trk EXCEPT ![b] = Key(b, seen[p])] /\ by' = [by EXCEPT ![b] = p]
             /\ wkr' = [wkr EXCEPT ![b] = "start"] /\ reserved' = reserved
    <3>1. Key(b, seen[p]) # NoKey
      BY <2>1, TrackerAssumption DEF Key, Keys
    <3>2. /\ trk'[b] # NoKey /\ wkr'[b] = "start"
          /\ \A i \in Jobs : i # b => trk'[i] = trk[i] /\ wkr'[i] = wkr[i] /\ by'[i] = by[i]
      BY <2>1, <2>7, <3>1, <1>ty
    <3>3. /\ \A q \in Repos : at'[q] \in {"ending", "releasing"} => 
                at[q] = at'[q] /\ cur'[q] = cur[q] /\ cur[q] # b /\ cur[q] \in Jobs
          /\ \A q \in Repos : at[q] = "releasing" => at'[q] = "releasing"
      BY <2>1, <2>3, <2>4, <1>w, <1>ty, <1>cu, <1>pa DEF WorkInv, Returned, OnJob
    <3>4. \A q \in Passes : Todo(q) \subseteq Jobs
      BY <1>ty, <1>cu DEF Todo, Given, OnJob
    <3>5. WorkInv'
      <4>1. \A q \in Passes : /\ \A i \in Todo(q)' : wkr'[i] = "none"
                             /\ Given(q)' \subseteq reserved'
                             /\ sel'[q] \cap rest'[q] = {} /\ Given(q)' \cap (sel'[q] \cup rest'[q]) = {}
        BY <2>2, <2>6, <2>7, <3>2, <3>4, <1>w DEF WorkInv
      <4> QED
        BY <4>1, <2>4, <2>7, <3>2, <3>3, <1>w DEF WorkInv, Returned
    <3>6. NoReservationLeak'
      BY <2>1, <2>3, <2>7, <3>2, <1>w, <1>ty DEF NoReservationLeak, InFlight
    <3> QED
      BY <3>5, <3>6
  <2>8. CASE UNCHANGED <<trk, by, wkr>> /\ reserved' = reserved \ {b}
    <3>1. /\ \A q \in Repos : at'[q] \in {"ending", "releasing"} => at[q] = at'[q] /\ cur'[q] = cur[q]
          /\ \A q \in Repos : at[q] = "releasing" => at'[q] = "releasing" /\ cur'[q] = cur[q]
      BY <2>1, <2>3, <1>pa
    <3>2. WorkInv'
      <4>1. \A q \in Passes : /\ \A i \in Todo(q)' : wkr'[i] = "none"
                             /\ Given(q)' \subseteq reserved'
                             /\ sel'[q] \cap rest'[q] = {} /\ Given(q)' \cap (sel'[q] \cup rest'[q]) = {}
        BY <2>2, <2>6, <2>8, <1>w DEF WorkInv
      <4> QED
        BY <4>1, <2>4, <2>8, <3>1, <1>w DEF WorkInv, Returned
    <3>3. NoReservationLeak'
      BY <2>1, <2>3, <2>8, <1>w DEF NoReservationLeak, InFlight
    <3> QED
      BY <3>2, <3>3
  <2> QED
    BY <1>19, <2>7, <2>8 DEF Begin, SetWkr, Released
<1>20. ASSUME NEW r \in Repos, NEW j \in Jobs, PoolReap(r, j)
       PROVE  (WorkInv /\ NoReservationLeak)'
  <2>1. /\ at[r] \in {"loop", "blocked"} /\ by[j] = r /\ Returned(j)
        /\ UNCHANGED <<sel, rest, wkr, trk, by, reserved>>
        /\ at' = [at EXCEPT ![r] = "ending"] /\ cur' = [cur EXCEPT ![r] = j]
    BY <1>20 DEF PoolReap, rowVars, trackVars, jobVars, passVars, tickVars, pollVars, envVars
  <2>2. /\ at'[r] = "ending" /\ cur'[r] = j /\ cur[r] = NoJob
        /\ \A q \in Passes : q # r => at'[q] = at[q] /\ cur'[q] = cur[q]
    BY <2>1, <1>ty, <1>pa, <1>cu DEF OnJob
  <2>3. WorkInv'
    BY <2>1, <2>2, <1>w, <1>pa DEF WorkInv, Todo, Given, Returned
  <2>4. NoReservationLeak'
    BY <2>1, <2>2, <1>w, <1>ty, <1>pa DEF NoReservationLeak, InFlight
  <2> QED
    BY <2>3, <2>4
<1>21. ASSUME NEW r \in Repos, PoolEnd(r) PROVE (WorkInv /\ NoReservationLeak)'
  <2>1. /\ at[r] = "ending" /\ UNCHANGED <<sel, rest, cur, wkr, by, reserved>>
        /\ at' = [at EXCEPT ![r] = "releasing"] /\ trk' = [trk EXCEPT ![cur[r]] = NoKey]
    BY <1>21 DEF PoolEnd, Step, rowVars, trackVars, jobVars, passVars, tickVars, pollVars,
       envVars
  <2>2. cur[r] \in Jobs /\ by[cur[r]] = r
    BY <2>1, <1>w, <1>ty, <1>cu, <1>pa DEF OnJob, WorkInv
  <2>3. /\ at'[r] = "releasing" /\ \A q \in Passes : q # r => at'[q] = at[q]
        /\ trk'[cur[r]] = NoKey /\ \A i \in Jobs : i # cur[r] => trk'[i] = trk[i]
    BY <2>1, <2>2, <1>ty, <1>pa
  <2>4. \A q \in Passes : Given(q)' = Given(q)
    BY <2>1, <2>3 DEF Given
  <2>5. WorkInv'
    <3>1. \A q \in Repos : at'[q] \in {"ending", "releasing"} =>
             by'[cur'[q]] = q /\ Returned(cur[q])' /\ (at'[q] = "releasing" => trk'[cur'[q]] = NoKey)
      BY <2>1, <2>2, <2>3, <1>w, <1>pa, <1>ty, <1>cu DEF WorkInv, Returned, OnJob
    <3> QED
      BY <2>1, <2>3, <2>4, <3>1, <1>w, <1>pa DEF WorkInv, Todo, Returned
  <2>6. NoReservationLeak'
    BY <2>1, <2>2, <2>3, <1>w, <1>ty, <1>pa DEF NoReservationLeak, InFlight
  <2> QED
    BY <2>5, <2>6
<1>22. ASSUME NEW r \in Repos, PoolRelease(r) PROVE (WorkInv /\ NoReservationLeak)'
    BY <1>22, <1>w, <1>ty, <1>pa, <1>cu DEF PoolRelease, Step, Released, rowVars, trackVars,
       jobVars, passVars, tickVars, pollVars, envVars,
       WorkInv, NoReservationLeak, Todo, Given, Returned, InFlight
<1>23. ASSUME NEW r \in Repos, PoolList(r) PROVE (WorkInv /\ NoReservationLeak)'
    BY <1>23, <1>w, <1>ty, <1>pa, <1>cu DEF PoolList, rowVars, trackVars, jobVars, passVars,
       tickVars, pollVars, envVars,
       WorkInv, NoReservationLeak, Todo, Given, Returned, InFlight
<1>24. ASSUME NEW r \in Repos, PoolSelect(r) PROVE (WorkInv /\ NoReservationLeak)'
  <2>1. /\ UNCHANGED <<cur, wkr, trk, by, reserved>> /\ at[r] = "select"
        /\ \E s \in {"wait", "begin"} : at' = [at EXCEPT ![r] = s]
    BY <1>24 DEF PoolSelect, Step, rowVars, trackVars, jobVars, passVars, tickVars,
       pollVars, envVars
  <2>2. sel[r] = {} /\ rest[r] = {}
    BY <2>1, <1>pa DEF HandInv
  <2> DEFINE P == pend[r] \ (Bouncing(r) \cup InFlight)
             sd == [checkouts |-> HeldKeys, runtimes |-> Runtimes(InFlight)]
  <2>3. \A n : \A S \in Selections(r, P, n, sd) : S \subseteq P
    BY DEF Selections
  <2>4. P \subseteq Jobs /\ \A i \in P : i \in pend[r] /\ trk[i] = NoKey
    BY <1>ty, <1>pa DEF InFlight
  <2>5. \A i \in P : wkr[i] = "none"
    <3> SUFFICES ASSUME NEW i \in P, wkr[i] # "none" PROVE FALSE
      OBVIOUS
    <3>1. PICK q \in Repos : at[q] = "releasing" /\ cur[q] = i
      BY <2>4, <1>w DEF WorkInv
    <3>2. i \in Hand(q) /\ i \in Hand(r) /\ q # r
      BY <2>1, <2>4, <3>1, <1>pa DEF Hand
    <3> QED
      BY <3>2, <1>h, <1>pa, OthersApart
  <2> HIDE DEF P, sd
  <2>6. \/ sel' = sel /\ rest' = rest
        \/ \E S \in SUBSET P : sel' = [sel EXCEPT ![r] = S] /\ rest' = [rest EXCEPT ![r] = P \ S]
    BY <1>24, <2>3 DEF PoolSelect, P, sd, rowVars, trackVars, jobVars, passVars, tickVars,
       pollVars, envVars
  <2>7. /\ sel'[r] \subseteq P /\ rest'[r] \subseteq P /\ sel'[r] \cap rest'[r] = {}
        /\ \A q \in Passes : q # r => sel'[q] = sel[q] /\ rest'[q] = rest[q]
    BY <2>2, <2>6, <1>ty, <1>pa
  <2> QED
    BY <2>1, <2>5, <2>7, <1>w, <1>ty, <1>pa DEF WorkInv, NoReservationLeak, Todo, Given,
       Returned, InFlight
<1>25. ASSUME NEW r \in Repos, NEW j \in Jobs, PoolIsolate(r, j)
       PROVE  (WorkInv /\ NoReservationLeak)'
  <2>1. /\ at[r] = "begin" /\ j \in rest[r] /\ UNCHANGED <<sel, wkr, trk, by>>
        /\ rest' = [rest EXCEPT ![r] = rest[r] \ {j}]
    BY <1>25 DEF PoolIsolate, rowVars, trackVars, jobVars, passVars, tickVars, pollVars, envVars
  <2>2. \A q \in Passes : rest'[q] \subseteq rest[q] /\ (q = r => j \notin rest'[q]) /\ sel'[q] = sel[q]
    BY <2>1, <1>ty
  <2>3. wkr[j] = "none" /\ j \notin sel[r]
    BY <2>1, <1>w, <1>pa DEF WorkInv, Todo
  <2>4. CASE UNCHANGED <<reserved, cur, at>>
    BY <2>1, <2>2, <2>4, <1>w DEF WorkInv, NoReservationLeak, Todo, Given, Returned, InFlight
  <2>5. CASE at' = [at EXCEPT ![r] = "isolated"] /\ cur' = [cur EXCEPT ![r] = j]
                 /\ reserved' = reserved \cup {j}
    <3>1. /\ at'[r] = "isolated" /\ cur'[r] = j
          /\ \A q \in Passes : q # r => at'[q] = at[q] /\ cur'[q] = cur[q]
      BY <2>5, <1>ty, <1>pa
    <3>2. \A q \in Passes : Todo(q)' \subseteq Todo(q)
      BY <2>1, <2>2, <3>1 DEF Todo, Given
    <3>3. \A q \in Passes : /\ Given(q)' \subseteq reserved' /\ sel'[q] \cap rest'[q] = {}
                            /\ Given(q)' \cap (sel'[q] \cup rest'[q]) = {}
      BY <2>1, <2>2, <2>3, <2>5, <3>1, <1>w DEF WorkInv, Given
    <3>4. cur[r] = NoJob
      BY <2>1, <1>cu, <1>pa DEF OnJob
    <3>5. WorkInv'
      BY <2>1, <2>3, <2>5, <3>1, <3>2, <3>3, <1>w, <1>pa DEF WorkInv, Returned
    <3>6. NoReservationLeak'
      BY <2>1, <2>5, <3>1, <3>4, <1>w, <1>ty, <1>pa DEF NoReservationLeak, InFlight
    <3> QED
      BY <3>5, <3>6
  <2> QED
    BY <1>25, <2>4, <2>5 DEF PoolIsolate, rowVars, trackVars, jobVars, passVars, tickVars,
       pollVars, envVars
<1>26. ASSUME NEW r \in Repos, PoolIsolatedBegin(r) PROVE (WorkInv /\ NoReservationLeak)'
  <2> DEFINE b == cur[r]
  <2>1. b \in Jobs /\ at[r] = "isolated" /\ Given(r) = {b} /\ b \in Hand(r)
    BY <1>26, <1>ty, <1>pa, <1>cu DEF PoolIsolatedBegin, Step, OnJob, Given, Hand
  <2>2. /\ UNCHANGED <<sel, rest>>
        /\ at' = [at EXCEPT ![r] = "begin"] /\ cur' = [cur EXCEPT ![r] = NoJob]
    BY <1>26 DEF PoolIsolatedBegin, Step, rowVars, trackVars, jobVars, passVars, tickVars,
       pollVars, envVars
  <2>3. /\ at'[r] = "begin" /\ cur'[r] = NoJob
        /\ \A q \in Passes : q # r => at'[q] = at[q] /\ cur'[q] = cur[q]
    BY <2>2, <1>ty, <1>pa
  <2>4. wkr[b] = "none" /\ b \in reserved /\ b \notin sel[r] /\ b \notin rest[r] /\ trk[b] = NoKey
    BY <2>1, <1>w, <1>pa DEF WorkInv, Todo
  <2>5. \A q \in Passes : q # r => b \notin Todo(q)
    <3> SUFFICES ASSUME NEW q \in Passes, q # r, b \in Todo(q) PROVE FALSE
      OBVIOUS
    <3>1. b \in Hand(q)
      BY <2>1, <1>pa DEF Todo, Given, Hand
    <3> QED
      BY <2>1, <3>1, <1>h, <1>pa, OthersApart
  <2>6. /\ Given(r)' = {} /\ \A q \in Passes : Todo(q)' \subseteq Todo(q) /\ b \notin Todo(q)'
        /\ \A q \in Passes : q # r => Given(q)' = Given(q) /\ b \notin Given(q)
    BY <2>2, <2>3, <2>4, <2>5 DEF Todo, Given
  <2>7. CASE /\ trk' = [trk EXCEPT ![b] = b] /\ by' = [by EXCEPT ![b] = r]
             /\ wkr' = [wkr EXCEPT ![b] = "start"] /\ reserved' = reserved
    <3>1. b # NoKey
      BY <2>1, TrackerAssumption DEF Key, Keys
    <3>2. /\ trk'[b] # NoKey /\ wkr'[b] = "start"
          /\ \A i \in Jobs : i # b => trk'[i] = trk[i] /\ wkr'[i] = wkr[i] /\ by'[i] = by[i]
      BY <2>1, <2>7, <3>1, <1>ty
    <3>3. /\ \A q \in Repos : at'[q] \in {"ending", "releasing"} => 
                at[q] = at'[q] /\ cur'[q] = cur[q] /\ cur[q] # b /\ cur[q] \in Jobs
          /\ \A q \in Repos : at[q] = "releasing" => at'[q] = "releasing"
      BY <2>1, <2>3, <2>4, <1>w, <1>ty, <1>cu, <1>pa DEF WorkInv, Returned, OnJob
    <3>4. \A q \in Passes : Todo(q) \subseteq Jobs
      BY <1>ty, <1>cu DEF Todo, Given, OnJob
    <3>5. WorkInv'
      <4>1. \A q \in Passes : /\ \A i \in Todo(q)' : wkr'[i] = "none"
                             /\ Given(q)' \subseteq reserved'
                             /\ sel'[q] \cap rest'[q] = {} /\ Given(q)' \cap (sel'[q] \cup rest'[q]) = {}
        BY <2>2, <2>6, <2>7, <3>2, <3>4, <1>w DEF WorkInv
      <4> QED
        BY <4>1, <2>4, <2>7, <3>2, <3>3, <1>w DEF WorkInv, Returned
    <3>6. NoReservationLeak'
      BY <2>1, <2>3, <2>7, <3>2, <1>w, <1>ty DEF NoReservationLeak, InFlight
    <3> QED
      BY <3>5, <3>6
  <2>8. CASE UNCHANGED <<trk, by, wkr>> /\ reserved' = reserved \ {b}
    <3>1. /\ \A q \in Repos : at'[q] \in {"ending", "releasing"} => at[q] = at'[q] /\ cur'[q] = cur[q]
          /\ \A q \in Repos : at[q] = "releasing" => at'[q] = "releasing" /\ cur'[q] = cur[q]
      BY <2>1, <2>3, <1>pa
    <3>2. WorkInv'
      <4>1. \A q \in Passes : /\ \A i \in Todo(q)' : wkr'[i] = "none"
                             /\ Given(q)' \subseteq reserved'
                             /\ sel'[q] \cap rest'[q] = {} /\ Given(q)' \cap (sel'[q] \cup rest'[q]) = {}
        BY <2>2, <2>6, <2>8, <1>w DEF WorkInv
      <4> QED
        BY <4>1, <2>4, <2>8, <3>1, <1>w DEF WorkInv, Returned
    <3>3. NoReservationLeak'
      BY <2>1, <2>3, <2>8, <1>w DEF NoReservationLeak, InFlight
    <3> QED
      BY <3>2, <3>3
  <2> QED
    BY <1>26, <2>7, <2>8 DEF PoolIsolatedBegin, SetWkr, Released
<1>27. ASSUME NEW r \in Repos, PoolDispatched(r) PROVE (WorkInv /\ NoReservationLeak)'
    BY <1>27, <1>w, <1>ty, <1>pa, <1>cu DEF PoolDispatched, Step, NoSeed, rowVars,
       trackVars, jobVars, passVars, tickVars, pollVars, envVars,
       WorkInv, NoReservationLeak, Todo, Given, Returned, InFlight
<1>28. ASSUME NEW r \in Repos, PoolWait(r) PROVE (WorkInv /\ NoReservationLeak)'
    BY <1>28, <1>w, <1>ty, <1>pa, <1>cu DEF PoolWait, Step, rowVars, trackVars, jobVars,
       passVars, tickVars, pollVars, envVars,
       WorkInv, NoReservationLeak, Todo, Given, Returned, InFlight
<1>29. ASSUME NEW r \in Repos, PollLock(r) PROVE (WorkInv /\ NoReservationLeak)'
    BY <1>29, <1>u DEF PollLock, rowVars, trackVars, jobVars, passVars, tickVars, pollVars,
       envVars
<1>30. CASE PollCheck
    BY <1>30, <1>u DEF PollCheck, rowVars, trackVars, jobVars, passVars, tickVars, pollVars,
       envVars
<1>31. CASE PollDone
    BY <1>31, <1>u DEF PollDone, rowVars, trackVars, jobVars, passVars, tickVars, pollVars,
       envVars
<1>32. CASE Stop
    BY <1>32, <1>u DEF Stop, rowVars, trackVars, jobVars, passVars, tickVars, pollVars, envVars
<1>33. CASE Drain
    BY <1>33, <1>u DEF Drain, rowVars, trackVars, jobVars, passVars, tickVars, pollVars, envVars
<1>34. CASE Down
    BY <1>34, <1>w, <1>ty, <1>pa, <1>cu DEF Down, NoSeed, rowVars, trackVars, jobVars,
       passVars, tickVars, pollVars, envVars,
       WorkInv, NoReservationLeak, Todo, Given, Returned, InFlight
<1>35. CASE Up
    BY <1>35, <1>u DEF Up, rowVars, trackVars, jobVars, passVars, tickVars, pollVars, envVars
<1>36. CASE UNCHANGED vars
    BY <1>36, <1>u DEF vars, rowVars, trackVars, jobVars, passVars, tickVars, pollVars, envVars
<1>37. QED
    BY <1>1, <1>2, <1>3, <1>4, <1>5, <1>6, <1>7, <1>8, <1>9, <1>10, <1>11,
       <1>12, <1>13, <1>14, <1>15, <1>16, <1>17, <1>18, <1>19, <1>20, <1>21,
       <1>22, <1>23, <1>24, <1>25, <1>26, <1>27, <1>28, <1>29, <1>30, <1>31,
       <1>32, <1>33, <1>34, <1>35, <1>36
    DEF Next, JobStep, TickStep, PoolStep, PollStep, Passes

-----------------------------------------------------------------------------
(* Counting *)

\* A subset is not larger.
LEMMA SubsetCount ==
    \A S \in SUBSET Jobs : \A T \in SUBSET S :
        Cardinality(S) \in Nat /\ Cardinality(T) \in Nat /\ Cardinality(T) <= Cardinality(S)
<1> SUFFICES ASSUME NEW S \in SUBSET Jobs, NEW T \in SUBSET S
             PROVE  /\ Cardinality(S) \in Nat /\ Cardinality(T) \in Nat
                    /\ Cardinality(T) <= Cardinality(S)
  OBVIOUS
<1>1. IsFiniteSet(S)
  BY FS_Subset, TrackerAssumption
<1>2. IsFiniteSet(T) /\ Cardinality(T) <= Cardinality(S)
  BY <1>1, FS_Subset
<1> QED
  BY <1>1, <1>2, FS_CardinalityType

\* A union is not larger than its parts together.
LEMMA UnionCount ==
    \A S, T \in SUBSET Jobs : Cardinality(S \cup T) <= Cardinality(S) + Cardinality(T)
<1> SUFFICES ASSUME NEW S \in SUBSET Jobs, NEW T \in SUBSET Jobs
             PROVE  Cardinality(S \cup T) <= Cardinality(S) + Cardinality(T)
  OBVIOUS
<1>1. IsFiniteSet(S) /\ IsFiniteSet(T)
  BY FS_Subset, TrackerAssumption
<1>2. Cardinality(S \cup T) = Cardinality(S) + Cardinality(T) - Cardinality(S \cap T)
  BY <1>1, FS_Union
<1>3. Cardinality(S \cap T) \in Nat /\ Cardinality(S) \in Nat /\ Cardinality(T) \in Nat
  BY SubsetCount
<1> QED
  BY <1>2, <1>3

\* One more job adds at most one.
LEMMA AddCount ==
    \A S \in SUBSET Jobs : \A x \in Jobs :
        /\ Cardinality(S) \in Nat /\ Cardinality(S \cup {x}) \in Nat
        /\ Cardinality(S \cup {x}) <= Cardinality(S) + 1
<1> SUFFICES ASSUME NEW S \in SUBSET Jobs, NEW x \in Jobs
             PROVE  /\ Cardinality(S) \in Nat /\ Cardinality(S \cup {x}) \in Nat
                    /\ Cardinality(S \cup {x}) <= Cardinality(S) + 1
  OBVIOUS
<1>1. Cardinality({x}) = 1
  BY FS_Singleton
<1> QED
  BY <1>1, UnionCount, SubsetCount

\* The slots a pass computes fit under both limits.
LEMMA SlotsFit ==
    ASSUME TypeOK, NEW r \in Repos, NEW c \in Nat, Most(Slots(r, c)) # 0
    PROVE  Most(Slots(r, c)) \in Nat /\ c + Most(Slots(r, c)) <= Limit[r]
<1> DEFINE N == Slots(r, c)
           a == Limit[r] - c
           b == HostCap(r) - Cardinality(InFlight)
           s == IF a <= b THEN a ELSE b
           m == IF s <= Cardinality(Jobs) THEN s ELSE Cardinality(Jobs)
<1>1. Cardinality(InFlight) \in Nat /\ Cardinality(Jobs) \in Nat
  BY SubsetCount DEF InFlight
<1>2. Limit[r] \in Nat /\ HostCap(r) \in Nat
  BY TrackerAssumption DEF HostCap, Larger
<1>3. N # {} /\ Most(N) = CHOOSE n \in N : \A k \in N : k <= n
  BY DEF Most
<1>4. \A n \in N : n \in Nat /\ c + n <= Limit[r]
  BY <1>1 DEF Slots
<1>5. m \in N /\ \A k \in N : k <= m
  BY <1>1, <1>2, <1>3 DEF Slots
<1> HIDE DEF N, m
<1>6. Most(N) \in N
  BY <1>3, <1>5
<1> QED
  BY <1>4, <1>6 DEF N

\* The host limit and the budget are kept by the checks that enforce them.
LEMMA CountStep == Base /\ HostLimit /\ BudgetInv /\ [Next]_vars => (HostLimit /\ BudgetInv)'
<1> SUFFICES ASSUME Base, HostLimit, BudgetInv, [Next]_vars PROVE (HostLimit /\ BudgetInv)'
    OBVIOUS
<1>ty. /\ at \in [Passes -> Spots] /\ cur \in [Passes -> Jobs \cup {NoJob}]
       /\ trk \in [Jobs -> Keys \cup {NoKey}] /\ reserved \subseteq Jobs
  BY DEF Base, TypeOK
<1>cu. /\ \A q \in Passes : cur[q] # NoJob <=> at[q] \in OnJob
       /\ trepo \in Repos \cup {NoRepo} /\ (at["tick"] = "idle" <=> trepo = NoRepo)
  BY DEF Base, TypeOK, PassInv, OnJob
<1>pa. /\ "tick" \in Passes /\ Repos \subseteq Passes /\ "tick" \notin Repos /\ NoJob \notin Jobs
  BY TrackerAssumption DEF Passes
<1>h. ASSUME InFlight' \subseteq InFlight PROVE HostLimit'
  <2> SUFFICES ASSUME InFlight' # {}
               PROVE  \E r \in Repos : Cardinality(InFlight') <= HostCap(r)
    BY DEF HostLimit
  <2>1. PICK r \in Repos : Cardinality(InFlight) <= HostCap(r)
    BY <1>h DEF HostLimit
  <2>2. /\ Cardinality(InFlight') <= Cardinality(InFlight)
        /\ Cardinality(InFlight') \in Nat /\ Cardinality(InFlight) \in Nat
    BY <1>h, SubsetCount DEF InFlight
  <2>3. HostCap(r) \in Nat
    BY TrackerAssumption DEF HostCap, Larger
  <2> QED
    BY <2>1, <2>2, <2>3
<1>b. ASSUME reserved' \subseteq reserved PROVE BudgetInv'
  <2>1. Reservations' \subseteq Reservations /\ Reservations \subseteq Jobs
    BY <1>b, <1>ty DEF Reservations
  <2>2. /\ Cardinality(Reservations') <= Cardinality(Reservations)
        /\ Cardinality(Reservations') \in Nat /\ Cardinality(Reservations) \in Nat
    BY <2>1, SubsetCount
  <2> QED
    BY <2>2, TrackerAssumption DEF BudgetInv
<1>m. ASSUME InFlight' \subseteq InFlight, reserved' \subseteq reserved
      PROVE  (HostLimit /\ BudgetInv)'
  BY <1>h, <1>b, <1>m
<1>r. ASSUME NEW j \in Jobs, InFlight' = InFlight,
             reserved' = reserved \/ (reserved' = reserved \cup {j} /\ Admits(j))
      PROVE  (HostLimit /\ BudgetInv)'
  <2>1. CASE reserved' = reserved
    BY <1>r, <2>1, <1>m
  <2>2. CASE reserved' = reserved \cup {j} /\ SessionOf[j] = NoSession
    <3>1. Reservations' = Reservations
      BY <2>2 DEF Reservations
    <3> QED
      BY <1>r, <3>1, <1>h DEF BudgetInv
  <2>3. CASE reserved' = reserved \cup {j} /\ SessionOf[j] # NoSession /\ MaxSessions > 0
             /\ Cardinality(Reservations) < MaxSessions
    <3>1. Reservations' = Reservations \cup {j} /\ Reservations \subseteq Jobs
      BY <2>3, <1>ty DEF Reservations
    <3>2. /\ Cardinality(Reservations') <= Cardinality(Reservations) + 1
          /\ Cardinality(Reservations') \in Nat /\ Cardinality(Reservations) \in Nat
      BY <3>1, AddCount
    <3>3. BudgetInv'
      BY <2>3, <3>2, TrackerAssumption DEF BudgetInv
    <3> QED
      BY <1>r, <3>3, <1>h
  <2>4. CASE MaxSessions = 0
    BY <1>r, <2>4, <1>h DEF BudgetInv
  <2>5. CASE j \in reserved
    BY <1>r, <2>5, <1>m
  <2> QED
    BY <1>r, <2>1, <2>2, <2>3, <2>4, <2>5, TrackerAssumption DEF Admits, Reservations
<1>1. ASSUME NEW j \in Jobs, Enqueue(j) PROVE (HostLimit /\ BudgetInv)'
    BY <1>1, <1>m DEF Enqueue, rowVars, trackVars, jobVars, passVars, tickVars, pollVars,
       envVars, InFlight
<1>2. ASSUME NEW j \in Jobs, Recover(j) PROVE (HostLimit /\ BudgetInv)'
    BY <1>2, <1>m DEF Recover, rowVars, trackVars, jobVars, passVars, tickVars, pollVars,
       envVars, InFlight
<1>3. ASSUME NEW j \in Jobs, StartFail(j) PROVE (HostLimit /\ BudgetInv)'
    BY <1>3, <1>m DEF StartFail, rowVars, trackVars, jobVars, passVars, tickVars, pollVars,
       envVars, InFlight
<1>4. ASSUME NEW j \in Jobs, StartBusy(j) PROVE (HostLimit /\ BudgetInv)'
    BY <1>4, <1>m DEF StartBusy, rowVars, trackVars, jobVars, passVars, tickVars, pollVars,
       envVars, InFlight
<1>5. ASSUME NEW j \in Jobs, Start(j) PROVE (HostLimit /\ BudgetInv)'
    BY <1>5, <1>m DEF Start, rowVars, trackVars, jobVars, passVars, tickVars, pollVars,
       envVars, InFlight
<1>6. ASSUME NEW j \in Jobs, NEW res \in {"ok", "err"}, Finish(j, res)
      PROVE  (HostLimit /\ BudgetInv)'
    BY <1>6, <1>m DEF Finish, rowVars, trackVars, jobVars, passVars, tickVars, pollVars,
       envVars, InFlight
<1>7. ASSUME NEW j \in Jobs, BarrierRelease(j) PROVE (HostLimit /\ BudgetInv)'
    BY <1>7, <1>m DEF BarrierRelease, Released, rowVars, trackVars, jobVars, passVars,
       tickVars, pollVars, envVars, InFlight
<1>8. ASSUME NEW j \in Jobs, BarrierEnd(j) PROVE (HostLimit /\ BudgetInv)'
    BY <1>8, <1>m, <1>ty DEF BarrierEnd, rowVars, trackVars, jobVars, passVars, tickVars,
       pollVars, envVars, InFlight
<1>9. ASSUME NEW s \in Sessions, FgSession(s) PROVE (HostLimit /\ BudgetInv)'
    BY <1>9, <1>m DEF FgSession, rowVars, trackVars, jobVars, passVars, tickVars, pollVars,
       envVars, InFlight
<1>10. ASSUME NEW r \in Repos, Flip(r) PROVE (HostLimit /\ BudgetInv)'
    BY <1>10, <1>m DEF Flip, rowVars, trackVars, jobVars, passVars, tickVars, pollVars,
       envVars, InFlight
<1>11. ASSUME NEW r \in Repos, TickLock(r) PROVE (HostLimit /\ BudgetInv)'
    BY <1>11, <1>m DEF TickLock, rowVars, trackVars, jobVars, passVars, tickVars, pollVars,
       envVars, InFlight
<1>12. ASSUME NEW k \in Keys, MaintCheck(k) PROVE (HostLimit /\ BudgetInv)'
    BY <1>12, <1>m DEF MaintCheck, rowVars, trackVars, jobVars, passVars, tickVars,
       pollVars, envVars, InFlight
<1>13. CASE MaintDone
    BY <1>13, <1>m DEF MaintDone, rowVars, trackVars, jobVars, passVars, tickVars, pollVars,
       envVars, InFlight
<1>14. CASE TickPool
    BY <1>14, <1>m DEF TickPool, rowVars, trackVars, jobVars, passVars, tickVars, pollVars,
       envVars, InFlight
<1>15. CASE TickList
    BY <1>15, <1>m DEF TickList, rowVars, trackVars, jobVars, passVars, tickVars, pollVars,
       envVars, InFlight
<1>16. CASE TickSelect
    BY <1>16, <1>m DEF TickSelect, rowVars, trackVars, jobVars, passVars, tickVars,
       pollVars, envVars, InFlight
<1>17. CASE TickUnlock
    BY <1>17, <1>m DEF TickUnlock, rowVars, trackVars, jobVars, passVars, tickVars,
       pollVars, envVars, InFlight
<1>18. ASSUME NEW p \in Passes, NEW j \in Jobs, Reserve(p, j) PROVE (HostLimit /\ BudgetInv)'
  <2>1. trk' = trk /\ (reserved' = reserved \/ (reserved' = reserved \cup {j} /\ Admits(j)))
    BY <1>18 DEF Reserve, rowVars, trackVars, jobVars, passVars, tickVars, pollVars, envVars
  <2> QED
    BY <2>1, <1>r DEF InFlight
<1>19. ASSUME NEW p \in Passes, Begin(p) PROVE (HostLimit /\ BudgetInv)'
  <2>1. reserved' \subseteq reserved
    BY <1>19 DEF Begin, Released
  <2>2. CASE trk' = trk
    BY <2>1, <2>2, <1>m DEF InFlight
  <2>3. CASE trk' # trk
    <3>1. cur[p] \in Jobs /\ RepoAt(p) \in Repos
      BY <1>19, <1>ty, <1>cu, <1>pa DEF Begin, Step, OnJob, RepoAt, Passes
    <3>2. Cardinality(InFlight) < HostCap(RepoAt(p)) /\ InFlight' \subseteq InFlight \cup {cur[p]}
      BY <1>19, <2>3, <3>1, <1>ty DEF Begin, CanBegin, InFlight, RepoAt
    <3>3. Cardinality(InFlight') <= HostCap(RepoAt(p))
      <4>1. /\ Cardinality(InFlight \cup {cur[p]}) <= Cardinality(InFlight) + 1
            /\ Cardinality(InFlight) \in Nat /\ Cardinality(InFlight \cup {cur[p]}) \in Nat
        BY <3>1, AddCount DEF InFlight
      <4>2. /\ Cardinality(InFlight') \in Nat
            /\ Cardinality(InFlight') <= Cardinality(InFlight \cup {cur[p]})
        BY <3>1, <3>2, SubsetCount DEF InFlight
      <4>3. HostCap(RepoAt(p)) \in Nat
        BY <3>1, TrackerAssumption DEF HostCap, Larger
      <4> QED
        BY <3>2, <4>1, <4>2, <4>3
    <3> QED
      BY <2>1, <3>1, <3>3, <1>b DEF HostLimit
  <2> QED
    BY <2>2, <2>3
<1>20. ASSUME NEW r \in Repos, NEW j \in Jobs, PoolReap(r, j) PROVE (HostLimit /\ BudgetInv)'
    BY <1>20, <1>m DEF PoolReap, rowVars, trackVars, jobVars, passVars, tickVars, pollVars,
       envVars, InFlight
<1>21. ASSUME NEW r \in Repos, PoolEnd(r) PROVE (HostLimit /\ BudgetInv)'
    BY <1>21, <1>m, <1>ty DEF PoolEnd, rowVars, trackVars, jobVars, passVars, tickVars,
       pollVars, envVars, InFlight
<1>22. ASSUME NEW r \in Repos, PoolRelease(r) PROVE (HostLimit /\ BudgetInv)'
    BY <1>22, <1>m DEF PoolRelease, Released, rowVars, trackVars, jobVars, passVars,
       tickVars, pollVars, envVars, InFlight
<1>23. ASSUME NEW r \in Repos, PoolList(r) PROVE (HostLimit /\ BudgetInv)'
    BY <1>23, <1>m DEF PoolList, rowVars, trackVars, jobVars, passVars, tickVars, pollVars,
       envVars, InFlight
<1>24. ASSUME NEW r \in Repos, PoolSelect(r) PROVE (HostLimit /\ BudgetInv)'
    BY <1>24, <1>m DEF PoolSelect, rowVars, trackVars, jobVars, passVars, tickVars,
       pollVars, envVars, InFlight
<1>25. ASSUME NEW r \in Repos, NEW j \in Jobs, PoolIsolate(r, j) PROVE (HostLimit /\ BudgetInv)'
  <2>1. trk' = trk /\ (reserved' = reserved \/ (reserved' = reserved \cup {j} /\ Admits(j)))
    BY <1>25 DEF PoolIsolate, rowVars, trackVars, jobVars, passVars, tickVars, pollVars, envVars
  <2> QED
    BY <2>1, <1>r DEF InFlight
<1>26. ASSUME NEW r \in Repos, PoolIsolatedBegin(r) PROVE (HostLimit /\ BudgetInv)'
  <2>1. reserved' \subseteq reserved
    BY <1>26 DEF PoolIsolatedBegin, Released
  <2>2. CASE trk' = trk
    BY <2>1, <2>2, <1>m DEF InFlight
  <2>3. CASE trk' # trk
    <3>1. cur[r] \in Jobs /\ RepoAt(r) \in Repos
      BY <1>26, <1>ty, <1>cu, <1>pa DEF PoolIsolatedBegin, Step, OnJob, RepoAt, Passes
    <3>2. Cardinality(InFlight) < HostCap(RepoAt(r)) /\ InFlight' \subseteq InFlight \cup {cur[r]}
      BY <1>26, <2>3, <3>1, <1>ty, <1>pa DEF PoolIsolatedBegin, CanBegin, InFlight, RepoAt
    <3>3. Cardinality(InFlight') <= HostCap(RepoAt(r))
      <4>1. /\ Cardinality(InFlight \cup {cur[r]}) <= Cardinality(InFlight) + 1
            /\ Cardinality(InFlight) \in Nat /\ Cardinality(InFlight \cup {cur[r]}) \in Nat
        BY <3>1, AddCount DEF InFlight
      <4>2. /\ Cardinality(InFlight') \in Nat
            /\ Cardinality(InFlight') <= Cardinality(InFlight \cup {cur[r]})
        BY <3>1, <3>2, SubsetCount DEF InFlight
      <4>3. HostCap(RepoAt(r)) \in Nat
        BY <3>1, TrackerAssumption DEF HostCap, Larger
      <4> QED
        BY <3>2, <4>1, <4>2, <4>3
    <3> QED
      BY <2>1, <3>1, <3>3, <1>b DEF HostLimit
  <2> QED
    BY <2>2, <2>3
<1>27. ASSUME NEW r \in Repos, PoolDispatched(r) PROVE (HostLimit /\ BudgetInv)'
    BY <1>27, <1>m DEF PoolDispatched, rowVars, trackVars, jobVars, passVars, tickVars,
       pollVars, envVars, InFlight
<1>28. ASSUME NEW r \in Repos, PoolWait(r) PROVE (HostLimit /\ BudgetInv)'
    BY <1>28, <1>m DEF PoolWait, rowVars, trackVars, jobVars, passVars, tickVars, pollVars,
       envVars, InFlight
<1>29. ASSUME NEW r \in Repos, PollLock(r) PROVE (HostLimit /\ BudgetInv)'
    BY <1>29, <1>m DEF PollLock, rowVars, trackVars, jobVars, passVars, tickVars, pollVars,
       envVars, InFlight
<1>30. CASE PollCheck
    BY <1>30, <1>m DEF PollCheck, rowVars, trackVars, jobVars, passVars, tickVars, pollVars,
       envVars, InFlight
<1>31. CASE PollDone
    BY <1>31, <1>m DEF PollDone, rowVars, trackVars, jobVars, passVars, tickVars, pollVars,
       envVars, InFlight
<1>32. CASE Stop
    BY <1>32, <1>m DEF Stop, rowVars, trackVars, jobVars, passVars, tickVars, pollVars,
       envVars, InFlight
<1>33. CASE Drain
    BY <1>33, <1>m DEF Drain, rowVars, trackVars, jobVars, passVars, tickVars, pollVars,
       envVars, InFlight
<1>34. CASE Down
    BY <1>34, <1>m DEF Down, InFlight
<1>35. CASE Up
    BY <1>35, <1>m DEF Up, rowVars, trackVars, jobVars, passVars, tickVars, pollVars,
       envVars, InFlight
<1>36. CASE UNCHANGED vars
    BY <1>36, <1>m DEF vars, rowVars, trackVars, jobVars, passVars, tickVars, pollVars,
       envVars, InFlight
<1>37. QED
    BY <1>1, <1>2, <1>3, <1>4, <1>5, <1>6, <1>7, <1>8, <1>9, <1>10, <1>11,
       <1>12, <1>13, <1>14, <1>15, <1>16, <1>17, <1>18, <1>19, <1>20, <1>21,
       <1>22, <1>23, <1>24, <1>25, <1>26, <1>27, <1>28, <1>29, <1>30, <1>31,
       <1>32, <1>33, <1>34, <1>35, <1>36
    DEF Next, JobStep, TickStep, PoolStep, PollStep, Passes

\* The load of a repository grows by no more than the slots that are left.
LEMMA LimitStep ==
    Base /\ HandInv /\ WorkInv /\ LimitInv /\ [Next]_vars => (LimitInv /\ RepoLimit)'
<1> SUFFICES ASSUME Base, HandInv, WorkInv, LimitInv, [Next]_vars PROVE (LimitInv /\ RepoLimit)'
    OBVIOUS
<1>h. Base /\ HandInv
  OBVIOUS
<1>w. WorkInv
  OBVIOUS
<1>l. LimitInv
  OBVIOUS
<1>ty. /\ at \in [Passes -> Spots] /\ cur \in [Passes -> Jobs \cup {NoJob}]
       /\ sel \in [Passes -> SUBSET Jobs] /\ pend \in [Passes -> SUBSET Jobs]
       /\ by \in [Jobs -> Passes \cup {"none"}] /\ trk \in [Jobs -> Keys \cup {NoKey}]
       /\ pools \subseteq Repos
  BY DEF Base, TypeOK
<1>cu. \A q \in Passes : cur[q] # NoJob <=> at[q] \in OnJob
  BY DEF Base, TypeOK, OnJob
<1>pa. /\ "tick" \in Passes /\ Repos \subseteq Passes /\ "tick" \notin Repos /\ "none" \notin Repos
       /\ Passes = Repos \cup {"tick"} /\ NoRepo \notin Repos
  BY TrackerAssumption DEF Passes
<1>e. \A q \in Passes : sel[q] # {} => at[q] \in {"begin", "reserved"}
  BY <1>h DEF HandInv
<1>lj. \A r \in Repos : Load(r) \subseteq Jobs
  BY <1>ty, <1>cu, <1>pa DEF Load, Started, Given, Own, InFlightIn, InFlight, OnJob
<1>n. ASSUME \A j \in Jobs : by'[j] \in Repos => by'[j] \in pools',
             \A r \in pools' : InFlightIn(r)' \subseteq Own(r)', pools' \subseteq Repos,
             \A r \in Repos : /\ Load(r)' \subseteq Jobs
                              /\ Load(r)' \subseteq Load(r) \/ Cardinality(Load(r)') <= Limit[r]
      PROVE  (LimitInv /\ RepoLimit)'
  <2>1. ASSUME NEW r \in Repos PROVE Cardinality(Load(r)') <= Limit[r]
    <3>1. CASE Load(r)' \subseteq Load(r)
      <4>1. /\ Cardinality(Load(r)') <= Cardinality(Load(r))
            /\ Cardinality(Load(r)') \in Nat /\ Cardinality(Load(r)) \in Nat
        BY <2>1, <3>1, <1>lj, SubsetCount
      <4> QED
        BY <4>1, <2>1, <1>l, TrackerAssumption DEF LimitInv
    <3> QED
      BY <1>n, <2>1, <3>1
  <2>2. ASSUME NEW r \in Repos PROVE Cardinality(InFlightIn(r)') <= Limit[r]
    <3>1. InFlightIn(r)' \subseteq Load(r)' /\ Load(r)' \subseteq Jobs
      BY <1>n, <2>2 DEF Load
    <3>2. /\ Cardinality(InFlightIn(r)') <= Cardinality(Load(r)')
          /\ Cardinality(InFlightIn(r)') \in Nat /\ Cardinality(Load(r)') \in Nat
      BY <3>1, SubsetCount
    <3> QED
      BY <3>2, <2>1, <2>2, TrackerAssumption
  <2> QED
    BY <1>n, <2>1, <2>2 DEF LimitInv, RepoLimit
<1>m. ASSUME \A j \in Jobs : by'[j] \in Repos => by'[j] \in pools',
             \A r \in pools' : InFlightIn(r)' \subseteq Own(r)', pools' \subseteq Repos,
             \A r \in Repos : Load(r)' \subseteq Load(r)
      PROVE  (LimitInv /\ RepoLimit)'
  <2>1. \A r \in Repos : Load(r)' \subseteq Jobs
    BY <1>m, <1>lj
  <2> QED
    BY <1>m, <2>1, <1>n
<1>u. ASSUME UNCHANGED <<trk, by, sel, at, cur, pools, trepo>> PROVE (LimitInv /\ RepoLimit)'
  BY <1>u, <1>l, <1>ty, <1>m DEF LimitInv, Load, Started, Given, Own, InFlightIn, InFlight
<1>s. ASSUME UNCHANGED <<trk, by, sel, pools, trepo>>, NEW x \in Passes,
             \E s \in Spots \ {"reserved", "isolated"} : at' = [at EXCEPT ![x] = s],
             \A q \in Passes : q # x => cur'[q] = cur[q]
      PROVE  (LimitInv /\ RepoLimit)'
  <2>1. \A q \in Passes : Started(q)' \subseteq Started(q)
    BY <1>s, <1>ty DEF Started, Given
  <2> QED
    BY <1>s, <2>1, <1>l, <1>ty, <1>pa, <1>m DEF LimitInv, Load, Own, InFlightIn, InFlight
<1>c. ASSUME UNCHANGED <<trk, by, pools>>, NEW x \in Repos,
             \A q \in Repos \ {x} : Load(q)' = Load(q),
             Load(x)' \subseteq Jobs, Cardinality(Load(x)') <= Limit[x]
      PROVE  (LimitInv /\ RepoLimit)'
  <2>1. \A q \in Repos : Own(q)' = Own(q) /\ InFlightIn(q)' = InFlightIn(q)
    BY <1>c DEF Own, InFlightIn, InFlight
  <2>2. /\ \A i \in Jobs : by'[i] \in Repos => by'[i] \in pools'
        /\ \A q \in pools' : InFlightIn(q)' \subseteq Own(q)'
    BY <1>c, <2>1, <1>l, <1>ty DEF LimitInv
  <2>3. \A q \in Repos : /\ Load(q)' \subseteq Jobs
                         /\ Load(q)' \subseteq Load(q) \/ Cardinality(Load(q)') <= Limit[q]
    BY <1>c, <1>lj
  <2> QED
    BY <1>c, <2>2, <2>3, <1>ty, <1>n
<1>1. ASSUME NEW j \in Jobs, Enqueue(j) PROVE (LimitInv /\ RepoLimit)'
    BY <1>1, <1>u DEF Enqueue, rowVars, trackVars, jobVars, passVars, tickVars, pollVars,
       envVars
<1>2. ASSUME NEW j \in Jobs, Recover(j) PROVE (LimitInv /\ RepoLimit)'
    BY <1>2, <1>u DEF Recover, rowVars, trackVars, jobVars, passVars, tickVars, pollVars,
       envVars
<1>3. ASSUME NEW j \in Jobs, StartFail(j) PROVE (LimitInv /\ RepoLimit)'
    BY <1>3, <1>u DEF StartFail, rowVars, trackVars, jobVars, passVars, tickVars, pollVars,
       envVars
<1>4. ASSUME NEW j \in Jobs, StartBusy(j) PROVE (LimitInv /\ RepoLimit)'
    BY <1>4, <1>u DEF StartBusy, rowVars, trackVars, jobVars, passVars, tickVars, pollVars,
       envVars
<1>5. ASSUME NEW j \in Jobs, Start(j) PROVE (LimitInv /\ RepoLimit)'
    BY <1>5, <1>u DEF Start, rowVars, trackVars, jobVars, passVars, tickVars, pollVars, envVars
<1>6. ASSUME NEW j \in Jobs, NEW res \in {"ok", "err"}, Finish(j, res)
      PROVE  (LimitInv /\ RepoLimit)'
    BY <1>6, <1>u DEF Finish, rowVars, trackVars, jobVars, passVars, tickVars, pollVars, envVars
<1>7. ASSUME NEW j \in Jobs, BarrierRelease(j) PROVE (LimitInv /\ RepoLimit)'
    BY <1>7, <1>u DEF BarrierRelease, rowVars, trackVars, jobVars, passVars, tickVars,
       pollVars, envVars
<1>8. ASSUME NEW j \in Jobs, BarrierEnd(j) PROVE (LimitInv /\ RepoLimit)'
  <2>1. UNCHANGED <<sel, cur, at, pools, trepo>>
    BY <1>8 DEF BarrierEnd, rowVars, trackVars, jobVars, passVars, tickVars, pollVars, envVars
  <2>2. \A i \in Jobs : trk'[i] \in {trk[i], NoKey}
    BY <1>8, <1>ty DEF BarrierEnd
  <2>3. \A i \in Jobs : by'[i] = by[i] \/ (by[i] = "tick" /\ by'[i] = "none")
    BY <1>8, <1>ty DEF BarrierEnd
  <2>4. \A q \in Repos : Own(q)' = Own(q) /\ InFlightIn(q)' \subseteq InFlightIn(q)
    BY <2>2, <2>3, <1>pa DEF Own, InFlightIn, InFlight
  <2>5. \A q \in Passes : Started(q)' = Started(q)
    BY <2>1 DEF Started, Given
  <2>6. \A q \in Repos : Load(q)' \subseteq Load(q)
    BY <2>1, <2>4, <2>5, <1>pa DEF Load
  <2> QED
    BY <2>1, <2>3, <2>4, <2>6, <1>l, <1>ty, <1>pa, <1>m DEF LimitInv
<1>9. ASSUME NEW s \in Sessions, FgSession(s) PROVE (LimitInv /\ RepoLimit)'
    BY <1>9, <1>u DEF FgSession, rowVars, trackVars, jobVars, passVars, tickVars, pollVars,
       envVars
<1>10. ASSUME NEW r \in Repos, Flip(r) PROVE (LimitInv /\ RepoLimit)'
    BY <1>10, <1>u DEF Flip, rowVars, trackVars, jobVars, passVars, tickVars, pollVars, envVars
<1>11. ASSUME NEW r \in Repos, TickLock(r) PROVE (LimitInv /\ RepoLimit)'
  <2>1. /\ UNCHANGED <<trk, by, sel, cur, pools>> /\ at["tick"] = "idle" /\ trepo' = r
        /\ at' = [at EXCEPT !["tick"] = "maint"]
    BY <1>11 DEF TickLock, Step, rowVars, trackVars, jobVars, passVars, tickVars, pollVars,
       envVars
  <2>2. Started("tick")' = {} /\ \A q \in Repos : Started(q)' = Started(q)
    BY <2>1, <1>ty, <1>pa, <1>e DEF Started, Given
  <2> QED
    BY <2>1, <2>2, <1>l, <1>ty, <1>m, ZenonT(60) DEF LimitInv, Load, Own, InFlightIn, InFlight
<1>12. ASSUME NEW k \in Keys, MaintCheck(k) PROVE (LimitInv /\ RepoLimit)'
  <2>1. /\ UNCHANGED <<trk, by, sel, pools, trepo>>
        /\ \E s \in {"maint", "mutating", "unlock", "select"} : at' = [at EXCEPT !["tick"] = s]
        /\ \A q \in Passes : q # "tick" => cur'[q] = cur[q]
    BY <1>12, <1>ty, <1>pa DEF MaintCheck, Step, rowVars, trackVars, jobVars, passVars,
       tickVars, pollVars, envVars
  <2> QED
    BY <2>1, <1>ty, <1>pa, <1>s DEF Spots
<1>13. CASE MaintDone
  <2>1. /\ UNCHANGED <<trk, by, sel, pools, trepo>>
        /\ \E s \in {"maint", "mutating", "unlock", "select"} : at' = [at EXCEPT !["tick"] = s]
        /\ \A q \in Passes : q # "tick" => cur'[q] = cur[q]
    BY <1>13, <1>ty, <1>pa DEF MaintDone, Step, rowVars, trackVars, jobVars, passVars,
       tickVars, pollVars, envVars
  <2> QED
    BY <2>1, <1>ty, <1>pa, <1>s DEF Spots
<1>14. CASE TickPool
  <2>1. trepo \in Repos /\ UNCHANGED <<trk, by, sel, cur, trepo>> /\ at["tick"] = "maint"
    BY <1>14 DEF TickPool, Base, TypeOK, PassInv, rowVars, trackVars, jobVars, passVars,
       tickVars, pollVars, envVars
  <2>2. CASE CanBeginPool(trepo)
    <3>1. /\ trepo \notin pools /\ InFlightIn(trepo) = {} /\ pools' = pools \cup {trepo}
          /\ at' = [at EXCEPT !["tick"] = "unlock", ![trepo] = "loop"]
      BY <1>14, <2>2 DEF TickPool, CanBeginPool
    <3>2. Own(trepo)' = {} /\ InFlightIn(trepo)' = {}
      BY <2>1, <3>1, <1>l DEF LimitInv, Own, InFlightIn, InFlight
    <3>3. at[trepo] = "idle"
      BY <2>1, <3>1, <1>h DEF Base, PassInv
    <3>4. /\ Started(trepo)' = {}
          /\ \A q \in Repos \ {trepo} : Started(q)' = Started(q)
      BY <2>1, <3>1, <3>3, <1>ty, <1>pa, <1>e DEF Started, Given
    <3> QED
      BY <2>1, <3>1, <3>2, <3>4, <1>l, <1>ty, <1>m, ZenonT(60) DEF LimitInv, Load, Own, InFlightIn, InFlight
  <2>3. CASE ~CanBeginPool(trepo)
    BY <1>14, <2>1, <2>3, <1>ty, <1>pa, <1>s DEF TickPool, Spots
  <2> QED
    BY <2>2, <2>3
<1>15. CASE TickList
  <2>1. /\ UNCHANGED <<trk, by, sel, pools, trepo>>
        /\ \E s \in {"maint", "mutating", "unlock", "select"} : at' = [at EXCEPT !["tick"] = s]
        /\ \A q \in Passes : q # "tick" => cur'[q] = cur[q]
    BY <1>15, <1>ty, <1>pa DEF TickList, Step, rowVars, trackVars, jobVars, passVars,
       tickVars, pollVars, envVars
  <2> QED
    BY <2>1, <1>ty, <1>pa, <1>s DEF Spots
<1>16. CASE TickSelect
  <2> DEFINE P == pend["tick"] \ InFlight
             sd == [checkouts |-> HeldKeys, runtimes |-> Runtimes(InFlight)]
             C == InFlightIn(trepo)
             n == Most(Slots(trepo, Cardinality(C)))
  <2>1. /\ UNCHANGED <<trk, by, cur, pools, trepo>> /\ at["tick"] = "select"
        /\ \E s \in {"wait", "begin"} : at' = [at EXCEPT !["tick"] = s]
    BY <1>16 DEF TickSelect, Step, rowVars, trackVars, jobVars, passVars, tickVars,
       pollVars, envVars
  <2>2. PICK R \in Repos : R = trepo /\ R \notin pools
    BY <2>1, <1>h, <1>pa DEF Base, TypeOK, PassInv
  <2>3. C \subseteq Load(R) /\ C \subseteq Jobs /\ Load(R) \subseteq Jobs
    BY <2>2, <1>lj DEF Load, Own, InFlightIn, InFlight
  <2>4. Cardinality(C) \in Nat /\ Cardinality(C) <= Limit[R]
    <3>1. /\ Cardinality(C) \in Nat /\ Cardinality(Load(R)) \in Nat
          /\ Cardinality(C) <= Cardinality(Load(R))
      BY <2>3, SubsetCount
    <3> QED
      BY <2>2, <3>1, <1>l, TrackerAssumption DEF LimitInv
  <2>5. n \in Nat /\ Cardinality(C) + n <= Limit[R]
    <3>1. CASE n = 0
      BY <2>2, <2>4, <3>1, TrackerAssumption
    <3>2. CASE n # 0
      BY <2>2, <2>4, <3>2, <1>h, SlotsFit DEF Base
    <3> QED
      BY <3>1, <3>2
  <2>6. \A S \in Selections("tick", P, n, sd) : S \subseteq P /\ Cardinality(S) <= n
    BY DEF Selections
  <2>7. P \subseteq Jobs
    BY <1>ty, <1>pa
  <2>8. sel' = sel \/ \E S \in Selections("tick", P, n, sd) : sel' = [sel EXCEPT !["tick"] = S]
    BY <1>16 DEF TickSelect
  <2> HIDE DEF P, sd, n
  <2>9. CASE sel' = sel
    BY <2>1, <2>9, <1>ty, <1>pa, <1>s DEF Spots
  <2>10. CASE \E S \in Selections("tick", P, n, sd) : sel' = [sel EXCEPT !["tick"] = S]
    <3>1. PICK S \in SUBSET Jobs : sel' = [sel EXCEPT !["tick"] = S] /\ Cardinality(S) <= n
      BY <2>6, <2>7, <2>10
    <3>2. Started("tick")' = S /\ \A q \in Passes \ {"tick"} : Started(q)' = Started(q)
      BY <2>1, <3>1, <1>ty, <1>pa DEF Started, Given
    <3>3. Cardinality(C \cup S) <= Limit[R]
      <4>1. Cardinality(C \cup S) <= Cardinality(C) + Cardinality(S)
        BY <2>3, UnionCount
      <4>2. Cardinality(S) \in Nat /\ Cardinality(C \cup S) \in Nat
        BY <2>3, SubsetCount
      <4> QED
        BY <2>2, <2>4, <2>5, <3>1, <4>1, <4>2, TrackerAssumption
    <3>4. Load(R)' = C \cup S /\ \A q \in Repos \ {R} : Load(q)' = Load(q)
      BY <2>1, <2>2, <3>2, <1>pa DEF Load, Own, InFlightIn, InFlight
    <3> QED
      BY <2>1, <2>2, <2>3, <3>1, <3>3, <3>4, <1>c
  <2> QED
    BY <2>8, <2>9, <2>10
<1>17. CASE TickUnlock
  <2>1. /\ UNCHANGED <<trk, by, sel, cur, pools>> /\ trepo' = NoRepo
        /\ at' = [at EXCEPT !["tick"] = "idle"]
    BY <1>17 DEF TickUnlock, rowVars, trackVars, jobVars, passVars, tickVars, pollVars, envVars
  <2>2. \A q \in Repos : Started(q)' = Started(q)
    BY <2>1, <1>ty, <1>pa DEF Started, Given
  <2> QED
    BY <2>1, <2>2, <1>l, <1>pa, <1>ty, <1>m, ZenonT(60) DEF LimitInv, Load, Own, InFlightIn, InFlight
<1>18. ASSUME NEW p \in Passes, NEW j \in Jobs, Reserve(p, j) PROVE (LimitInv /\ RepoLimit)'
  <2>1. /\ UNCHANGED <<trk, by, pools, trepo>> /\ j \in sel[p] /\ at[p] = "begin"
        /\ sel' = [sel EXCEPT ![p] = sel[p] \ {j}]
    BY <1>18 DEF Reserve, rowVars, trackVars, jobVars, passVars, tickVars, pollVars, envVars
  <2>2. \/ at' = at /\ cur' = cur
        \/ at' = [at EXCEPT ![p] = "reserved"] /\ cur' = [cur EXCEPT ![p] = j]
    BY <1>18 DEF Reserve
  <2>3. \A q \in Passes : Started(q)' \subseteq Started(q)
    BY <2>1, <2>2, <1>ty DEF Started, Given
  <2> QED
    BY <2>1, <2>3, <1>l, <1>pa, <1>ty, <1>m DEF LimitInv, Load, Own, InFlightIn, InFlight
<1>19. ASSUME NEW p \in Passes, Begin(p) PROVE (LimitInv /\ RepoLimit)'
  <2> DEFINE b == cur[p]
  <2>1. b \in Jobs /\ at[p] = "reserved" /\ b \in Hand(p) /\ b \in Started(p)
    BY <1>19, <1>ty, <1>pa, <1>cu DEF Begin, Step, OnJob, Hand, Started, Given
  <2>2. /\ UNCHANGED <<sel, pools, trepo>>
        /\ at' = [at EXCEPT ![p] = "begin"] /\ cur' = [cur EXCEPT ![p] = NoJob]
    BY <1>19 DEF Begin, Step, rowVars, trackVars, jobVars, passVars, tickVars, pollVars, envVars
  <2>3. \A q \in Passes : Started(q)' \subseteq Started(q)
    BY <2>2, <1>ty, <1>pa DEF Started, Given
  <2>4. CASE trk' = trk /\ by' = by
    BY <2>2, <2>3, <2>4, <1>l, <1>pa, <1>ty, <1>m DEF LimitInv, Load, Own, InFlightIn, InFlight
  <2>5. CASE by' = [by EXCEPT ![b] = p] /\ \A i \in Jobs \ {b} : trk'[i] = trk[i]
    <3>1. PICK R \in Repos : /\ RepoOf[b] = R /\ (p \in Repos => R = p /\ p \in pools)
                             /\ (p = "tick" => R = trepo /\ trepo \notin pools)
      BY <2>1, <1>h, <1>pa, TrackerAssumption DEF HandInv, Base, TypeOK, PassInv, RepoAt
    <3>2. by'[b] = p /\ \A i \in Jobs \ {b} : by'[i] = by[i]
      BY <2>1, <2>5, <1>ty
    <3>3. \A q \in Repos : q # R => InFlightIn(q)' = InFlightIn(q) /\ Own(q)' \subseteq Own(q)
      BY <2>1, <2>5, <3>1, <3>2, <1>pa DEF InFlightIn, InFlight, Own
    <3>4. InFlightIn(R)' \subseteq InFlightIn(R) \cup {b}
      BY <2>1, <2>5, <3>1 DEF InFlightIn, InFlight
    <3>5. R \in pools => Own(R)' = Own(R) \cup {b}
      BY <2>1, <3>1, <3>2, <1>pa DEF Own
    <3>6. \A q \in Repos : Load(q)' \subseteq Load(q)
      <4>1. ASSUME NEW q \in Repos, q # R PROVE Load(q)' \subseteq Load(q)
        BY <2>2, <2>3, <3>3, <4>1, <1>pa DEF Load
      <4>2. Load(R)' \subseteq Load(R)
        BY <2>1, <2>2, <2>3, <3>1, <3>4, <3>5, <1>pa DEF Load
      <4> QED
        BY <4>1, <4>2
    <3>7. \A q \in pools : InFlightIn(q)' \subseteq Own(q)'
      <4>1. ASSUME NEW q \in pools, q # R PROVE InFlightIn(q)' \subseteq Own(q)'
        BY <2>1, <3>1, <3>2, <3>3, <4>1, <1>l, <1>ty DEF LimitInv, InFlightIn, InFlight, Own
      <4> QED
        BY <3>4, <3>5, <4>1, <1>l DEF LimitInv
    <3>8. \A i \in Jobs : by'[i] \in Repos => by'[i] \in pools'
      BY <2>1, <2>2, <3>1, <3>2, <1>l, <1>pa DEF LimitInv
    <3> QED
      BY <2>2, <3>6, <3>7, <3>8, <1>ty, <1>m
  <2> QED
    BY <1>19, <2>1, <2>4, <2>5, <1>ty DEF Begin
<1>20. ASSUME NEW r \in Repos, NEW j \in Jobs, PoolReap(r, j) PROVE (LimitInv /\ RepoLimit)'
  <2>1. /\ UNCHANGED <<trk, by, sel, pools, trepo>>
        /\ \E s \in {"ending"} : at' = [at EXCEPT ![r] = s]
        /\ \A q \in Passes : q # r => cur'[q] = cur[q]
    BY <1>20, <1>ty, <1>pa DEF PoolReap, rowVars, trackVars, jobVars, passVars, tickVars,
       pollVars, envVars
  <2> QED
    BY <2>1, <1>ty, <1>pa, <1>s, ZenonT(60) DEF Spots
<1>21. ASSUME NEW r \in Repos, PoolEnd(r) PROVE (LimitInv /\ RepoLimit)'
  <2>1. UNCHANGED <<by, sel, cur, pools, trepo>> /\ at' = [at EXCEPT ![r] = "releasing"]
    BY <1>21 DEF PoolEnd, Step, rowVars, trackVars, jobVars, passVars, tickVars, pollVars,
       envVars
  <2>2. \A i \in Jobs : trk'[i] \in {trk[i], NoKey}
    BY <1>21, <1>ty DEF PoolEnd
  <2> QED
    BY <2>1, <2>2, <1>l, <1>ty, <1>pa, <1>m DEF LimitInv, Load, Started, Given, Own,
       InFlightIn, InFlight
<1>22. ASSUME NEW r \in Repos, PoolRelease(r) PROVE (LimitInv /\ RepoLimit)'
  <2>1. /\ UNCHANGED <<trk, sel, pools, trepo>> /\ at[r] = "releasing" /\ at' = [at EXCEPT ![r] = "loop"]
        /\ cur' = [cur EXCEPT ![r] = NoJob] /\ by' = [by EXCEPT ![cur[r]] = "none"]
    BY <1>22 DEF PoolRelease, Step, rowVars, trackVars, jobVars, passVars, tickVars,
       pollVars, envVars
  <2>2. by[cur[r]] = r /\ trk[cur[r]] = NoKey
    BY <2>1, <1>w DEF WorkInv
  <2>3. \A q \in Passes : Started(q)' = Started(q)
    BY <2>1, <1>ty, <1>pa DEF Started, Given
  <2>4. \A q \in Repos : Own(q)' \subseteq Own(q)
    BY <2>1, <1>ty, <1>pa DEF Own
  <2>5. \A q \in pools : InFlightIn(q)' \subseteq Own(q)'
    BY <2>1, <2>2, <1>ty, <1>l DEF LimitInv, Own, InFlightIn, InFlight
  <2>6. \A i \in Jobs : by'[i] \in Repos => by'[i] \in pools'
    BY <2>1, <1>ty, <1>l, <1>pa DEF LimitInv
  <2> QED
    BY <2>1, <2>3, <2>4, <2>5, <2>6, <1>pa, <1>ty, <1>m DEF Load, InFlightIn, InFlight
<1>23. ASSUME NEW r \in Repos, PoolList(r) PROVE (LimitInv /\ RepoLimit)'
  <2>1. /\ UNCHANGED <<trk, by, sel, pools, trepo>>
        /\ \E s \in {"select", "wait"} : at' = [at EXCEPT ![r] = s]
        /\ \A q \in Passes : q # r => cur'[q] = cur[q]
    BY <1>23, <1>ty, <1>pa DEF PoolList, rowVars, trackVars, jobVars, passVars, tickVars,
       pollVars, envVars
  <2> QED
    BY <2>1, <1>ty, <1>pa, <1>s, ZenonT(60) DEF Spots
<1>24. ASSUME NEW r \in Repos, PoolSelect(r) PROVE (LimitInv /\ RepoLimit)'
  <2> DEFINE P == pend[r] \ (Bouncing(r) \cup InFlight)
             sd == [checkouts |-> HeldKeys, runtimes |-> Runtimes(InFlight)]
             C == Own(r)
             n == Most(Slots(r, Cardinality(C)))
  <2>1. /\ UNCHANGED <<trk, by, cur, pools, trepo>> /\ at[r] = "select"
        /\ \E s \in {"wait", "begin"} : at' = [at EXCEPT ![r] = s]
    BY <1>24 DEF PoolSelect, Step, rowVars, trackVars, jobVars, passVars, tickVars,
       pollVars, envVars
  <2>2. PICK R \in Repos : R = r /\ R \in pools
    BY <2>1, <1>h, <1>pa DEF Base, TypeOK, PassInv
  <2>3. C \subseteq Load(R) /\ C \subseteq Jobs /\ Load(R) \subseteq Jobs
    BY <2>2, <1>lj DEF Load, Own, InFlightIn, InFlight
  <2>4. Cardinality(C) \in Nat /\ Cardinality(C) <= Limit[R]
    <3>1. /\ Cardinality(C) \in Nat /\ Cardinality(Load(R)) \in Nat
          /\ Cardinality(C) <= Cardinality(Load(R))
      BY <2>3, SubsetCount
    <3> QED
      BY <2>2, <3>1, <1>l, TrackerAssumption DEF LimitInv
  <2>5. n \in Nat /\ Cardinality(C) + n <= Limit[R]
    <3>1. CASE n = 0
      BY <2>2, <2>4, <3>1, TrackerAssumption
    <3>2. CASE n # 0
      BY <2>2, <2>4, <3>2, <1>h, SlotsFit DEF Base
    <3> QED
      BY <3>1, <3>2
  <2>6. \A S \in Selections(r, P, n, sd) : S \subseteq P /\ Cardinality(S) <= n
    BY DEF Selections
  <2>7. P \subseteq Jobs
    BY <1>ty, <1>pa
  <2>8. sel' = sel \/ \E S \in Selections(r, P, n, sd) : sel' = [sel EXCEPT ![r] = S]
    BY <1>24 DEF PoolSelect
  <2> HIDE DEF P, sd, n
  <2>9. CASE sel' = sel
    BY <2>1, <2>9, <1>ty, <1>pa, <1>s DEF Spots
  <2>10. CASE \E S \in Selections(r, P, n, sd) : sel' = [sel EXCEPT ![r] = S]
    <3>1. PICK S \in SUBSET Jobs : sel' = [sel EXCEPT ![r] = S] /\ Cardinality(S) <= n
      BY <2>6, <2>7, <2>10
    <3>2. Started(r)' = S /\ \A q \in Passes \ {r} : Started(q)' = Started(q)
      BY <2>1, <3>1, <1>ty, <1>pa DEF Started, Given
    <3>3. Cardinality(C \cup S) <= Limit[R]
      <4>1. Cardinality(C \cup S) <= Cardinality(C) + Cardinality(S)
        BY <2>3, UnionCount
      <4>2. Cardinality(S) \in Nat /\ Cardinality(C \cup S) \in Nat
        BY <2>3, SubsetCount
      <4> QED
        BY <2>2, <2>4, <2>5, <3>1, <4>1, <4>2, TrackerAssumption
    <3>4. Load(R)' = C \cup S /\ \A q \in Repos \ {R} : Load(q)' = Load(q)
      BY <2>1, <2>2, <3>2, <1>pa DEF Load, Own, InFlightIn, InFlight
    <3> QED
      BY <2>1, <2>2, <2>3, <3>1, <3>3, <3>4, <1>c
  <2> QED
    BY <2>8, <2>9, <2>10
<1>25. ASSUME NEW r \in Repos, NEW j \in Jobs, PoolIsolate(r, j) PROVE (LimitInv /\ RepoLimit)'
  <2>1. /\ UNCHANGED <<trk, by, sel, pools, trepo>> /\ at[r] = "begin" /\ sel[r] = {}
        /\ Cardinality(Own(r)) < Limit[r]
    BY <1>25 DEF PoolIsolate, rowVars, trackVars, jobVars, passVars, tickVars, pollVars, envVars
  <2>2. CASE at' = at /\ cur' = cur
    BY <2>1, <2>2, <1>u
  <2>3. CASE at' = [at EXCEPT ![r] = "isolated"] /\ cur' = [cur EXCEPT ![r] = j]
    <3>1. Started(r)' = {j} /\ \A q \in Passes \ {r} : Started(q)' = Started(q)
      BY <2>1, <2>3, <1>ty, <1>pa DEF Started, Given
    <3>2. Cardinality(Own(r) \cup {j}) <= Limit[r]
      BY <2>1, AddCount, TrackerAssumption DEF Own
    <3>3. r \in pools
      BY <2>1, <1>h DEF Base, PassInv
    <3>4. Load(r)' = Own(r) \cup {j} /\ \A q \in Repos \ {r} : Load(q)' = Load(q)
      BY <2>1, <3>1, <3>3, <1>pa DEF Load, Own, InFlightIn, InFlight
    <3>5. Own(r) \subseteq Jobs
      BY DEF Own
    <3> QED
      BY <2>1, <3>2, <3>4, <3>5, <1>c
  <2> QED
    BY <1>25, <2>2, <2>3 DEF PoolIsolate
<1>26. ASSUME NEW r \in Repos, PoolIsolatedBegin(r) PROVE (LimitInv /\ RepoLimit)'
  <2> DEFINE b == cur[r]
  <2>1. b \in Jobs /\ at[r] = "isolated" /\ b \in Hand(r) /\ b \in Started(r)
    BY <1>26, <1>ty, <1>pa, <1>cu DEF PoolIsolatedBegin, Step, OnJob, Hand, Started, Given
  <2>2. /\ UNCHANGED <<sel, pools, trepo>>
        /\ at' = [at EXCEPT ![r] = "begin"] /\ cur' = [cur EXCEPT ![r] = NoJob]
    BY <1>26 DEF PoolIsolatedBegin, Step, rowVars, trackVars, jobVars, passVars, tickVars,
       pollVars, envVars
  <2>3. \A q \in Passes : Started(q)' \subseteq Started(q)
    BY <2>2, <1>ty, <1>pa DEF Started, Given
  <2>4. CASE trk' = trk /\ by' = by
    BY <2>2, <2>3, <2>4, <1>l, <1>pa, <1>ty, <1>m DEF LimitInv, Load, Own, InFlightIn, InFlight
  <2>5. CASE by' = [by EXCEPT ![b] = r] /\ \A i \in Jobs \ {b} : trk'[i] = trk[i]
    <3>1. PICK R \in Repos : /\ RepoOf[b] = R /\ (r \in Repos => R = r /\ r \in pools)
                             /\ (r = "tick" => R = trepo /\ trepo \notin pools)
      BY <2>1, <1>h, <1>pa, TrackerAssumption DEF HandInv, Base, TypeOK, PassInv, RepoAt
    <3>2. by'[b] = r /\ \A i \in Jobs \ {b} : by'[i] = by[i]
      BY <2>1, <2>5, <1>ty
    <3>3. \A q \in Repos : q # R => InFlightIn(q)' = InFlightIn(q) /\ Own(q)' \subseteq Own(q)
      BY <2>1, <2>5, <3>1, <3>2, <1>pa DEF InFlightIn, InFlight, Own
    <3>4. InFlightIn(R)' \subseteq InFlightIn(R) \cup {b}
      BY <2>1, <2>5, <3>1 DEF InFlightIn, InFlight
    <3>5. R \in pools => Own(R)' = Own(R) \cup {b}
      BY <2>1, <3>1, <3>2, <1>pa DEF Own
    <3>6. \A q \in Repos : Load(q)' \subseteq Load(q)
      <4>1. ASSUME NEW q \in Repos, q # R PROVE Load(q)' \subseteq Load(q)
        BY <2>2, <2>3, <3>3, <4>1, <1>pa DEF Load
      <4>2. Load(R)' \subseteq Load(R)
        BY <2>1, <2>2, <2>3, <3>1, <3>4, <3>5, <1>pa DEF Load
      <4> QED
        BY <4>1, <4>2
    <3>7. \A q \in pools : InFlightIn(q)' \subseteq Own(q)'
      <4>1. ASSUME NEW q \in pools, q # R PROVE InFlightIn(q)' \subseteq Own(q)'
        BY <2>1, <3>1, <3>2, <3>3, <4>1, <1>l, <1>ty DEF LimitInv, InFlightIn, InFlight, Own
      <4> QED
        BY <3>4, <3>5, <4>1, <1>l DEF LimitInv
    <3>8. \A i \in Jobs : by'[i] \in Repos => by'[i] \in pools'
      BY <2>1, <2>2, <3>1, <3>2, <1>l, <1>pa DEF LimitInv
    <3> QED
      BY <2>2, <3>6, <3>7, <3>8, <1>ty, <1>m
  <2> QED
    BY <1>26, <2>1, <2>4, <2>5, <1>ty DEF PoolIsolatedBegin
<1>27. ASSUME NEW r \in Repos, PoolDispatched(r) PROVE (LimitInv /\ RepoLimit)'
  <2>1. /\ UNCHANGED <<trk, by, sel, pools, trepo>>
        /\ \E s \in {"wait"} : at' = [at EXCEPT ![r] = s]
        /\ \A q \in Passes : q # r => cur'[q] = cur[q]
    BY <1>27, <1>ty, <1>pa DEF PoolDispatched, Step, rowVars, trackVars, jobVars, passVars,
       tickVars, pollVars, envVars
  <2> QED
    BY <2>1, <1>ty, <1>pa, <1>s, ZenonT(60) DEF Spots
<1>28. ASSUME NEW r \in Repos, PoolWait(r) PROVE (LimitInv /\ RepoLimit)'
  <2>1. UNCHANGED <<trk, by, sel, cur, trepo>> /\ at[r] = "wait" /\ r \in pools
    BY <1>28, <1>h DEF PoolWait, Step, Base, PassInv, rowVars, trackVars, jobVars, passVars,
       tickVars, pollVars, envVars
  <2>2. CASE pools' = pools
    BY <1>28, <2>1, <2>2, <1>ty, <1>pa, <1>s DEF PoolWait, Step, Spots
  <2>3. CASE Own(r) = {} /\ pools' = pools \ {r} /\ at' = [at EXCEPT ![r] = "idle"]
    <3>1. InFlightIn(r) = {}
      BY <2>1, <2>3, <1>l DEF LimitInv
    <3>2. \A q \in Passes \ {r} : Started(q)' = Started(q)
      BY <2>1, <2>3, <1>ty DEF Started, Given
    <3>3. trepo = r => Started("tick") = {}
      BY <2>1, <1>h, <1>e, <1>pa DEF Base, PassInv, Started, Given
    <3>4. \A q \in Repos : Own(q)' = Own(q) /\ InFlightIn(q)' = InFlightIn(q)
      BY <2>1 DEF Own, InFlightIn, InFlight
    <3>5. \A q \in Repos : Load(q)' \subseteq Load(q)
      BY <2>1, <2>3, <3>1, <3>2, <3>3, <3>4, <1>pa DEF Load
    <3>6. \A i \in Jobs : by'[i] \in Repos => by'[i] \in pools'
      BY <2>1, <2>3, <1>l DEF LimitInv, Own
    <3> QED
      BY <2>3, <3>4, <3>5, <3>6, <1>l, <1>ty, <1>m DEF LimitInv
  <2> QED
    BY <1>28, <2>2, <2>3 DEF PoolWait, Step
<1>29. ASSUME NEW r \in Repos, PollLock(r) PROVE (LimitInv /\ RepoLimit)'
    BY <1>29, <1>u DEF PollLock, rowVars, trackVars, jobVars, passVars, tickVars, pollVars,
       envVars
<1>30. CASE PollCheck
    BY <1>30, <1>u DEF PollCheck, rowVars, trackVars, jobVars, passVars, tickVars, pollVars,
       envVars
<1>31. CASE PollDone
    BY <1>31, <1>u DEF PollDone, rowVars, trackVars, jobVars, passVars, tickVars, pollVars,
       envVars
<1>32. CASE Stop
    BY <1>32, <1>u DEF Stop, rowVars, trackVars, jobVars, passVars, tickVars, pollVars, envVars
<1>33. CASE Drain
    BY <1>33, <1>u DEF Drain, rowVars, trackVars, jobVars, passVars, tickVars, pollVars, envVars
<1>34. CASE Down
  <2>1. /\ \A i \in Jobs : trk'[i] = NoKey /\ by'[i] = "none"
        /\ \A q \in Passes : sel'[q] = {} /\ at'[q] = "idle"
        /\ pools' = {}
    BY <1>34 DEF Down
  <2>2. \A q \in Repos : Load(q)' = {}
    BY <2>1, <1>pa DEF Load, Started, Given, InFlightIn, InFlight
  <2> QED
    BY <2>1, <2>2, <1>pa, <1>m
<1>35. CASE Up
    BY <1>35, <1>u DEF Up, rowVars, trackVars, jobVars, passVars, tickVars, pollVars, envVars
<1>36. CASE UNCHANGED vars
    BY <1>36, <1>u DEF vars, rowVars, trackVars, jobVars, passVars, tickVars, pollVars, envVars
<1>37. QED
    BY <1>1, <1>2, <1>3, <1>4, <1>5, <1>6, <1>7, <1>8, <1>9, <1>10, <1>11,
       <1>12, <1>13, <1>14, <1>15, <1>16, <1>17, <1>18, <1>19, <1>20, <1>21,
       <1>22, <1>23, <1>24, <1>25, <1>26, <1>27, <1>28, <1>29, <1>30, <1>31,
       <1>32, <1>33, <1>34, <1>35, <1>36
    DEF Next, JobStep, TickStep, PoolStep, PollStep, Passes

-----------------------------------------------------------------------------
(* The invariant and the theorems *)

Inv ==
    /\ Base /\ HandInv
    /\ KeyInv /\ CheckoutExclusive
    /\ MaintInv /\ MaintQuiet /\ PollQuiet
    /\ WorkInv /\ NoReservationLeak
    /\ HostLimit /\ BudgetInv
    /\ LimitInv /\ RepoLimit

\* The invariant holds at first.
LEMMA InitInv == Init => Inv
<1> SUFFICES ASSUME Init PROVE Inv
  OBVIOUS
<1>1. TypeOK
  BY TrackerAssumption DEF Init, TypeOK, NoSeed, Spots, Keys, Passes
<1>2. PassInv
  BY TrackerAssumption DEF Init, PassInv, Passes
<1>3. HandInv
  BY TrackerAssumption DEF Init, HandInv, Hand, Passes
<1>4. InFlight = {} /\ HeldKeys = {}
  BY DEF Init, InFlight, HeldKeys
<1>5. KeyInv /\ CheckoutExclusive
  BY <1>4 DEF Init, KeyInv, CheckoutExclusive, Picked
<1>6. MaintInv /\ MaintQuiet /\ PollQuiet
  BY DEF Init, MaintInv, MaintQuiet, PollQuiet
<1>7. WorkInv /\ NoReservationLeak
  BY DEF Init, WorkInv, NoReservationLeak, Todo, Given, Passes
<1>8. Cardinality({}) = 0
  BY FS_EmptySet
<1>9. Reservations = {} /\ HostLimit
  BY <1>4 DEF Init, Reservations, HostLimit
<1>10. BudgetInv
  BY <1>8, <1>9, TrackerAssumption DEF BudgetInv
<1>11. \A r \in Repos : InFlightIn(r) = {} /\ Load(r) = {}
  BY <1>4, TrackerAssumption DEF Init, InFlightIn, Load, Started, Given, Passes
<1>12. \A r \in Repos : Cardinality(InFlightIn(r)) <= Limit[r] /\ Cardinality(Load(r)) <= Limit[r]
  <2> TAKE r \in Repos
  <2>1. Limit[r] \in Nat
    BY TrackerAssumption
  <2>2. Cardinality(InFlightIn(r)) = 0 /\ Cardinality(Load(r)) = 0
    BY <1>8, <1>11
  <2> QED
    BY <2>1, <2>2
<1>13. /\ pools = {}
       /\ \A j \in Jobs : by[j] \notin Repos
  BY TrackerAssumption DEF Init
<1>14. LimitInv /\ RepoLimit
  BY <1>12, <1>13 DEF LimitInv, RepoLimit
<1> QED
  BY <1>1, <1>2, <1>3, <1>5, <1>6, <1>7, <1>9, <1>10, <1>14 DEF Inv, Base

\* Every step keeps the invariant.
LEMMA InvStep == Inv /\ [Next]_vars => Inv'
<1> SUFFICES ASSUME Inv, [Next]_vars PROVE Inv'
  OBVIOUS
<1>1. Base'
  BY TypeStep, PassStep DEF Inv, Base
<1>2. HandInv'
  BY HandStep DEF Inv
<1>3. (KeyInv /\ CheckoutExclusive)'
  BY KeyStep DEF Inv
<1>4. (MaintInv /\ MaintQuiet /\ PollQuiet)'
  BY QuietStep DEF Inv
<1>5. (WorkInv /\ NoReservationLeak)'
  BY WorkStep DEF Inv
<1>6. (HostLimit /\ BudgetInv)'
  BY CountStep DEF Inv
<1>7. (LimitInv /\ RepoLimit)'
  BY LimitStep DEF Inv
<1> QED
  BY <1>1, <1>2, <1>3, <1>4, <1>5, <1>6, <1>7 DEF Inv

\* The invariant holds always.
LEMMA InvHolds == Spec => []Inv
  BY InitInv, InvStep, PTL DEF Spec

\* Every variable keeps its type, whatever the passes, the goroutines of the
\* jobs, the poller and the process do.
THEOREM TrackerTypeCorrect == Spec => []TypeOK
<1>1. Inv => TypeOK
  BY DEF Inv, Base
<1> QED
  BY <1>1, InvHolds, PTL

\* Two jobs in flight never share a checkout: beginWithin does not compare keys,
\* what keeps them apart is that one pass at a time selects for a repository.
THEOREM CheckoutSafety == Spec => []CheckoutExclusive
<1>1. Inv => CheckoutExclusive
  BY DEF Inv
<1> QED
  BY <1>1, InvHolds, PTL

\* The jobs in flight stay within --workers or the largest limit of a repository
\* that exceeds it, although slots are computed from counts that move.
THEOREM HostLimitHolds == Spec => []HostLimit
<1>1. Inv => HostLimit
  BY DEF Inv
<1> QED
  BY <1>1, InvHolds, PTL

\* The jobs in flight of a repository stay within its limit, also while its
\* scheduler is changed from barrier to pool and back.
THEOREM RepoLimitHolds == Spec => []RepoLimit
<1>1. Inv => RepoLimit
  BY DEF Inv
<1> QED
  BY <1>1, InvHolds, PTL

\* PollOnce runs only while its repository has no job in flight and no pool pass.
THEOREM PollSafety == Spec => []PollQuiet
<1>1. Inv => PollQuiet
  BY DEF Inv
<1> QED
  BY <1>1, InvHolds, PTL

\* Maintenance mutates only checkouts that no job in flight holds.
THEOREM MaintSafety == Spec => []MaintQuiet
<1>1. Inv => MaintQuiet
  BY DEF Inv
<1> QED
  BY <1>1, InvHolds, PTL

\* No more runtime sessions execute than [admission] allows, in whatever order
\* reservations are made and released.
THEOREM AdmissionSafety == Spec => []AdmissionLimit
<1>1. Inv => AdmissionLimit
  <2> SUFFICES ASSUME Inv, MaxSessions > 0
               PROVE  Cardinality({j \in Jobs : wkr[j] \in {"start", "run"} /\ SessionOf[j] # NoSession})
                         <= MaxSessions
    BY DEF AdmissionLimit
  <2> DEFINE S == {j \in Jobs : wkr[j] \in {"start", "run"} /\ SessionOf[j] # NoSession}
  <2>1. S \subseteq Reservations /\ Reservations \subseteq Jobs
    BY DEF Inv, Base, TypeOK, WorkInv, Reservations
  <2>2. /\ Cardinality(S) <= Cardinality(Reservations)
        /\ Cardinality(S) \in Nat /\ Cardinality(Reservations) \in Nat
    BY <2>1, SubsetCount
  <2>3. Cardinality(Reservations) <= MaxSessions
    BY DEF Inv, BudgetInv
  <2> QED
    BY <2>2, <2>3, TrackerAssumption
<1> QED
  BY <1>1, InvHolds, PTL

\* Every reservation belongs to a job in flight or in the hands of a pass, so
\* none can be left behind to shrink the budget.
THEOREM ReservationSafety == Spec => []NoReservationLeak
<1>1. Inv => NoReservationLeak
  BY DEF Inv
<1> QED
  BY <1>1, InvHolds, PTL

-----------------------------------------------------------------------------
(* Isolation worktrees, while the daemon is not stopped and no worker of a   *)
(* read-only job fails without a result                                      *)

Over(j) == state[j] \in {"absent", "done"}
Reaping(j) == \E r \in Repos : at[r] \in {"ending", "releasing"} /\ cur[r] = j

\* A payload that points at a removed worktree belongs to a job that is over.
\* The reap takes the worktree away, so before that a run on it that has
\* returned is over, or bounced, or deferred, which is what the reap restores.
Placed(j) ==
    /\ state[j] = "running" <=> wkr[j] = "run"
    /\ wkr[j] # "err"
    /\ j \in iso \ tree => Over(j)
    /\ j \in iso \cap isoRun /\ wkr[j] = "ok" =>
          Over(j) \/ (state[j] = "queued" /\ j \in deferred)
    /\ j \in iso \cap isoRun /\ Reaping(j) => Over(j)
IsoInv == daemon = "up" /\ iso \subseteq ReadOnly /\ \A j \in ReadOnly : Placed(j)

\* Every step keeps IsoInv.
LEMMA IsoStep ==
    ASSUME MaxStops = 0, Faulty \cap ReadOnly = {}, Inv, IsoInv, [Next]_vars
    PROVE  IsoInv'
<1>ty. /\ at \in [Passes -> Spots] /\ cur \in [Passes -> Jobs \cup {NoJob}]
       /\ state \in [Jobs -> RowStates] /\ wkr \in [Jobs -> Phases]
       /\ rest \in [Passes -> SUBSET Jobs] /\ iso \subseteq Jobs /\ tree \subseteq Jobs
       /\ isoRun \subseteq Jobs /\ stops = 0
  BY DEF Inv, Base, TypeOK, RowStates, Phases
<1>pa. /\ "tick" \in Passes /\ Repos \subseteq Passes /\ "tick" \notin Repos /\ NoJob \notin Jobs
       /\ ReadOnly \subseteq Jobs
  BY TrackerAssumption DEF Passes
<1>up. daemon = "up" /\ ~Cancelled /\ iso \subseteq ReadOnly /\ \A j \in ReadOnly : Placed(j)
  BY DEF IsoInv, Cancelled
<1>re. \A j \in Jobs : Reaping(j) => Returned(j)
  BY DEF Inv, WorkInv, Reaping
<1>no. \A p \in Passes : \A j \in Todo(p) : wkr[j] = "none"
  BY DEF Inv, WorkInv
<1>cu. \A q \in Passes : cur[q] # NoJob <=> at[q] \in OnJob
  BY DEF Inv, Base, TypeOK, OnJob
\* Steps that leave alone what IsoInv is about
<1>q. ASSUME UNCHANGED <<state, iso, tree, deferred, wkr, isoRun, daemon>>,
             \A r \in Repos : at'[r] \in {"ending", "releasing"} =>
                 at[r] \in {"ending", "releasing"} /\ cur'[r] = cur[r]
      PROVE  IsoInv'
  BY <1>q, <1>up DEF IsoInv, Placed, Over, Reaping
\* Steps of a job's goroutine while it has not returned
<1>j. ASSUME NEW j \in Jobs, wkr[j] \in {"start", "run"},
             UNCHANGED <<iso, tree, isoRun, at, cur, daemon>>,
             \A k \in Jobs \ {j} : /\ state'[k] = state[k] /\ wkr'[k] = wkr[k]
                                   /\ k \in deferred => k \in deferred',
             j \in ReadOnly =>
                 /\ state'[j] = "running" <=> wkr'[j] = "run"
                 /\ wkr'[j] # "err"
                 /\ Over(j) => state'[j] = state[j]
                 /\ wkr'[j] = "ok" => \/ state'[j] \in {"absent", "done"}
                                      \/ state'[j] = "queued" /\ j \in deferred'
      PROVE  IsoInv'
  <2>1. ASSUME NEW k \in ReadOnly PROVE Placed(k)'
    <3>1. Reaping(k)' <=> Reaping(k)
      BY <1>j DEF Reaping
    <3>2. CASE k # j
      BY <1>j, <1>up, <1>pa, <3>1, <3>2 DEF Placed, Over
    <3>3. CASE k = j
      <4>1. ~Reaping(k)
        BY <1>j, <1>re, <3>3 DEF Returned
      <4>2. k \in iso' \ tree' => Over(k)
        BY <1>j, <1>up, <3>3 DEF Placed, Over
      <4> QED BY <1>j, <3>1, <3>3, <4>1, <4>2 DEF Placed, Over
    <3> QED BY <3>2, <3>3
  <2> QED BY <1>j, <1>up, <2>1 DEF IsoInv
\* Steps that change the tick's place only
<1>t. ASSUME NEW x, at' = [at EXCEPT !["tick"] = x]
      PROVE  \A r \in Repos : at'[r] = at[r]
  BY <1>t, <1>ty, <1>pa
\* Steps that put a dispatch down or take one up
<1>b. ASSUME NEW p \in Passes, NEW j \in Jobs, wkr[j] = "none",
             wkr' = wkr \/ wkr' = [wkr EXCEPT ![j] = "start"],
             at' = [at EXCEPT ![p] = "begin"], cur' = [cur EXCEPT ![p] = NoJob],
             UNCHANGED <<state, iso, tree, deferred, isoRun, daemon>>
      PROVE  IsoInv'
  <2>1. ASSUME NEW k \in ReadOnly PROVE Placed(k)'
    <3>1. Reaping(k)' => Reaping(k)
      BY <1>b, <1>ty, <1>pa DEF Reaping
    <3>2. wkr'[k] = wkr[k] \/ (wkr[k] = "none" /\ wkr'[k] = "start")
      BY <1>b, <1>ty, <1>pa
    <3> QED BY <1>b, <3>1, <3>2, <1>up DEF Placed, Over
  <2> QED BY <1>b, <1>up, <2>1 DEF IsoInv
<1>w. ASSUME NEW j \in Jobs, wkr[j] \notin {"start", "run", "none"},
             \E x \in {"ending", "none"} : wkr' = [wkr EXCEPT ![j] = x],
             UNCHANGED <<state, iso, tree, isoRun, at, cur, daemon, deferred>>
      PROVE  IsoInv'
  <2>1. ASSUME NEW k \in ReadOnly PROVE Placed(k)'
    <3>1. Reaping(k)' <=> Reaping(k)
      BY <1>w DEF Reaping
    <3>2. wkr'[k] = wkr[k] \/ (wkr[k] # "run" /\ wkr'[k] \in {"ending", "none"})
      BY <1>w, <1>ty, <1>pa
    <3> QED BY <1>w, <3>1, <3>2, <1>up DEF Placed, Over
  <2> QED BY <1>w, <1>up, <2>1 DEF IsoInv
<1>1. ASSUME NEW j \in Jobs, Enqueue(j) PROVE IsoInv'
  <2>1. /\ Over(j) /\ state' = [state EXCEPT ![j] = "queued"]
        /\ iso' \subseteq iso /\ (j \in ReadOnly => j \notin iso')
        /\ deferred' = deferred \ {j} /\ UNCHANGED <<tree, wkr, isoRun, at, cur, daemon>>
    BY <1>1 DEF Enqueue, Over, rowVars, trackVars, jobVars, passVars, tickVars, pollVars, envVars
  <2>2. ASSUME NEW k \in ReadOnly PROVE Placed(k)'
    <3>1. Reaping(k)' <=> Reaping(k)
      BY <2>1 DEF Reaping
    <3> QED BY <2>1, <3>1, <1>up, <1>ty, <1>pa DEF Placed, Over
  <2> QED BY <2>1, <2>2, <1>up DEF IsoInv
<1>2. ASSUME NEW j \in Jobs, Recover(j) PROVE IsoInv'
  <2>1. /\ state[j] = "running" /\ state' = [state EXCEPT ![j] = "queued"]
        /\ UNCHANGED <<iso, tree, deferred, wkr, isoRun, at, cur, daemon>>
    BY <1>2 DEF Recover, rowVars, trackVars, jobVars, passVars, tickVars, pollVars, envVars
  <2>2. j \notin ReadOnly
    <3>1. trk[j] = NoKey
      BY <1>2 DEF Recover, InFlight
    <3>2. wkr[j] # "run"
      BY <3>1, <1>pa DEF Inv, WorkInv, Returned
    <3> QED BY <2>1, <3>2, <1>up DEF Placed
  <2>3. ASSUME NEW k \in ReadOnly PROVE Placed(k)'
    <3>1. Reaping(k)' <=> Reaping(k)
      BY <2>1 DEF Reaping
    <3> QED BY <2>1, <2>2, <3>1, <1>up, <1>ty, <1>pa DEF Placed, Over
  <2> QED BY <2>1, <2>3, <1>up DEF IsoInv
<1>3. ASSUME NEW j \in Jobs, StartFail(j) PROVE IsoInv'
  <2>1. /\ wkr[j] = "start" /\ UNCHANGED <<iso, tree, isoRun, at, cur, daemon, deferred>>
        /\ \/ state[j] # "queued" /\ wkr' = [wkr EXCEPT ![j] = "ok"] /\ state' = state
           \/ /\ state[j] = "queued" /\ state' = [state EXCEPT ![j] = "done"]
              /\ wkr' = [wkr EXCEPT ![j] = "ok"]
           \/ j \in Faulty /\ wkr' = [wkr EXCEPT ![j] = "err"] /\ state' = state
    BY <1>3, <1>up DEF StartFail, SetWkr, rowVars, trackVars, jobVars, passVars, tickVars,
       pollVars, envVars
  <2>2. j \in ReadOnly => j \notin Faulty /\ state[j] # "running"
    BY <2>1, <1>up DEF Placed
  <2>3. \A k \in Jobs \ {j} : state'[k] = state[k] /\ wkr'[k] = wkr[k]
    BY <2>1, <1>ty
  <2>4. j \in ReadOnly => /\ wkr'[j] = "ok" /\ state'[j] \in {"absent", "done"}
                          /\ (Over(j) => state'[j] = state[j])
    BY <2>1, <2>2, <1>ty DEF RowStates, Over
  <2> QED BY <2>1, <2>2, <2>3, <2>4, <1>j
<1>4. ASSUME NEW j \in Jobs, StartBusy(j) PROVE IsoInv'
  <2>1. /\ wkr[j] = "start" /\ wkr' = [wkr EXCEPT ![j] = "busy"] /\ state[j] = "queued"
        /\ UNCHANGED <<state, iso, tree, isoRun, at, cur, daemon, deferred>>
    BY <1>4 DEF StartBusy, SetWkr, rowVars, trackVars, jobVars, passVars, tickVars, pollVars, envVars
  <2> QED BY <2>1, <1>j, <1>ty, <1>up DEF Placed, Over
<1>5. ASSUME NEW j \in Jobs, Start(j) PROVE IsoInv'
  <2>1. /\ wkr[j] = "start" /\ wkr' = [wkr EXCEPT ![j] = "run"] /\ state[j] = "queued"
        /\ state' = [state EXCEPT ![j] = "running"]
        /\ UNCHANGED <<iso, tree, isoRun, at, cur, daemon, deferred>>
    BY <1>5 DEF Start, SetWkr, rowVars, trackVars, jobVars, passVars, tickVars, pollVars, envVars
  <2> QED BY <2>1, <1>j, <1>ty, <1>up DEF Placed, Over
<1>6. ASSUME NEW j \in Jobs, NEW res \in {"ok", "err"}, Finish(j, res) PROVE IsoInv'
  <2>1. /\ wkr[j] = "run" /\ wkr' = [wkr EXCEPT ![j] = res]
        /\ UNCHANGED <<iso, tree, isoRun, at, cur, daemon>>
        /\ \/ res = "ok" /\ state' = [state EXCEPT ![j] = "done"] /\ deferred' = deferred
           \/ /\ res = "ok" /\ state' = [state EXCEPT ![j] = "queued"]
              /\ deferred' = deferred \cup {j}
           \/ j \in Faulty /\ UNCHANGED <<state, deferred>>
    BY <1>6, <1>up DEF Finish, SetWkr, rowVars, trackVars, jobVars, passVars, tickVars, pollVars,
       envVars
  <2> QED BY <2>1, <1>j, <1>ty, <1>up DEF Placed, Over
<1>7. ASSUME NEW j \in Jobs, BarrierRelease(j) \/ BarrierEnd(j) PROVE IsoInv'
  <2>1. /\ wkr[j] \notin {"start", "run", "none"}
        /\ \E x \in {"ending", "none"} : wkr' = [wkr EXCEPT ![j] = x]
        /\ UNCHANGED <<state, iso, tree, isoRun, at, cur, daemon, deferred>>
    BY <1>7 DEF BarrierRelease, BarrierEnd, SetWkr, Returned, rowVars, trackVars, jobVars,
       passVars, tickVars, pollVars, envVars
  <2> QED BY <2>1, <1>w
<1>9. ASSUME NEW s \in Sessions, FgSession(s) PROVE IsoInv'
  BY <1>9, <1>q DEF FgSession, trackVars, jobVars, passVars, tickVars, pollVars, envVars
<1>10. ASSUME NEW r \in Repos, Flip(r) PROVE IsoInv'
  BY <1>10, <1>q DEF Flip, rowVars, trackVars, jobVars, passVars, tickVars, pollVars
<1>11. ASSUME NEW r \in Repos, TickLock(r) PROVE IsoInv'
  BY <1>11, <1>q, <1>t DEF TickLock, Step, rowVars, trackVars, jobVars, pollVars, envVars
<1>12. ASSUME NEW k \in Keys, MaintCheck(k) PROVE IsoInv'
  BY <1>12, <1>q, <1>t DEF MaintCheck, Step, rowVars, trackVars, jobVars, pollVars, envVars
<1>13. CASE MaintDone
  BY <1>13, <1>q, <1>t DEF MaintDone, Step, rowVars, trackVars, jobVars, pollVars, envVars
<1>14. CASE TickPool
  <2>1. /\ UNCHANGED <<rowVars, jobVars, daemon, cur>>
        /\ \/ at' = [at EXCEPT !["tick"] = "unlock", ![trepo] = "loop"]
           \/ at' = [at EXCEPT !["tick"] = "unlock"]
    BY <1>14 DEF TickPool, envVars
  <2> QED BY <2>1, <1>q, <1>ty, <1>pa DEF rowVars, jobVars
<1>15. CASE TickList
  <2>1. /\ UNCHANGED <<rowVars, jobVars, daemon, cur>>
        /\ \/ at' = [at EXCEPT !["tick"] = "unlock"]
           \/ at' = [at EXCEPT !["tick"] = "select"]
    BY <1>15 DEF TickList, Step, envVars
  <2> QED BY <2>1, <1>t, <1>q DEF rowVars, jobVars
<1>16. CASE TickSelect
  BY <1>16, <1>q, <1>t DEF TickSelect, Step, rowVars, trackVars, jobVars, pollVars, envVars
<1>17. CASE TickUnlock
  BY <1>17, <1>q, <1>t DEF TickUnlock, rowVars, trackVars, jobVars, pollVars, envVars
<1>18. ASSUME NEW p \in Passes, NEW j \in Jobs, Reserve(p, j) PROVE IsoInv'
  <2>1. /\ UNCHANGED <<rowVars, jobVars, daemon>> /\ at[p] = "begin"
        /\ \/ UNCHANGED <<at, cur>>
           \/ at' = [at EXCEPT ![p] = "reserved"] /\ cur' = [cur EXCEPT ![p] = j]
    BY <1>18 DEF Reserve, envVars
  <2> QED BY <2>1, <1>q, <1>ty, <1>pa DEF rowVars, jobVars
<1>19. ASSUME NEW p \in Passes, Begin(p) PROVE IsoInv'
  <2>1. /\ UNCHANGED <<rowVars, isoRun, daemon>> /\ at[p] = "reserved"
        /\ at' = [at EXCEPT ![p] = "begin"] /\ cur' = [cur EXCEPT ![p] = NoJob]
        /\ wkr' = wkr \/ wkr' = [wkr EXCEPT ![cur[p]] = "start"]
    BY <1>19 DEF Begin, Step, SetWkr, envVars
  <2>2. cur[p] \in Jobs /\ wkr[cur[p]] = "none"
    BY <2>1, <1>ty, <1>cu, <1>no DEF OnJob, Todo, Given
  <2> QED BY <2>1, <2>2, <1>b DEF rowVars
<1>20. ASSUME NEW r \in Repos, NEW j \in Jobs, PoolReap(r, j) PROVE IsoInv'
  <2>1. /\ at[r] \in {"loop", "blocked"} /\ Returned(j)
        /\ at' = [at EXCEPT ![r] = "ending"] /\ cur' = [cur EXCEPT ![r] = j]
        /\ iso' = IF Restores(j) THEN iso \ {j} ELSE iso
        /\ UNCHANGED <<state, tree, deferred, jobVars, daemon>>
    BY <1>20 DEF PoolReap, envVars
  <2>2. ASSUME NEW k \in ReadOnly PROVE Placed(k)'
    <3>1. CASE k # j
      <4>1. Reaping(k)' => Reaping(k)
        BY <2>1, <3>1, <1>ty, <1>pa DEF Reaping
      <4> QED BY <2>1, <3>1, <4>1, <1>up DEF Placed, Over, jobVars
    <3>2. CASE k = j
      <4>1. j \in iso' \cap isoRun => wkr[j] # "busy" /\ ~(state[j] = "queued" /\ j \in deferred)
        BY <2>1 DEF Restores
      <4>2. j \in iso' \cap isoRun => Over(j)
        BY <2>1, <3>2, <4>1, <1>up DEF Placed, Returned
      <4> QED BY <2>1, <3>2, <4>2, <1>up DEF Placed, Over, jobVars
    <3> QED BY <3>1, <3>2
  <2>3. iso' \subseteq iso
    BY <2>1
  <2> QED BY <2>1, <2>2, <2>3, <1>up DEF IsoInv
<1>21. ASSUME NEW r \in Repos, PoolEnd(r) PROVE IsoInv'
  BY <1>21, <1>q, <1>ty, <1>pa DEF PoolEnd, Step, rowVars, jobVars, envVars
<1>22. ASSUME NEW r \in Repos, PoolRelease(r) PROVE IsoInv'
  <2> DEFINE j == cur[r]
  <2>1. /\ at[r] = "releasing" /\ at' = [at EXCEPT ![r] = "loop"]
        /\ cur' = [cur EXCEPT ![r] = NoJob]
        /\ tree' = IF j \in isoRun THEN tree \ {j} ELSE tree
        /\ isoRun' = isoRun \ {j} /\ wkr' = [wkr EXCEPT ![j] = "none"]
        /\ UNCHANGED <<state, iso, deferred, daemon>>
    BY <1>22 DEF PoolRelease, Step, envVars
  <2>2. j \in Jobs /\ Reaping(j) /\ Returned(j)
    BY <2>1, <1>ty, <1>pa, <1>cu, <1>re DEF Reaping, OnJob
  <2>3. ASSUME NEW k \in ReadOnly PROVE Placed(k)'
    <3>1. Reaping(k)' => Reaping(k)
      BY <2>1, <1>ty, <1>pa DEF Reaping
    <3>2. CASE k # j
      <4>1. /\ wkr'[k] = wkr[k] /\ (k \in isoRun' <=> k \in isoRun)
            /\ (k \in tree' <=> k \in tree)
        BY <2>1, <3>2, <1>ty, <1>pa
      <4> QED BY <2>1, <3>1, <4>1, <1>up DEF Placed, Over
    <3>3. CASE k = j
      <4>1. wkr'[j] = "none" /\ j \notin isoRun'
        BY <2>1, <2>2, <1>ty
      <4>2. j \in iso' \ tree' => Over(j)
        BY <2>1, <2>2, <3>3, <1>up DEF Placed
      <4> QED BY <2>1, <2>2, <3>3, <4>1, <4>2, <1>up DEF Placed, Over, Returned
    <3> QED BY <3>2, <3>3
  <2> QED BY <2>1, <2>3, <1>up DEF IsoInv
<1>23. ASSUME NEW r \in Repos, PoolList(r) PROVE IsoInv'
  <2>1. /\ UNCHANGED <<rowVars, jobVars, daemon, cur>>
        /\ \E x \in {"wait", "select"} : at' = [at EXCEPT ![r] = x]
    BY <1>23 DEF PoolList, envVars
  <2> QED BY <2>1, <1>q, <1>ty, <1>pa DEF rowVars, jobVars
<1>24. ASSUME NEW r \in Repos, PoolSelect(r) PROVE IsoInv'
  <2>1. /\ UNCHANGED <<rowVars, jobVars, daemon, cur>>
        /\ \E x \in {"wait", "begin"} : at' = [at EXCEPT ![r] = x]
    BY <1>24 DEF PoolSelect, Step, envVars
  <2> QED BY <2>1, <1>q, <1>ty, <1>pa DEF rowVars, jobVars
<1>25. ASSUME NEW r \in Repos, NEW j \in Jobs, PoolIsolate(r, j) PROVE IsoInv'
  <2>1. CASE UNCHANGED <<iso, tree, cur, at>>
    BY <1>25, <2>1, <1>q DEF PoolIsolate, jobVars, envVars
  <2>2. CASE /\ Isolable(r, j) /\ iso' = iso \cup {j} /\ tree' = tree \cup {j}
             /\ cur' = [cur EXCEPT ![r] = j] /\ at' = [at EXCEPT ![r] = "isolated"]
    <3>1. j \in ReadOnly /\ wkr[j] = "none" /\ UNCHANGED <<state, deferred, jobVars, daemon>>
      BY <1>25, <2>2, <1>no, <1>pa DEF PoolIsolate, Isolable, Todo, envVars
    <3>2. ASSUME NEW k \in ReadOnly PROVE Placed(k)'
      <4>1. Reaping(k)' => Reaping(k)
        BY <2>2, <1>ty, <1>pa DEF Reaping
      <4>2. k = j => ~Reaping(k)
        BY <3>1, <1>re, <1>pa DEF Returned
      <4> QED BY <2>2, <3>1, <4>1, <4>2, <1>up DEF Placed, Over, jobVars
    <3> QED BY <2>2, <3>1, <3>2, <1>up DEF IsoInv
  <2> QED BY <1>25, <2>1, <2>2 DEF PoolIsolate
<1>26. ASSUME NEW r \in Repos, PoolIsolatedBegin(r) PROVE IsoInv'
  <2> DEFINE j == cur[r]
  <2>1. /\ at[r] = "isolated" /\ at' = [at EXCEPT ![r] = "begin"]
        /\ cur' = [cur EXCEPT ![r] = NoJob] /\ UNCHANGED <<state, deferred, daemon>>
        /\ \/ /\ wkr' = [wkr EXCEPT ![j] = "start"] /\ isoRun' = isoRun \cup {j}
              /\ UNCHANGED <<iso, tree>>
           \/ iso' = iso \ {j} /\ tree' = tree \ {j} /\ UNCHANGED <<wkr, isoRun>>
    BY <1>26 DEF PoolIsolatedBegin, Step, SetWkr, envVars
  <2>2. j \in Jobs /\ wkr[j] = "none" /\ ~Reaping(j)
    BY <2>1, <1>ty, <1>pa, <1>cu, <1>no, <1>re DEF OnJob, Todo, Given, Returned
  <2>3. ASSUME NEW k \in ReadOnly PROVE Placed(k)'
    <3>1. Reaping(k)' => Reaping(k)
      BY <2>1, <1>ty, <1>pa DEF Reaping
    <3>2. CASE k # j
      <4>1. /\ wkr'[k] = wkr[k] /\ (k \in isoRun' <=> k \in isoRun)
            /\ (k \in tree' <=> k \in tree) /\ (k \in iso' <=> k \in iso)
        BY <2>1, <3>2, <1>ty, <1>pa
      <4> QED BY <2>1, <3>1, <4>1, <1>up DEF Placed, Over
    <3>3. CASE k = j
      <4>1. wkr'[j] \in {"none", "start"} /\ (j \in iso' \ tree' => j \in iso \ tree)
        BY <2>1, <2>2, <1>ty
      <4> QED BY <2>1, <2>2, <3>1, <3>3, <4>1, <1>up DEF Placed, Over
    <3> QED BY <3>2, <3>3
  <2> QED BY <2>1, <2>3, <1>up DEF IsoInv
<1>27. ASSUME NEW r \in Repos, PoolDispatched(r) PROVE IsoInv'
  BY <1>27, <1>q, <1>ty, <1>pa DEF PoolDispatched, Step, rowVars, jobVars, envVars
<1>28. ASSUME NEW r \in Repos, PoolWait(r) PROVE IsoInv'
  <2>1. /\ UNCHANGED <<rowVars, jobVars, daemon, cur>>
        /\ \E x \in {"loop", "blocked", "idle"} : at' = [at EXCEPT ![r] = x]
    BY <1>28 DEF PoolWait, Step, envVars
  <2> QED BY <2>1, <1>q, <1>ty, <1>pa DEF rowVars, jobVars
<1>29. ASSUME PollStep PROVE IsoInv'
  BY <1>29, <1>q DEF PollStep, PollLock, PollCheck, PollDone, rowVars, jobVars, passVars, envVars
<1>30. CASE Stop \/ Drain \/ Down \/ Up
  BY <1>30, <1>up, <1>ty DEF Stop, Drain, Down, Up
<1>31. CASE UNCHANGED vars
  BY <1>31, <1>q DEF vars, rowVars, jobVars, passVars, envVars
<1> QED
  BY <1>1, <1>2, <1>3, <1>4, <1>5, <1>6, <1>7, <1>9, <1>10, <1>11, <1>12, <1>13, <1>14, <1>15,
     <1>16, <1>17, <1>18, <1>19, <1>20, <1>21, <1>22, <1>23, <1>24, <1>25, <1>26, <1>27, <1>28,
     <1>29, <1>30, <1>31, <1>pa DEF Next, JobStep, TickStep, PoolStep

\* A queued job that no pass is handling never points at a removed isolation
\* worktree. A shutdown in the middle of a run, or a worker that fails without
\* a result, may leave one: the reap restores only what bounced or deferred.
THEOREM IsolationSafety ==
    ASSUME MaxStops = 0, Faulty \cap ReadOnly = {} PROVE Spec => []NotStranded
<1>1. Init => IsoInv
  <2> SUFFICES ASSUME Init PROVE IsoInv
    OBVIOUS
  <2>1. \A j \in ReadOnly : state[j] = "absent" /\ wkr[j] = "none"
    BY TrackerAssumption DEF Init
  <2> QED BY <2>1 DEF Init, IsoInv, Placed
<1>2. Inv /\ IsoInv /\ [Next]_vars => IsoInv'
  BY IsoStep
<1>3. IsoInv => NotStranded
  BY DEF IsoInv, Placed, Over, NotStranded
<1> QED
  BY <1>1, <1>2, <1>3, InvHolds, PTL DEF Spec
=============================================================================
