-------------------------- MODULE JobScheduleProofs --------------------------
(***************************************************************************)
(* What holds of one job whatever its writers interleave, for any number   *)
(* of workers, any thresholds and any number of acts and mishaps.          *)
(***************************************************************************)
EXTENDS JobSchedule, TLAPS

-----------------------------------------------------------------------------
(* Types.                                                                   *)

LEMMA NoSnapType == NoSnap \in Snapshots
BY JobAssumption, SMT DEF NoSnap, Snapshots

LEMMA IdleType == IdleWork \in Works
BY NoSnapType, SMT DEF IdleWork, Works, Places

\* Where the workers are after one of them moved.
LEMMA Moves ==
    ASSUME work \in [Workers -> Works], NEW w \in Workers, NEW p \in Places, Goto(w, p)
    PROVE  /\ work' \in [Workers -> Works]
           /\ \A v \in Workers : work'[v].pc = IF v = w THEN p ELSE work[v].pc
BY SMT DEF Goto, Works

LEMMA Releases ==
    ASSUME work \in [Workers -> Works], NEW w \in Workers, Release(w)
    PROVE  /\ work' \in [Workers -> Works]
           /\ \A v \in Workers : work'[v].pc = IF v = w THEN "idle" ELSE work[v].pc
BY IdleType, SMT DEF Release, IdleWork

LEMMA SnapshotType == RowType => Snapshot \in Snapshots
BY SMT DEF RowType, Snapshot, Snapshots

LEMMA RowStep == RowType /\ ProcType /\ [Next]_vars => RowType'
<1> SUFFICES ASSUME RowType, ProcType, [Next]_vars PROVE RowType'
  OBVIOUS
<1>1. RowType'
  <2>1. CASE World
    BY <2>1, JobAssumption, SMT DEF RowType, Statuses, Reasons, World, FireComes,
       CooldownElapses, HorizonPasses, Mishap, Blocks, Unblocks, vars, rowVars,
       worldVars, procVars, sideVars, countVars, histVars
  <2>2. CASE Owner
    BY <2>2, JobAssumption, SMT DEF RowType, Statuses, Reasons, Owner, PanelReads,
       PauseJob, OwnerActs, Stops, ownerLeaves, PauseTool, CancelJob, ResumeJob, Resumed,
       NextFires, Wakes, ActivateJob, RescheduleJob, vars, rowVars, worldVars,
       procVars, sideVars, countVars, histVars
  <2>3. CASE Admin
    BY <2>3, JobAssumption, SMT DEF RowType, Statuses, Reasons, Admin, SuspendFlips,
       Mishap, admLeaves, SuspendPauses, ReinstateFlips, ReinstateSelects,
       ReinstateJudges, ReinstateResumes, ReinstateFails, Resumed, NextFires, vars,
       rowVars, worldVars, procVars,
       sideVars, countVars, histVars
  <2>4. CASE EdgeReads \/ EdgeWrites
    BY <2>4, JobAssumption, SMT DEF RowType, Statuses, Reasons, EdgeReads,
       OwnerActs, EdgeWrites, NextFires, vars, rowVars, worldVars, procVars,
       sideVars, countVars, histVars
  <2>5. CASE Poller
    BY <2>5, JobAssumption, SMT DEF RowType, Statuses, Reasons, Poller, ScanReads,
       NextFires, pollLeaves, ResumeNoQuota, ResumeCapped, RearmCooled, HealZombie,
       DueReads, DueSkips, DueEnqueues, DueBanned, BanWrites, vars, rowVars,
       worldVars, procVars, sideVars, countVars, histVars
  <2>6. ASSUME NEW w \in Workers, Worker(w) \/ WorkerFault(w) PROVE RowType'
    <3>1. CASE Take(w)
      BY <3>1, JobAssumption, SMT DEF RowType, Statuses, Reasons, Take, At, Goto,
           Release, workLeaves, vars, rowVars, worldVars, procVars, sideVars,
           countVars, histVars
    <3>2. CASE Acquire(w)
      BY <3>2, JobAssumption, SMT DEF RowType, Statuses, Reasons, Acquire, At,
           Goto, Release, workLeaves, vars, rowVars, worldVars, procVars, sideVars,
           countVars, histVars
    <3>3. CASE SpendGate(w)
      BY <3>3, JobAssumption, SMT DEF RowType, Statuses, Reasons, SpendGate, At,
           Goto, Release, workLeaves, vars, rowVars, worldVars, procVars, sideVars,
           countVars, histVars
    <3>4. ASSUME NEW o \in Outcomes, RunEnds(w, o) PROVE RowType'
      BY <3>4, JobAssumption, SMT DEF RowType, Statuses, Reasons, RunEnds, At,
           Goto, Release, workLeaves, vars, rowVars, worldVars, procVars, sideVars,
           countVars, histVars
    <3>5. CASE FinalPauses(w)
      BY <3>5, JobAssumption, SMT DEF ProcType, Works, Snapshots, RowType,
           Statuses, Reasons, FinalPauses, At, Goto, Release, workLeaves, vars,
           rowVars, worldVars, procVars, sideVars, countVars, histVars
    <3>6. CASE FinalFails(w)
      BY <3>6, JobAssumption, SMT DEF ProcType, Works, Snapshots, OneMore,
           GivesUp, RowType, Statuses, Reasons, FinalFails, At, Goto, Release,
           workLeaves, vars, rowVars, worldVars, procVars, sideVars, countVars,
           histVars
    <3>7. CASE FinalCompletes(w)
      BY <3>7, JobAssumption, SMT DEF ProcType, Works, Snapshots, ClearBackoff,
           RowType, Statuses, Reasons, FinalCompletes, At, Goto, Release, workLeaves,
           vars, rowVars, worldVars, procVars, sideVars, countVars, histVars
    <3>8. CASE FinalRecurs(w)
      BY <3>8, JobAssumption, SMT DEF ProcType, Works, Snapshots, ClearBackoff,
           RowType, Statuses, Reasons, FinalRecurs, At, Goto, Release, workLeaves,
           vars, rowVars, worldVars, procVars, sideVars, countVars, histVars
    <3>9. CASE CheckStopped(w)
      BY <3>9, JobAssumption, SMT DEF RowType, Statuses, Reasons, CheckStopped,
           At, Goto, Release, workLeaves, vars, rowVars, worldVars, procVars,
           sideVars, countVars, histVars
    <3>10. CASE CheckHorizon(w)
      BY <3>10, JobAssumption, SMT DEF RowType, Statuses, Reasons, CheckHorizon,
           At, Goto, Release, workLeaves, vars, rowVars, worldVars, procVars,
           sideVars, countVars, histVars
    <3>11. CASE CheckRespects(w)
      BY <3>11, JobAssumption, SMT DEF RowType, Statuses, Reasons, CheckRespects,
           At, Goto, Release, workLeaves, vars, rowVars, worldVars, procVars,
           sideVars, countVars, histVars
    <3>12. CASE CheckReschedules(w)
      BY <3>12, JobAssumption, SMT DEF RowType, Statuses, Reasons,
           CheckReschedules, At, Goto, Release, workLeaves, vars, rowVars, worldVars,
           procVars, sideVars, countVars, histVars
    <3>13. CASE Rearm(w)
      BY <3>13, JobAssumption, SMT DEF RowType, Statuses, Reasons, Rearm, At,
           Goto, Release, workLeaves, vars, rowVars, worldVars, procVars, sideVars,
           countVars, histVars
    <3>14. CASE FailJob(w)
      BY <3>14, JobAssumption, SMT DEF RowType, Statuses, Reasons, FailJob, At,
           Goto, Release, workLeaves, vars, rowVars, worldVars, procVars, sideVars,
           countVars, histVars
    <3>15. CASE WorkerFault(w)
      BY <3>15, JobAssumption, SMT DEF RowType, Statuses, Reasons, WorkerFault,
           At, Goto, Release, workLeaves, Mishap, vars, rowVars, worldVars, procVars,
           sideVars, countVars, histVars
    <3> QED BY <2>6, <3>1, <3>2, <3>3, <3>4, <3>5, <3>6, <3>7, <3>8, <3>9, <3>10,
       <3>11, <3>12, <3>13, <3>14, <3>15, Zenon DEF Worker
  <2>7. CASE Analysis
    BY <2>7, JobAssumption, SMT DEF RowType, Statuses, Reasons, Analysis,
       HookWrites, HookSchedules, NextFires, Mishap, HookGivesUp, hookLeaves, vars,
       rowVars, worldVars,
       procVars, sideVars, countVars, histVars
  <2>8. CASE Crash \/ RecoverReads \/ RecoverWrites
    BY <2>8, JobAssumption, SMT DEF RowType, Statuses, Reasons, Crash, Mishap,
       RecoverReads, RecoverWrites, vars, rowVars, worldVars, procVars, sideVars, countVars,
        histVars
  <2>9. CASE UNCHANGED vars
    BY <2>9, JobAssumption, SMT DEF RowType, Statuses, Reasons, vars, rowVars,
       worldVars, procVars, sideVars, countVars, histVars
  <2> QED BY <2>1, <2>2, <2>3, <2>4, <2>5, <2>6, <2>7, <2>8, <2>9, Zenon DEF Next
<1> QED BY <1>1

LEMMA FlagStep == FlagType /\ [Next]_vars => FlagType'
<1> SUFFICES ASSUME FlagType, [Next]_vars PROVE FlagType'
  OBVIOUS
<1>1. FlagType'
  <2>1. CASE FireComes
    BY <2>1, Zenon DEF FlagType, FireComes, vars, rowVars, worldVars, procVars,
       sideVars, countVars, histVars
  <2>2. CASE CooldownElapses
    BY <2>2, Zenon DEF FlagType, CooldownElapses, vars, rowVars, worldVars,
       procVars, sideVars, countVars, histVars
  <2>3. CASE HorizonPasses
    BY <2>3, Zenon DEF FlagType, HorizonPasses, Mishap, vars, rowVars, worldVars,
       procVars, sideVars, countVars, histVars
  <2>4. CASE Blocks
    BY <2>4, Zenon DEF FlagType, Blocks, Mishap, vars, rowVars, worldVars,
       procVars, sideVars, countVars, histVars
  <2>5. CASE Unblocks
    BY <2>5, Zenon DEF FlagType, Unblocks, vars, rowVars, worldVars, procVars,
       sideVars, countVars, histVars
  <2>6. CASE PanelReads
    BY <2>6, Zenon DEF FlagType, PanelReads, OwnerActs, ownerLeaves, vars,
       rowVars, worldVars, procVars, sideVars, countVars, histVars
  <2>7. CASE PauseJob
    BY <2>7, Zenon DEF FlagType, WriterInFlight, PauseJob, OwnerActs, Stops,
       ownerLeaves, vars, rowVars, worldVars, procVars, sideVars, countVars,
       histVars
  <2>8. CASE PauseTool
    BY <2>8, Zenon DEF FlagType, PauseTool, OwnerActs, ownerLeaves, vars, rowVars,
       worldVars, procVars, sideVars, countVars, histVars
  <2>9. CASE CancelJob
    BY <2>9, Zenon DEF FlagType, WriterInFlight, CancelJob, OwnerActs, Stops,
       ownerLeaves, vars, rowVars, worldVars, procVars, sideVars, countVars,
       histVars
  <2>10. CASE ResumeJob
    BY <2>10, Zenon DEF FlagType, ResumeJob, OwnerActs, Resumed, NextFires, Wakes,
       ownerLeaves, vars, rowVars, worldVars, procVars, sideVars, countVars,
       histVars
  <2>11. CASE ActivateJob
    BY <2>11, Zenon DEF FlagType, ActivateJob, OwnerActs, Wakes, ownerLeaves,
       vars, rowVars, worldVars, procVars, sideVars, countVars, histVars
  <2>12. ASSUME NEW d \in {"later", "now"}, RescheduleJob(d) PROVE FlagType'
    BY <2>12, Zenon DEF FlagType, RescheduleJob, OwnerActs, ownerLeaves, vars,
       rowVars, worldVars, procVars, sideVars, countVars, histVars
  <2>13. CASE SuspendFlips
    BY <2>13, Zenon DEF FlagType, SuspendFlips, Mishap, admLeaves, vars, rowVars,
       worldVars, procVars, sideVars, countVars, histVars
  <2>14. CASE SuspendPauses
    BY <2>14, Zenon DEF FlagType, SuspendPauses, admLeaves, vars, rowVars,
       worldVars, procVars, sideVars, countVars, histVars
  <2>15. CASE ReinstateFlips
    BY <2>15, Zenon DEF FlagType, ReinstateFlips, admLeaves, vars, rowVars,
       worldVars, procVars, sideVars, countVars, histVars
  <2>16. CASE ReinstateSelects
    BY <2>16, Zenon DEF FlagType, ReinstateSelects, admLeaves, vars, rowVars,
       worldVars, procVars, sideVars, countVars, histVars
  <2>17. CASE ReinstateJudges
    BY <2>17, Zenon DEF FlagType, ReinstateJudges, admLeaves, vars, rowVars,
       worldVars, procVars, sideVars, countVars, histVars
  <2>18. CASE ReinstateResumes
    BY <2>18, Zenon DEF FlagType, ReinstateResumes, Resumed, NextFires, admLeaves,
       vars, rowVars, worldVars, procVars, sideVars, countVars, histVars
  <2>19. CASE ReinstateFails
    BY <2>19, Zenon DEF FlagType, ReinstateFails, admLeaves, SuspensionPaused,
       vars, rowVars, worldVars, procVars, sideVars, countVars, histVars
  <2>20. CASE EdgeReads
    BY <2>20, Zenon DEF FlagType, EdgeReads, OwnerActs, vars, rowVars, worldVars,
       procVars, sideVars, countVars, histVars
  <2>21. CASE EdgeWrites
    BY <2>21, Zenon DEF FlagType, EdgeWrites, NextFires, vars, rowVars, worldVars,
       procVars, sideVars, countVars, histVars
  <2>22. CASE ScanReads
    BY <2>22, Zenon DEF FlagType, ScanReads, NextFires, pollLeaves, vars, rowVars,
       worldVars, procVars, sideVars, countVars, histVars
  <2>23. CASE ResumeNoQuota
    BY <2>23, Zenon DEF FlagType, ResumeNoQuota, NextFires, pollLeaves, vars,
       rowVars, worldVars, procVars, sideVars, countVars, histVars
  <2>24. CASE ResumeCapped
    BY <2>24, Zenon DEF FlagType, ResumeCapped, NextFires, pollLeaves, vars,
       rowVars, worldVars, procVars, sideVars, countVars, histVars
  <2>25. CASE RearmCooled
    BY <2>25, Zenon DEF FlagType, RearmCooled, NextFires, pollLeaves, vars,
       rowVars, worldVars, procVars, sideVars, countVars, histVars
  <2>26. CASE HealZombie
    BY <2>26, Zenon DEF FlagType, HealZombie, NextFires, pollLeaves, vars,
       rowVars, worldVars, procVars, sideVars, countVars, histVars
  <2>27. CASE DueReads
    BY <2>27, Zenon DEF FlagType, DueReads, NextFires, pollLeaves, vars, rowVars,
       worldVars, procVars, sideVars, countVars, histVars
  <2>28. CASE DueSkips
    BY <2>28, Zenon DEF FlagType, DueSkips, NextFires, pollLeaves, vars, rowVars,
       worldVars, procVars, sideVars, countVars, histVars
  <2>29. CASE DueEnqueues
    BY <2>29, Zenon DEF FlagType, DueEnqueues, NextFires, pollLeaves, vars,
       rowVars, worldVars, procVars, sideVars, countVars, histVars
  <2>30. CASE DueBanned
    BY <2>30, Zenon DEF FlagType, DueBanned, NextFires, pollLeaves, vars, rowVars,
       worldVars, procVars, sideVars, countVars, histVars
  <2>31. CASE BanWrites
    BY <2>31, Zenon DEF FlagType, BanWrites, NextFires, pollLeaves, vars, rowVars,
       worldVars, procVars, sideVars, countVars, histVars
  <2>32. ASSUME NEW w \in Workers, Take(w) PROVE FlagType'
    BY <2>32, Zenon DEF FlagType, Take, At, Goto, Release, workLeaves, vars,
       rowVars, worldVars, procVars, sideVars, countVars, histVars
  <2>33. ASSUME NEW w \in Workers, Acquire(w) PROVE FlagType'
    BY <2>33, Zenon DEF FlagType, Acquire, At, Goto, Release, workLeaves, vars,
       rowVars, worldVars, procVars, sideVars, countVars, histVars
  <2>34. ASSUME NEW w \in Workers, SpendGate(w) PROVE FlagType'
    BY <2>34, Zenon DEF FlagType, SpendGate, At, Goto, Release, workLeaves, vars,
       rowVars, worldVars, procVars, sideVars, countVars, histVars
  <2>35. ASSUME NEW w \in Workers, NEW o \in Outcomes, RunEnds(w, o) PROVE FlagType'
    BY <2>35, Zenon DEF FlagType, RunEnds, At, Goto, Release, workLeaves, vars,
       rowVars, worldVars, procVars, sideVars, countVars, histVars
  <2>36. ASSUME NEW w \in Workers, FinalPauses(w) PROVE FlagType'
    BY <2>36, Zenon DEF FlagType, FinalPauses, At, Goto, Release, workLeaves,
       vars, rowVars, worldVars, procVars, sideVars, countVars, histVars
  <2>37. ASSUME NEW w \in Workers, FinalFails(w) PROVE FlagType'
    BY <2>37, Zenon DEF FlagType, FinalFails, At, Goto, Release, workLeaves, vars,
       rowVars, worldVars, procVars, sideVars, countVars, histVars
  <2>38. ASSUME NEW w \in Workers, FinalCompletes(w) PROVE FlagType'
    BY <2>38, Zenon DEF FlagType, FinalCompletes, At, Goto, Release, workLeaves,
       vars, rowVars, worldVars, procVars, sideVars, countVars, histVars
  <2>39. ASSUME NEW w \in Workers, FinalRecurs(w) PROVE FlagType'
    BY <2>39, Zenon DEF FlagType, FinalRecurs, At, Goto, Release, workLeaves,
       vars, rowVars, worldVars, procVars, sideVars, countVars, histVars
  <2>40. ASSUME NEW w \in Workers, CheckStopped(w) PROVE FlagType'
    BY <2>40, Zenon DEF FlagType, CheckStopped, At, Goto, Release, workLeaves,
       vars, rowVars, worldVars, procVars, sideVars, countVars, histVars
  <2>41. ASSUME NEW w \in Workers, CheckHorizon(w) PROVE FlagType'
    BY <2>41, Zenon DEF FlagType, CheckHorizon, At, Goto, Release, workLeaves,
       vars, rowVars, worldVars, procVars, sideVars, countVars, histVars
  <2>42. ASSUME NEW w \in Workers, CheckRespects(w) PROVE FlagType'
    BY <2>42, Zenon DEF FlagType, CheckRespects, At, Goto, Release, workLeaves,
       vars, rowVars, worldVars, procVars, sideVars, countVars, histVars
  <2>43. ASSUME NEW w \in Workers, CheckReschedules(w) PROVE FlagType'
    BY <2>43, Zenon DEF FlagType, CheckReschedules, At, Goto, Release, workLeaves,
       vars, rowVars, worldVars, procVars, sideVars, countVars, histVars
  <2>44. ASSUME NEW w \in Workers, Rearm(w) PROVE FlagType'
    BY <2>44, Zenon DEF FlagType, Rearm, At, Goto, Release, workLeaves, vars,
       rowVars, worldVars, procVars, sideVars, countVars, histVars
  <2>45. ASSUME NEW w \in Workers, FailJob(w) PROVE FlagType'
    BY <2>45, Zenon DEF FlagType, FailJob, At, Goto, Release, workLeaves, vars,
       rowVars, worldVars, procVars, sideVars, countVars, histVars
  <2>46. ASSUME NEW w \in Workers, WorkerFault(w) PROVE FlagType'
    BY <2>46, Zenon DEF FlagType, WorkerFault, At, Goto, Release, workLeaves,
       Mishap, vars, rowVars, worldVars, procVars, sideVars, countVars, histVars
  <2>47. ASSUME NEW s \in {"completed", "active", "failed"}, HookWrites(s) PROVE FlagType'
    BY <2>47, Zenon DEF FlagType, HookWrites, NextFires, Mishap, hookLeaves, vars,
       rowVars, worldVars, procVars, sideVars, countVars, histVars
  <2>48. CASE HookSchedules
    BY <2>48, Zenon DEF FlagType, HookSchedules, hookLeaves, NextFires, vars,
       rowVars, worldVars, procVars, sideVars, countVars, histVars
  <2>49. CASE HookGivesUp
    BY <2>49, Zenon DEF FlagType, HookGivesUp, hookLeaves, vars, rowVars,
       worldVars, procVars, sideVars, countVars, histVars
  <2>50. CASE Crash
    BY <2>50, Zenon DEF FlagType, Crash, Mishap, vars, rowVars, worldVars,
       procVars, sideVars, countVars, histVars
  <2>51. CASE RecoverReads
    BY <2>51, Zenon DEF FlagType, RecoverReads, Interrupted, vars, rowVars,
       worldVars, procVars, sideVars, countVars, histVars
  <2>52. CASE RecoverWrites
    BY <2>52, Zenon DEF FlagType, RecoverWrites, vars, rowVars, worldVars,
       procVars, sideVars, countVars, histVars
  <2>53. CASE UNCHANGED vars
    BY <2>53, Zenon DEF FlagType, vars, rowVars, worldVars, procVars, sideVars,
       countVars, histVars
  <2> QED BY <2>1, <2>2, <2>3, <2>4, <2>5, <2>6, <2>7, <2>8, <2>9, <2>10, <2>11,
       <2>12, <2>13, <2>14, <2>15, <2>16, <2>17, <2>18, <2>19, <2>20, <2>21,
       <2>22, <2>23, <2>24, <2>25, <2>26, <2>27, <2>28, <2>29, <2>30, <2>31,
       <2>32, <2>33, <2>34, <2>35, <2>36, <2>37, <2>38, <2>39, <2>40, <2>41,
       <2>42, <2>43, <2>44, <2>45, <2>46, <2>47, <2>48, <2>49, <2>50, <2>51,
       <2>52, <2>53, Zenon DEF Next, World, Owner, Admin, Poller, Worker, Analysis
<1> QED BY <1>1

\* Only the poller and the workers touch what ProcType is about.
LEMMA ProcStep == TypeOK /\ [Next]_vars => ProcType'
<1> SUFFICES ASSUME TypeOK, [Next]_vars PROVE ProcType'
  OBVIOUS
<1>1. Snapshot \in Snapshots
  BY SnapshotType DEF TypeOK
<1>2. CASE UNCHANGED procVars
  BY <1>2, SMT DEF TypeOK, ProcType, procVars
<1>3. CASE Poller
  BY <1>1, <1>3, NoSnapType, SMT DEF TypeOK, ProcType, Poller, ScanReads, ResumeNoQuota,
     ResumeCapped, RearmCooled, HealZombie, DueReads, DueSkips, DueEnqueues, DueBanned,
     BanWrites, pollLeaves
<1>4. ASSUME NEW w \in Workers, Worker(w) \/ WorkerFault(w) PROVE ProcType'
  <2>1. CASE Take(w)
    <3>1. Head(queue) \in Snapshots /\ Tail(queue) \in Seq(Snapshots)
      BY <2>1, SMT DEF TypeOK, ProcType, Take
    <3> QED
      BY <2>1, <3>1, SMT DEF TypeOK, ProcType, Take, workLeaves, Works, Places
  <2>2. CASE \E o \in Outcomes : RunEnds(w, o)
    <3>1. PICK o \in Outcomes : RunEnds(w, o)
      BY <2>2
    <3>2. [pc |-> "final", snap |-> work[w].snap, out |-> o] \in Works
      BY SMT DEF TypeOK, ProcType, Works, Places
    <3> QED
      BY <3>1, <3>2, SMT DEF TypeOK, ProcType, RunEnds, workLeaves
  <2>3. ASSUME NEW p \in Places, Goto(w, p) \/ Release(w),
               queue' = queue, seen' = seen
        PROVE  ProcType'
    BY <2>3, Moves, Releases, Zenon DEF TypeOK, ProcType
  <2> QED
    BY <2>1, <2>2, <2>3, <1>4, SMT DEF Worker, Acquire, SpendGate, FinalPauses, FinalFails,
       FinalCompletes, FinalRecurs, CheckStopped, CheckHorizon, CheckRespects,
       CheckReschedules, Rearm, FailJob, WorkerFault, workLeaves, Places
<1>5. CASE Crash \/ RecoverReads \/ RecoverWrites
  <2>1. CASE Crash
    BY <2>1, NoSnapType, IdleType, SMT DEF TypeOK, ProcType, Crash
  <2>2. CASE RecoverReads \/ RecoverWrites
    BY <2>2, Zenon DEF TypeOK, ProcType, RecoverReads, RecoverWrites
  <2> QED BY <1>5, <2>1, <2>2
<1> QED
  BY <1>2, <1>3, <1>4, <1>5, SMT DEF Next, World, FireComes, CooldownElapses, HorizonPasses,
     Blocks, Unblocks, Owner, PanelReads, PauseJob, PauseTool, CancelJob, ResumeJob, ActivateJob,
     RescheduleJob, ownerLeaves, Admin, SuspendFlips, SuspendPauses, ReinstateFlips,
     ReinstateSelects, ReinstateJudges, ReinstateResumes, ReinstateFails, admLeaves,
     EdgeReads, EdgeWrites, Analysis, HookWrites, HookSchedules, HookGivesUp, hookLeaves,
     vars

LEMMA InitType == Init => TypeOK
<1> SUFFICES ASSUME Init PROVE TypeOK
  OBVIOUS
<1>1. RowType
  BY JobAssumption, SMT DEF Init, RowType, Statuses, Reasons
<1>2. FlagType
  BY Zenon DEF Init, FlagType
<1>3. ProcType
  BY NoSnapType, IdleType, SMT DEF Init, ProcType
<1> QED BY <1>1, <1>2, <1>3 DEF TypeOK

\* Every variable of a job and of its writers keeps its type, for any number of
\* workers and any thresholds.
THEOREM TypeCorrect == Spec => []TypeOK
<1>1. TypeOK /\ [Next]_vars => TypeOK'
  BY RowStep, FlagStep, ProcStep, Zenon DEF TypeOK
<1> QED BY <1>1, InitType, PTL DEF Spec

-----------------------------------------------------------------------------
(* One run at a time.                                                       *)

\* The claim is made before the snapshot is queued and given up after the worker is
\* done: the queue and the workers hold the job once, between them.
Alone ==
    /\ ~claimed => queue = <<>> /\ \A w \in Workers : At(w, "idle")
    /\ queue # <<>> => Len(queue) = 1 /\ \A w \in Workers : At(w, "idle")
    /\ \A v, w \in Workers : At(v, "idle") \/ At(w, "idle") \/ v = w

LEMMA AloneStep == TypeOK /\ Alone /\ [Next]_vars => Alone'
<1> SUFFICES ASSUME TypeOK, Alone, [Next]_vars PROVE Alone'
  OBVIOUS
<1>0. work \in [Workers -> Works] /\ queue \in Seq(Snapshots)
  BY DEF TypeOK, ProcType
<1>1. CASE UNCHANGED <<queue, claimed, work>>
  BY <1>1, Zenon DEF Alone, At
<1>2. CASE DueEnqueues
  <2>1. queue = <<>> /\ claimed' = TRUE /\ work' = work
    BY <1>2, Zenon DEF Alone, DueEnqueues, InRunningJobs, pollLeaves
  <2>2. Len(queue') = 1
    BY <1>2, <2>1, SMT DEF DueEnqueues
  <2>3. \A w \in Workers : At(w, "idle")
    BY <1>2, Zenon DEF Alone, DueEnqueues, InRunningJobs
  <2> QED BY <2>1, <2>2, <2>3, Zenon DEF Alone, At
<1>3. CASE Crash
  BY <1>3, SMT DEF Alone, Crash, At, IdleWork
<1>4. ASSUME NEW w \in Workers, Take(w) PROVE Alone'
  <2>1. queue' = <<>>
    BY <1>0, <1>4, SMT DEF Alone, Take
  <2>2. claimed'
    BY <1>4, Zenon DEF Alone, Take, workLeaves
  <2>3. \A v \in Workers : v # w => At(v, "idle")'
    BY <1>0, <1>4, SMT DEF Alone, Take, At
  <2>4. \A v, u \in Workers : At(v, "idle")' \/ At(u, "idle")' \/ v = u
    BY <2>3, SMT
  <2> QED BY <2>1, <2>2, <2>4, Zenon DEF Alone
<1>5. ASSUME NEW w \in Workers, ~At(w, "idle"), queue' = queue, claimed' = claimed,
             \A v \in Workers : v # w => work'[v].pc = work[v].pc
      PROVE  Alone'
  BY <1>5, Zenon DEF Alone, At
<1>6. ASSUME NEW w \in Workers, ~At(w, "idle"), queue' = queue, Release(w)
      PROVE  Alone'
  <2>1. \A v \in Workers : At(v, "idle")'
    BY <1>0, <1>6, Releases, Zenon DEF Alone, At
  <2>2. queue = <<>>
    BY <1>6, Zenon DEF Alone
  <2> QED BY <1>6, <2>1, <2>2, Zenon DEF Alone
<1>7. ASSUME NEW w \in Workers, NEW p \in Places, ~At(w, "idle"), queue' = queue,
             claimed' = claimed, Goto(w, p)
      PROVE  Alone'
  BY <1>0, <1>5, <1>7, Moves, Zenon
<1>8. ASSUME NEW w \in Workers, Worker(w) \/ WorkerFault(w) PROVE Alone'
  <2>1. CASE \E o \in Outcomes : RunEnds(w, o)
    <3>1. \A v \in Workers : v # w => work'[v].pc = work[v].pc
      BY <1>0, <2>1, SMT DEF RunEnds
    <3>2. ~At(w, "idle") /\ queue' = queue /\ claimed' = claimed
      BY <2>1, SMT DEF RunEnds, At
    <3> QED BY <1>5, <3>1, <3>2
  <2>2. CASE Take(w)
    BY <1>4, <2>2
  <2>3. ASSUME ~At(w, "idle"), queue' = queue,
               \/ Release(w)
               \/ claimed' = claimed /\ \E p \in Places : Goto(w, p)
        PROVE  Alone'
    BY <1>6, <1>7, <2>3, Zenon
  <2> QED
    BY <2>1, <2>2, <2>3, <1>8, SMT DEF Worker, Acquire, SpendGate, FinalPauses, FinalFails,
       FinalCompletes, FinalRecurs, CheckStopped, CheckHorizon, CheckRespects,
       CheckReschedules, Rearm, FailJob, WorkerFault, At, Places
<1> QED
  BY <1>1, <1>2, <1>3, <1>8, Zenon DEF Next, World, FireComes, CooldownElapses,
     HorizonPasses, Blocks, Unblocks, Owner, PanelReads, PauseJob, PauseTool, CancelJob, ResumeJob,
     ActivateJob, RescheduleJob, ownerLeaves, Admin, SuspendFlips, SuspendPauses,
     ReinstateFlips, ReinstateSelects, ReinstateJudges, ReinstateResumes, ReinstateFails,
     admLeaves, EdgeReads, EdgeWrites, Poller, ScanReads, ResumeNoQuota, ResumeCapped,
     RearmCooled, HealZombie, DueReads,
     DueSkips, DueBanned, BanWrites, pollLeaves, Analysis, HookWrites, HookSchedules,
     HookGivesUp, hookLeaves, RecoverReads, RecoverWrites, procVars, vars

\* A job runs at most once at a time, for any number of workers.
THEOREM OneRunAtATime == Spec => []AtMostOneRun
<1>1. Init => Alone
  BY SMT DEF Init, Alone, At, IdleWork
<1>2. Alone => AtMostOneRun
  BY SMT DEF Alone, At, AtMostOneRun, Executing
<1> QED BY <1>1, <1>2, AloneStep, TypeCorrect, PTL DEF Spec

\* A worker that lets go of the job leaves a row behind that some query or the owner
\* can move, or its finalizer raised; all others keep their hands on it.
LEMMA LeakStep == TypeOK /\ Alone /\ NothingLeaks /\ [Next]_vars => NothingLeaks'
<1> SUFFICES ASSUME TypeOK, Alone, NothingLeaks, [Next]_vars PROVE NothingLeaks'
  OBVIOUS
<1> DEFINE Holding == Executing \cup {"failing"}
<1>0. work \in [Workers -> Works] /\ queue \in Seq(Snapshots)
  BY DEF TypeOK, ProcType
<1>1. ASSUME UNCHANGED <<work, stuck, up>>, status' = "running" => status = "running",
             UNCHANGED <<queue, claimed>> \/ queue' # <<>>
      PROVE  NothingLeaks'
  <2>1. CASE UNCHANGED <<queue, claimed>>
    BY <1>1, <2>1, Zenon DEF NothingLeaks, At
  <2>2. CASE queue' # <<>>
    BY <1>1, <2>2, Zenon DEF NothingLeaks, At
  <2> QED BY <1>1, <2>1, <2>2
<1>2. ASSUME NEW w \in Workers, work'[w].pc \in Holding PROVE NothingLeaks'
  BY <1>2, SMT DEF NothingLeaks, At, Executing
<1>3. ASSUME NEW w \in Workers, NEW p \in Holding, Goto(w, p) PROVE NothingLeaks'
  <2>1. p \in Places
    BY <1>3, SMT DEF Executing, Places
  <2>2. work'[w].pc = p
    BY <1>0, <1>3, <2>1, Moves, Zenon
  <2> QED BY <1>2, <1>3, <2>2
<1>4. ASSUME NEW w \in Workers, Release(w), status' # "running" \/ stuck' \/ up' # "yes"
      PROVE  NothingLeaks'
  BY <1>4, Zenon DEF NothingLeaks, Release
<1>5. ASSUME NEW w \in Workers, Take(w) PROVE NothingLeaks'
  <2>1. work'[w].pc = "taken" /\ UNCHANGED <<status, stuck, up>>
    BY <1>0, <1>5, SMT DEF Take, workLeaves
  <2>2. queue # <<>>
    BY <1>5 DEF Take
  <2>3. \A v \in Workers : At(v, "idle")
    BY <2>2, Zenon DEF Alone
  <2>4. status = "running" => stuck \/ up # "yes"
    BY <2>3, SMT DEF NothingLeaks, At, Executing
  <2> QED BY <2>1, <2>4, SMT DEF NothingLeaks, At
<1>6. ASSUME NEW w \in Workers, Acquire(w) PROVE NothingLeaks'
  <2>1. CASE Goto(w, "gate")
    BY <1>3, <2>1 DEF Executing
  <2>2. CASE Release(w) /\ UNCHANGED <<status, stuck, up>>
    <3>1. At(w, "taken")
      BY <1>6 DEF Acquire
    <3>2. \A v \in Workers : work[v].pc \notin Holding
      BY <3>1, SMT DEF Alone, At, Executing
    <3>3. status = "running" => stuck \/ up # "yes"
      BY <3>2, Zenon DEF NothingLeaks
    <3> QED BY <2>2, <3>3, <1>4, Zenon
  <2> QED BY <1>6, <2>1, <2>2, Zenon DEF Acquire, workLeaves
<1>7. ASSUME NEW w \in Workers, NEW o \in Outcomes, RunEnds(w, o) PROVE NothingLeaks'
  <2>1. work'[w].pc = "final"
    BY <1>0, <1>7, SMT DEF RunEnds
  <2> QED BY <1>2, <2>1 DEF Executing
<1>8. ASSUME NEW w \in Workers, Worker(w) \/ WorkerFault(w) PROVE NothingLeaks'
  <2>1. CASE \E p \in Holding : Goto(w, p)
    BY <1>3, <2>1
  <2>2. CASE Release(w) /\ (status' # "running" \/ stuck')
    BY <1>4, <2>2
  <2>3. CASE FailJob(w)
    BY <2>2, <2>3, Zenon DEF FailJob
  <2>4. CASE WorkerFault(w)
    <3>1. CASE Release(w) /\ stuck' = (stuck \/ status = "running") /\ status' = status
      BY <2>2, <3>1, Zenon
    <3>2. CASE Goto(w, "failing")
      BY <2>1, <3>2
    <3> QED BY <2>4, <3>1, <3>2, Zenon DEF WorkerFault
  <2> QED
    BY <1>5, <1>6, <1>7, <1>8, <2>1, <2>2, <2>3, <2>4, SMT DEF Worker, SpendGate,
       FinalPauses, FinalFails, FinalCompletes, FinalRecurs, CheckStopped, CheckHorizon,
       CheckRespects, CheckReschedules, Rearm, InRunStops, Executing
<1>9. CASE Crash \/ RecoverReads \/ RecoverWrites
  <2>1. CASE Crash
    BY <2>1, SMT DEF Crash, NothingLeaks
  <2>2. CASE RecoverReads
    <3>1. status' # "running" \/ up' # "yes"
      BY <2>2, SMT DEF RecoverReads, Interrupted, rowVars
    <3> QED BY <2>2, <3>1, Zenon DEF RecoverReads, NothingLeaks, At
  <2>3. CASE RecoverWrites
    <3>1. status' # "running"
      BY <2>3, SMT DEF RecoverWrites
    <3> QED BY <2>3, <3>1, Zenon DEF RecoverWrites, NothingLeaks, At
  <2> QED BY <1>9, <2>1, <2>2, <2>3
<1>10. CASE Poller
  <2>1. /\ UNCHANGED <<work, stuck, up>> /\ (status' = "running" => status = "running")
        /\ UNCHANGED <<queue, claimed>> \/ DueEnqueues
    BY <1>10, SMT DEF Poller, ScanReads, ResumeNoQuota, ResumeCapped, RearmCooled, HealZombie,
       DueReads, DueSkips, DueEnqueues, DueBanned, BanWrites, pollLeaves
  <2>2. DueEnqueues => queue' # <<>>
    BY <1>0, SMT DEF DueEnqueues
  <2> QED BY <1>1, <2>1, <2>2
<1>11. CASE Owner
  BY <1>1, <1>11, SMT DEF Owner, PanelReads, PauseJob, PauseTool, CancelJob, ResumeJob, Resumed,
     ActivateJob, RescheduleJob, ownerLeaves, procVars
<1> QED
  BY <1>1, <1>8, <1>9, <1>10, <1>11, SMT DEF Next, World, FireComes, CooldownElapses,
     HorizonPasses, Blocks, Unblocks, Admin, SuspendFlips, SuspendPauses, ReinstateFlips,
     ReinstateSelects, ReinstateJudges, ReinstateResumes, ReinstateFails, Resumed, admLeaves,
     EdgeReads, EdgeWrites, Analysis, HookWrites, HookSchedules, HookGivesUp, hookLeaves,
     procVars, histVars, rowVars, vars

\* No claim and no RUNNING row is left over from a run, for any number of workers: the
\* poller can enqueue the job again, and a restart finds only rows that it recovers.
THEOREM LeaksNothing == Spec => []NothingLeaks
<1>1. Init => Alone /\ NothingLeaks
  BY SMT DEF Init, Alone, NothingLeaks, At, IdleWork
<1> QED BY <1>1, AloneStep, LeakStep, TypeCorrect, PTL DEF Spec

-----------------------------------------------------------------------------
(* Stops, waits and suspensions.                                            *)

Still == \A w \in Workers : work[w].pc \in {"idle", "taken", "failing"}

\* Nobody is left who would write a live status over the owner's stop.
Stopped ==
    /\ status \in {"paused", "cancelled", "completed", "failed"}
    /\ status = "paused" => reason # "account"
    /\ ~OtherWriterInFlight
    /\ Still
StopInv == held /\ ~exposed => Stopped

\* Nobody is left who would re-arm a job that waits for its owner, but an edge.
Stays ==
    /\ status \in {"paused_no_quota", "paused", "cancelled", "completed", "failed"}
    /\ reason # "account"
    /\ status = "paused_no_quota" => reason = "edge_only"
    /\ poll \notin {"quota", "capped", "cooled", "due", "ban"} 
    /\ hook # "on" /\ adm \notin {"selected", "lifting"} /\ up # "recovering"
    /\ Still
EdgeInv == edgeHeld => Stays

AccountInv ==
    /\ adm = "pausing" => account = "banned"
    /\ SuspensionPaused =>
          account = "banned" \/ adm \in {"resuming", "selected", "lifting"} \/ unlifted \/ held

LEMMA StillFacts ==
    ASSUME TypeOK, Still, NEW w \in Workers
    PROVE  /\ ~At(w, "gate") /\ ~At(w, "running") /\ ~At(w, "final")
           /\ ~At(w, "check") /\ ~At(w, "rearm")
           /\ work[w].pc \notin {"final", "check", "rearm", "gate"}
           /\ Take(w) => Still'
           /\ Goto(w, "failing") => Still'
           /\ Release(w) => Still'
<1>1. work \in [Workers -> Works] /\ "failing" \in Places
  BY SMT DEF TypeOK, ProcType, Places
<1>2. Take(w) => Still'
  BY <1>1, SMT DEF Still, Take
<1>3. Goto(w, "failing") => Still'
  BY <1>1, Moves, SMT DEF Still
<1>4. Release(w) => Still'
  BY <1>1, Releases, SMT DEF Still
<1> QED BY <1>2, <1>3, <1>4, SMT DEF Still, At

LEMMA NobodyWrites == TypeOK /\ ~WriterInFlight => Still /\ ~OtherWriterInFlight
<1>1. ASSUME TypeOK, NEW w \in Workers PROVE work[w].pc \in Places
  <2>1. work[w] \in Works
    BY <1>1 DEF TypeOK, ProcType
  <2> QED BY <2>1, SMT DEF Works
<1> QED BY <1>1, SMT DEF WriterInFlight, Still, Places

LEMMA StopStep == TypeOK /\ StopInv /\ [Next]_vars => StopInv'
<1> SUFFICES ASSUME TypeOK, StopInv, [Next]_vars PROVE StopInv'
  OBVIOUS
<1>1. \A w \in Workers : Still =>
        /\ ~At(w, "gate") /\ ~At(w, "running") /\ ~At(w, "final")
        /\ ~At(w, "check") /\ ~At(w, "rearm")
        /\ work[w].pc \notin {"final", "check", "rearm", "gate"}
  BY StillFacts
<1>2. ~WriterInFlight => Still /\ ~OtherWriterInFlight
  BY NobodyWrites
<1>3. \A w \in Workers : Still /\ (Take(w) \/ Goto(w, "failing") \/ Release(w)) => Still'
  BY StillFacts
<1>4. Crash => Still'
  BY SMT DEF Crash, Still, IdleWork
<1>6. StopInv'
  <2>1. CASE FireComes
    BY <2>1, Zenon DEF StopInv, Stopped, Still, OtherWriterInFlight, Startable,
       Suspendable, Resumable, Terminal, FireComes, vars, rowVars, worldVars,
       procVars, sideVars, countVars, histVars
  <2>2. CASE CooldownElapses
    BY <2>2, Zenon DEF StopInv, Stopped, Still, OtherWriterInFlight, Startable,
       Suspendable, Resumable, Terminal, CooldownElapses, vars, rowVars,
       worldVars, procVars, sideVars, countVars, histVars
  <2>3. CASE HorizonPasses
    BY <2>3, Zenon DEF StopInv, Stopped, Still, OtherWriterInFlight, Startable,
       Suspendable, Resumable, Terminal, HorizonPasses, Mishap, vars, rowVars,
       worldVars, procVars, sideVars, countVars, histVars
  <2>4. CASE Blocks
    BY <2>4, Zenon DEF StopInv, Stopped, Still, OtherWriterInFlight, Startable,
       Suspendable, Resumable, Terminal, Blocks, Mishap, vars, rowVars, worldVars,
       procVars, sideVars, countVars, histVars
  <2>5. CASE Unblocks
    BY <2>5, Zenon DEF StopInv, Stopped, Still, OtherWriterInFlight, Startable,
       Suspendable, Resumable, Terminal, Unblocks, vars, rowVars, worldVars,
       procVars, sideVars, countVars, histVars
  <2>6. CASE PanelReads
    BY <2>6, Zenon DEF StopInv, Stopped, Still, OtherWriterInFlight, Startable,
       Suspendable, Resumable, Terminal, PanelReads, OwnerActs, ownerLeaves, vars,
       rowVars, worldVars, procVars, sideVars, countVars, histVars
  <2>7. CASE PauseJob
    BY <2>7, <1>2, Zenon DEF StopInv, Stopped, Still, OtherWriterInFlight,
       Startable, Suspendable, Resumable, Terminal, PauseJob, OwnerActs, Stops,
       ownerLeaves, vars, rowVars, worldVars, procVars, sideVars, countVars,
       histVars
  <2>8. CASE PauseTool
    BY <2>8, <1>2, Zenon DEF StopInv, Stopped, Still, OtherWriterInFlight,
       Startable, Suspendable, Resumable, Terminal, PauseTool, OwnerActs,
       ownerLeaves, vars, rowVars, worldVars, procVars, sideVars, countVars,
       histVars
  <2>9. CASE CancelJob
    BY <2>9, <1>2, Zenon DEF StopInv, Stopped, Still, OtherWriterInFlight,
       Startable, Suspendable, Resumable, Terminal, CancelJob, OwnerActs, Stops,
       ownerLeaves, vars, rowVars, worldVars, procVars, sideVars, countVars,
       histVars
  <2>10. CASE ResumeJob
    BY <2>10, Zenon DEF StopInv, Stopped, Still, OtherWriterInFlight, Startable,
       Suspendable, Resumable, Terminal, ResumeJob, OwnerActs, Resumed, NextFires,
       Wakes, ownerLeaves, vars, rowVars, worldVars, procVars, sideVars,
       countVars, histVars
  <2>11. CASE ActivateJob
    BY <2>11, Zenon DEF StopInv, Stopped, Still, OtherWriterInFlight, Startable,
       Suspendable, Resumable, Terminal, ActivateJob, OwnerActs, Wakes,
       ownerLeaves, vars, rowVars, worldVars, procVars, sideVars, countVars,
       histVars
  <2>12. ASSUME NEW d \in {"later", "now"}, RescheduleJob(d) PROVE StopInv'
    BY <2>12, Zenon DEF StopInv, Stopped, Still, OtherWriterInFlight, Startable,
       Suspendable, Resumable, Terminal, RescheduleJob, OwnerActs, ownerLeaves,
       vars, rowVars, worldVars, procVars, sideVars, countVars, histVars
  <2>13. CASE SuspendFlips
    BY <2>13, Zenon DEF StopInv, Stopped, Still, OtherWriterInFlight, Startable,
       Suspendable, Resumable, Terminal, SuspendFlips, Mishap, admLeaves, vars,
       rowVars, worldVars, procVars, sideVars, countVars, histVars
  <2>14. CASE SuspendPauses
    BY <2>14, Zenon DEF StopInv, Stopped, Still, OtherWriterInFlight, Startable,
       Suspendable, Resumable, Terminal, SuspendPauses, admLeaves, vars, rowVars,
       worldVars, procVars, sideVars, countVars, histVars
  <2>15. CASE ReinstateFlips
    BY <2>15, Zenon DEF StopInv, Stopped, Still, OtherWriterInFlight, Startable,
       Suspendable, Resumable, Terminal, ReinstateFlips, admLeaves, vars, rowVars,
       worldVars, procVars, sideVars, countVars, histVars
  <2>16. CASE ReinstateSelects
    BY <2>16, Zenon DEF StopInv, Stopped, Still, OtherWriterInFlight, Startable,
       Suspendable, Resumable, Terminal, ReinstateSelects, admLeaves,
       SuspensionPaused, vars, rowVars, worldVars, procVars, sideVars, countVars,
       histVars
  <2>17. CASE ReinstateJudges
    BY <2>17, Zenon DEF StopInv, Stopped, Still, OtherWriterInFlight, Startable,
       Suspendable, Resumable, Terminal, ReinstateJudges, admLeaves, vars,
       rowVars, worldVars, procVars, sideVars, countVars, histVars
  <2>18. CASE ReinstateResumes
    BY <2>18, Zenon DEF StopInv, Stopped, Still, OtherWriterInFlight, Startable,
       Suspendable, Resumable, Terminal, ReinstateResumes, Resumed, NextFires,
       admLeaves, vars, rowVars, worldVars, procVars, sideVars, countVars,
       histVars
  <2>19. CASE ReinstateFails
    BY <2>19, Zenon DEF StopInv, Stopped, Still, OtherWriterInFlight, Startable,
       Suspendable, Resumable, Terminal, ReinstateFails, admLeaves,
       SuspensionPaused, vars, rowVars, worldVars, procVars, sideVars, countVars,
       histVars
  <2>20. CASE EdgeReads
    BY <2>20, Zenon DEF StopInv, Stopped, Still, OtherWriterInFlight, Startable,
       Suspendable, Resumable, Terminal, EdgeReads, OwnerActs, vars, rowVars,
       worldVars, procVars, sideVars, countVars, histVars
  <2>21. CASE EdgeWrites
    BY <2>21, Zenon DEF StopInv, Stopped, Still, OtherWriterInFlight, Startable,
       Suspendable, Resumable, Terminal, EdgeWrites, NextFires, vars, rowVars,
       worldVars, procVars, sideVars, countVars, histVars
  <2>22. CASE ScanReads
    BY <2>22, Zenon DEF StopInv, Stopped, Still, OtherWriterInFlight, Startable,
       Suspendable, Resumable, Terminal, ScanReads, NextFires, pollLeaves,
       QuotaCandidate, CappedCandidate, CoolingCandidate, ZombieCandidate, vars,
       rowVars, worldVars, procVars, sideVars, countVars, histVars
  <2>23. CASE ResumeNoQuota
    BY <2>23, Zenon DEF StopInv, Stopped, Still, OtherWriterInFlight, Startable,
       Suspendable, Resumable, Terminal, ResumeNoQuota, NextFires, pollLeaves,
       vars, rowVars, worldVars, procVars, sideVars, countVars, histVars
  <2>24. CASE ResumeCapped
    BY <2>24, Zenon DEF StopInv, Stopped, Still, OtherWriterInFlight, Startable,
       Suspendable, Resumable, Terminal, ResumeCapped, NextFires, pollLeaves,
       vars, rowVars, worldVars, procVars, sideVars, countVars, histVars
  <2>25. CASE RearmCooled
    BY <2>25, Zenon DEF StopInv, Stopped, Still, OtherWriterInFlight, Startable,
       Suspendable, Resumable, Terminal, RearmCooled, NextFires, pollLeaves, vars,
       rowVars, worldVars, procVars, sideVars, countVars, histVars
  <2>26. CASE HealZombie
    BY <2>26, Zenon DEF StopInv, Stopped, Still, OtherWriterInFlight, Startable,
       Suspendable, Resumable, Terminal, HealZombie, NextFires, pollLeaves, vars,
       rowVars, worldVars, procVars, sideVars, countVars, histVars
  <2>27. CASE DueReads
    BY <2>27, Zenon DEF StopInv, Stopped, Still, OtherWriterInFlight, Startable,
       Suspendable, Resumable, Terminal, DueReads, NextFires, pollLeaves, vars,
       rowVars, worldVars, procVars, sideVars, countVars, histVars
  <2>28. CASE DueSkips
    BY <2>28, Zenon DEF StopInv, Stopped, Still, OtherWriterInFlight, Startable,
       Suspendable, Resumable, Terminal, DueSkips, NextFires, pollLeaves, vars,
       rowVars, worldVars, procVars, sideVars, countVars, histVars
  <2>29. CASE DueEnqueues
    BY <2>29, Zenon DEF StopInv, Stopped, Still, OtherWriterInFlight, Startable,
       Suspendable, Resumable, Terminal, DueEnqueues, NextFires, pollLeaves, vars,
       rowVars, worldVars, procVars, sideVars, countVars, histVars
  <2>30. CASE DueBanned
    BY <2>30, Zenon DEF StopInv, Stopped, Still, OtherWriterInFlight, Startable,
       Suspendable, Resumable, Terminal, DueBanned, NextFires, pollLeaves, vars,
       rowVars, worldVars, procVars, sideVars, countVars, histVars
  <2>31. CASE BanWrites
    BY <2>31, Zenon DEF StopInv, Stopped, Still, OtherWriterInFlight, Startable,
       Suspendable, Resumable, Terminal, BanWrites, NextFires, pollLeaves, vars,
       rowVars, worldVars, procVars, sideVars, countVars, histVars
  <2>32. ASSUME NEW w \in Workers, Take(w) PROVE StopInv'
    BY <2>32, <1>3, Zenon DEF StopInv, Stopped, Still, OtherWriterInFlight,
       Startable, Suspendable, Resumable, Terminal, Take, workLeaves, vars,
       rowVars, worldVars, procVars, sideVars, countVars, histVars
  <2>33. ASSUME NEW w \in Workers, Acquire(w) PROVE StopInv'
    BY <2>33, <1>1, <1>3, Zenon DEF StopInv, Stopped, Still, OtherWriterInFlight,
       Startable, Suspendable, Resumable, Terminal, Acquire, workLeaves, vars,
       rowVars, worldVars, procVars, sideVars, countVars, histVars
  <2>34. ASSUME NEW w \in Workers, SpendGate(w) PROVE StopInv'
    BY <2>34, <1>1, Zenon DEF StopInv, Stopped, Still, OtherWriterInFlight,
       Startable, Suspendable, Resumable, Terminal, SpendGate, workLeaves, vars,
       rowVars, worldVars, procVars, sideVars, countVars, histVars
  <2>35. ASSUME NEW w \in Workers, NEW o \in Outcomes, RunEnds(w, o) PROVE StopInv'
    BY <2>35, <1>1, Zenon DEF StopInv, Stopped, Still, OtherWriterInFlight,
       Startable, Suspendable, Resumable, Terminal, RunEnds, workLeaves, vars,
       rowVars, worldVars, procVars, sideVars, countVars, histVars
  <2>36. ASSUME NEW w \in Workers, FinalPauses(w) PROVE StopInv'
    BY <2>36, <1>1, Zenon DEF StopInv, Stopped, Still, OtherWriterInFlight,
       Startable, Suspendable, Resumable, Terminal, FinalPauses, workLeaves, vars,
       rowVars, worldVars, procVars, sideVars, countVars, histVars
  <2>37. ASSUME NEW w \in Workers, FinalFails(w) PROVE StopInv'
    BY <2>37, <1>1, Zenon DEF StopInv, Stopped, Still, OtherWriterInFlight,
       Startable, Suspendable, Resumable, Terminal, FinalFails, workLeaves, vars,
       rowVars, worldVars, procVars, sideVars, countVars, histVars
  <2>38. ASSUME NEW w \in Workers, FinalCompletes(w) PROVE StopInv'
    BY <2>38, <1>1, Zenon DEF StopInv, Stopped, Still, OtherWriterInFlight,
       Startable, Suspendable, Resumable, Terminal, FinalCompletes, workLeaves,
       vars, rowVars, worldVars, procVars, sideVars, countVars, histVars
  <2>39. ASSUME NEW w \in Workers, FinalRecurs(w) PROVE StopInv'
    BY <2>39, <1>1, Zenon DEF StopInv, Stopped, Still, OtherWriterInFlight,
       Startable, Suspendable, Resumable, Terminal, FinalRecurs, workLeaves, vars,
       rowVars, worldVars, procVars, sideVars, countVars, histVars
  <2>40. ASSUME NEW w \in Workers, CheckStopped(w) PROVE StopInv'
    BY <2>40, <1>1, Zenon DEF StopInv, Stopped, Still, OtherWriterInFlight,
       Startable, Suspendable, Resumable, Terminal, CheckStopped, workLeaves,
       vars, rowVars, worldVars, procVars, sideVars, countVars, histVars
  <2>41. ASSUME NEW w \in Workers, CheckHorizon(w) PROVE StopInv'
    BY <2>41, <1>1, Zenon DEF StopInv, Stopped, Still, OtherWriterInFlight,
       Startable, Suspendable, Resumable, Terminal, CheckHorizon, workLeaves,
       vars, rowVars, worldVars, procVars, sideVars, countVars, histVars
  <2>42. ASSUME NEW w \in Workers, CheckRespects(w) PROVE StopInv'
    BY <2>42, <1>1, Zenon DEF StopInv, Stopped, Still, OtherWriterInFlight,
       Startable, Suspendable, Resumable, Terminal, CheckRespects, workLeaves,
       vars, rowVars, worldVars, procVars, sideVars, countVars, histVars
  <2>43. ASSUME NEW w \in Workers, CheckReschedules(w) PROVE StopInv'
    BY <2>43, <1>1, Zenon DEF StopInv, Stopped, Still, OtherWriterInFlight,
       Startable, Suspendable, Resumable, Terminal, CheckReschedules, workLeaves,
       vars, rowVars, worldVars, procVars, sideVars, countVars, histVars
  <2>44. ASSUME NEW w \in Workers, Rearm(w) PROVE StopInv'
    BY <2>44, <1>1, Zenon DEF StopInv, Stopped, Still, OtherWriterInFlight,
       Startable, Suspendable, Resumable, Terminal, Rearm, workLeaves, vars,
       rowVars, worldVars, procVars, sideVars, countVars, histVars
  <2>45. ASSUME NEW w \in Workers, FailJob(w) PROVE StopInv'
    BY <2>45, <1>3, Zenon DEF StopInv, Stopped, Still, OtherWriterInFlight,
       Startable, Suspendable, Resumable, Terminal, FailJob, workLeaves, vars,
       rowVars, worldVars, procVars, sideVars, countVars, histVars
  <2>46. ASSUME NEW w \in Workers, WorkerFault(w) PROVE StopInv'
    BY <2>46, <1>1, <1>3, Zenon DEF StopInv, Stopped, Still, OtherWriterInFlight,
       Startable, Suspendable, Resumable, Terminal, WorkerFault, workLeaves,
       Mishap, vars, rowVars, worldVars, procVars, sideVars, countVars, histVars
  <2>47. ASSUME NEW s \in {"completed", "active", "failed"}, HookWrites(s) PROVE StopInv'
    BY <2>47, Zenon DEF StopInv, Stopped, Still, OtherWriterInFlight, Startable,
       Suspendable, Resumable, Terminal, HookWrites, NextFires, Mishap,
       hookLeaves, vars, rowVars, worldVars, procVars, sideVars, countVars,
       histVars
  <2>48. CASE HookSchedules
    BY <2>48, Zenon DEF StopInv, Stopped, Still, OtherWriterInFlight, Startable,
       Suspendable, Resumable, Terminal, HookSchedules, hookLeaves, NextFires,
       vars, rowVars, worldVars, procVars, sideVars, countVars, histVars
  <2>49. CASE HookGivesUp
    BY <2>49, Zenon DEF StopInv, Stopped, Still, OtherWriterInFlight, Startable,
       Suspendable, Resumable, Terminal, HookGivesUp, hookLeaves, vars, rowVars,
       worldVars, procVars, sideVars, countVars, histVars
  <2>50. CASE Crash
    BY <2>50, <1>4, Zenon DEF StopInv, Stopped, Still, OtherWriterInFlight,
       Startable, Suspendable, Resumable, Terminal, Crash, Mishap, vars, rowVars,
       worldVars, procVars, sideVars, countVars, histVars
  <2>51. CASE RecoverReads
    BY <2>51, Zenon DEF StopInv, Stopped, Still, OtherWriterInFlight, Startable,
       Suspendable, Resumable, Terminal, RecoverReads, Interrupted, vars, rowVars,
       worldVars, procVars, sideVars, countVars, histVars
  <2>52. CASE RecoverWrites
    BY <2>52, Zenon DEF StopInv, Stopped, Still, OtherWriterInFlight, Startable,
       Suspendable, Resumable, Terminal, RecoverWrites, vars, rowVars, worldVars,
       procVars, sideVars, countVars, histVars
  <2>53. CASE UNCHANGED vars
    BY <2>53, Zenon DEF StopInv, Stopped, Still, OtherWriterInFlight, Startable,
       Suspendable, Resumable, Terminal, vars, rowVars, worldVars, procVars,
       sideVars, countVars, histVars
  <2> QED BY <2>1, <2>2, <2>3, <2>4, <2>5, <2>6, <2>7, <2>8, <2>9, <2>10, <2>11,
       <2>12, <2>13, <2>14, <2>15, <2>16, <2>17, <2>18, <2>19, <2>20, <2>21,
       <2>22, <2>23, <2>24, <2>25, <2>26, <2>27, <2>28, <2>29, <2>30, <2>31,
       <2>32, <2>33, <2>34, <2>35, <2>36, <2>37, <2>38, <2>39, <2>40, <2>41,
       <2>42, <2>43, <2>44, <2>45, <2>46, <2>47, <2>48, <2>49, <2>50, <2>51,
       <2>52, <2>53, Zenon DEF Next, World, Owner, Admin, Poller, Worker, Analysis
<1> QED BY <1>6

LEMMA EdgeStep == TypeOK /\ Alone /\ EdgeInv /\ [Next]_vars => EdgeInv'
<1> SUFFICES ASSUME TypeOK, Alone, EdgeInv, [Next]_vars PROVE EdgeInv'
  OBVIOUS
<1>1. \A w \in Workers : Still =>
        /\ ~At(w, "gate") /\ ~At(w, "running") /\ ~At(w, "final")
        /\ ~At(w, "check") /\ ~At(w, "rearm")
        /\ work[w].pc \notin {"final", "check", "rearm", "gate"}
  BY StillFacts
<1>3. \A w \in Workers : Still /\ (Take(w) \/ Goto(w, "failing") \/ Release(w)) => Still'
  BY StillFacts
<1>4. Crash => Still'
  BY SMT DEF Crash, Still, IdleWork
<1>5. \A w \in Workers : At(w, "final") /\ Release(w) => Still'
  BY Releases, SMT DEF TypeOK, ProcType, Alone, At, Still
<1>6. EdgeInv'
  <2>1. CASE FireComes
    BY <2>1, Zenon DEF EdgeInv, Stays, Still, OtherWriterInFlight, Startable,
       Suspendable, Resumable, Terminal, FireComes, vars, rowVars, worldVars,
       procVars, sideVars, countVars, histVars
  <2>2. CASE CooldownElapses
    BY <2>2, Zenon DEF EdgeInv, Stays, Still, OtherWriterInFlight, Startable,
       Suspendable, Resumable, Terminal, CooldownElapses, vars, rowVars,
       worldVars, procVars, sideVars, countVars, histVars
  <2>3. CASE HorizonPasses
    BY <2>3, Zenon DEF EdgeInv, Stays, Still, OtherWriterInFlight, Startable,
       Suspendable, Resumable, Terminal, HorizonPasses, Mishap, vars, rowVars,
       worldVars, procVars, sideVars, countVars, histVars
  <2>4. CASE Blocks
    BY <2>4, Zenon DEF EdgeInv, Stays, Still, OtherWriterInFlight, Startable,
       Suspendable, Resumable, Terminal, Blocks, Mishap, vars, rowVars, worldVars,
       procVars, sideVars, countVars, histVars
  <2>5. CASE Unblocks
    BY <2>5, Zenon DEF EdgeInv, Stays, Still, OtherWriterInFlight, Startable,
       Suspendable, Resumable, Terminal, Unblocks, vars, rowVars, worldVars,
       procVars, sideVars, countVars, histVars
  <2>6. CASE PanelReads
    BY <2>6, Zenon DEF EdgeInv, Stays, Still, OtherWriterInFlight, Startable,
       Suspendable, Resumable, Terminal, PanelReads, OwnerActs, ownerLeaves, vars,
       rowVars, worldVars, procVars, sideVars, countVars, histVars
  <2>7. CASE PauseJob
    BY <2>7, Zenon DEF EdgeInv, Stays, Still, OtherWriterInFlight, Startable,
       Suspendable, Resumable, Terminal, PauseJob, OwnerActs, Stops, ownerLeaves,
       Stops, vars, rowVars, worldVars, procVars, sideVars, countVars, histVars
  <2>8. CASE PauseTool
    BY <2>8, Zenon DEF EdgeInv, Stays, Still, OtherWriterInFlight, Startable,
       Suspendable, Resumable, Terminal, PauseTool, OwnerActs, ownerLeaves, vars,
       rowVars, worldVars, procVars, sideVars, countVars, histVars
  <2>9. CASE CancelJob
    BY <2>9, Zenon DEF EdgeInv, Stays, Still, OtherWriterInFlight, Startable,
       Suspendable, Resumable, Terminal, CancelJob, OwnerActs, Stops, ownerLeaves,
       Stops, vars, rowVars, worldVars, procVars, sideVars, countVars, histVars
  <2>10. CASE ResumeJob
    BY <2>10, Zenon DEF EdgeInv, Stays, Still, OtherWriterInFlight, Startable,
       Suspendable, Resumable, Terminal, ResumeJob, OwnerActs, Resumed, NextFires,
       Wakes, ownerLeaves, vars, rowVars, worldVars, procVars, sideVars,
       countVars, histVars
  <2>11. CASE ActivateJob
    BY <2>11, Zenon DEF EdgeInv, Stays, Still, OtherWriterInFlight, Startable,
       Suspendable, Resumable, Terminal, ActivateJob, OwnerActs, Wakes,
       ownerLeaves, vars, rowVars, worldVars, procVars, sideVars, countVars,
       histVars
  <2>12. ASSUME NEW d \in {"later", "now"}, RescheduleJob(d) PROVE EdgeInv'
    BY <2>12, Zenon DEF EdgeInv, Stays, Still, OtherWriterInFlight, Startable,
       Suspendable, Resumable, Terminal, RescheduleJob, OwnerActs, ownerLeaves,
       vars, rowVars, worldVars, procVars, sideVars, countVars, histVars
  <2>13. CASE SuspendFlips
    BY <2>13, Zenon DEF EdgeInv, Stays, Still, OtherWriterInFlight, Startable,
       Suspendable, Resumable, Terminal, SuspendFlips, Mishap, admLeaves, vars,
       rowVars, worldVars, procVars, sideVars, countVars, histVars
  <2>14. CASE SuspendPauses
    BY <2>14, Zenon DEF EdgeInv, Stays, Still, OtherWriterInFlight, Startable,
       Suspendable, Resumable, Terminal, SuspendPauses, admLeaves, vars, rowVars,
       worldVars, procVars, sideVars, countVars, histVars
  <2>15. CASE ReinstateFlips
    BY <2>15, Zenon DEF EdgeInv, Stays, Still, OtherWriterInFlight, Startable,
       Suspendable, Resumable, Terminal, ReinstateFlips, admLeaves, vars, rowVars,
       worldVars, procVars, sideVars, countVars, histVars
  <2>16. CASE ReinstateSelects
    BY <2>16, Zenon DEF EdgeInv, Stays, Still, OtherWriterInFlight, Startable,
       Suspendable, Resumable, Terminal, ReinstateSelects, admLeaves,
       SuspensionPaused, vars, rowVars, worldVars, procVars, sideVars, countVars,
       histVars
  <2>17. CASE ReinstateJudges
    BY <2>17, Zenon DEF EdgeInv, Stays, Still, OtherWriterInFlight, Startable,
       Suspendable, Resumable, Terminal, ReinstateJudges, admLeaves, vars,
       rowVars, worldVars, procVars, sideVars, countVars, histVars
  <2>18. CASE ReinstateResumes
    BY <2>18, Zenon DEF EdgeInv, Stays, Still, OtherWriterInFlight, Startable,
       Suspendable, Resumable, Terminal, ReinstateResumes, Resumed, NextFires,
       admLeaves, vars, rowVars, worldVars, procVars, sideVars, countVars,
       histVars
  <2>19. CASE ReinstateFails
    BY <2>19, Zenon DEF EdgeInv, Stays, Still, OtherWriterInFlight, Startable,
       Suspendable, Resumable, Terminal, ReinstateFails, admLeaves,
       SuspensionPaused, vars, rowVars, worldVars, procVars, sideVars, countVars,
       histVars
  <2>20. CASE EdgeReads
    BY <2>20, Zenon DEF EdgeInv, Stays, Still, OtherWriterInFlight, Startable,
       Suspendable, Resumable, Terminal, EdgeReads, OwnerActs, vars, rowVars,
       worldVars, procVars, sideVars, countVars, histVars
  <2>21. CASE EdgeWrites
    BY <2>21, Zenon DEF EdgeInv, Stays, Still, OtherWriterInFlight, Startable,
       Suspendable, Resumable, Terminal, EdgeWrites, NextFires, vars, rowVars,
       worldVars, procVars, sideVars, countVars, histVars
  <2>22. CASE ScanReads
    BY <2>22, Zenon DEF EdgeInv, Stays, Still, OtherWriterInFlight, Startable,
       Suspendable, Resumable, Terminal, ScanReads, NextFires, pollLeaves,
       QuotaCandidate, CappedCandidate, CoolingCandidate, ZombieCandidate, vars,
       rowVars, worldVars, procVars, sideVars, countVars, histVars
  <2>23. CASE ResumeNoQuota
    BY <2>23, Zenon DEF EdgeInv, Stays, Still, OtherWriterInFlight, Startable,
       Suspendable, Resumable, Terminal, ResumeNoQuota, NextFires, pollLeaves,
       vars, rowVars, worldVars, procVars, sideVars, countVars, histVars
  <2>24. CASE ResumeCapped
    BY <2>24, Zenon DEF EdgeInv, Stays, Still, OtherWriterInFlight, Startable,
       Suspendable, Resumable, Terminal, ResumeCapped, NextFires, pollLeaves,
       vars, rowVars, worldVars, procVars, sideVars, countVars, histVars
  <2>25. CASE RearmCooled
    BY <2>25, Zenon DEF EdgeInv, Stays, Still, OtherWriterInFlight, Startable,
       Suspendable, Resumable, Terminal, RearmCooled, NextFires, pollLeaves, vars,
       rowVars, worldVars, procVars, sideVars, countVars, histVars
  <2>26. CASE HealZombie
    BY <2>26, Zenon DEF EdgeInv, Stays, Still, OtherWriterInFlight, Startable,
       Suspendable, Resumable, Terminal, HealZombie, NextFires, pollLeaves, vars,
       rowVars, worldVars, procVars, sideVars, countVars, histVars
  <2>27. CASE DueReads
    BY <2>27, Zenon DEF EdgeInv, Stays, Still, OtherWriterInFlight, Startable,
       Suspendable, Resumable, Terminal, DueReads, NextFires, pollLeaves, vars,
       rowVars, worldVars, procVars, sideVars, countVars, histVars
  <2>28. CASE DueSkips
    BY <2>28, Zenon DEF EdgeInv, Stays, Still, OtherWriterInFlight, Startable,
       Suspendable, Resumable, Terminal, DueSkips, NextFires, pollLeaves, vars,
       rowVars, worldVars, procVars, sideVars, countVars, histVars
  <2>29. CASE DueEnqueues
    BY <2>29, Zenon DEF EdgeInv, Stays, Still, OtherWriterInFlight, Startable,
       Suspendable, Resumable, Terminal, DueEnqueues, NextFires, pollLeaves, vars,
       rowVars, worldVars, procVars, sideVars, countVars, histVars
  <2>30. CASE DueBanned
    BY <2>30, Zenon DEF EdgeInv, Stays, Still, OtherWriterInFlight, Startable,
       Suspendable, Resumable, Terminal, DueBanned, NextFires, pollLeaves, vars,
       rowVars, worldVars, procVars, sideVars, countVars, histVars
  <2>31. CASE BanWrites
    BY <2>31, Zenon DEF EdgeInv, Stays, Still, OtherWriterInFlight, Startable,
       Suspendable, Resumable, Terminal, BanWrites, NextFires, pollLeaves, vars,
       rowVars, worldVars, procVars, sideVars, countVars, histVars
  <2>32. ASSUME NEW w \in Workers, Take(w) PROVE EdgeInv'
    BY <2>32, <1>3, Zenon DEF EdgeInv, Stays, Still, OtherWriterInFlight,
       Startable, Suspendable, Resumable, Terminal, Take, workLeaves, vars,
       rowVars, worldVars, procVars, sideVars, countVars, histVars
  <2>33. ASSUME NEW w \in Workers, Acquire(w) PROVE EdgeInv'
    BY <2>33, <1>1, <1>3, Zenon DEF EdgeInv, Stays, Still, OtherWriterInFlight,
       Startable, Suspendable, Resumable, Terminal, Acquire, workLeaves, vars,
       rowVars, worldVars, procVars, sideVars, countVars, histVars
  <2>34. ASSUME NEW w \in Workers, SpendGate(w) PROVE EdgeInv'
    BY <2>34, <1>1, Zenon DEF EdgeInv, Stays, Still, OtherWriterInFlight,
       Startable, Suspendable, Resumable, Terminal, SpendGate, workLeaves, vars,
       rowVars, worldVars, procVars, sideVars, countVars, histVars
  <2>35. ASSUME NEW w \in Workers, NEW o \in Outcomes, RunEnds(w, o) PROVE EdgeInv'
    BY <2>35, <1>1, Zenon DEF EdgeInv, Stays, Still, OtherWriterInFlight,
       Startable, Suspendable, Resumable, Terminal, RunEnds, workLeaves, vars,
       rowVars, worldVars, procVars, sideVars, countVars, histVars
  <2>36. ASSUME NEW w \in Workers, FinalPauses(w) PROVE EdgeInv'
    BY <2>36, <1>5, Zenon DEF EdgeInv, Stays, Still, OtherWriterInFlight,
       Startable, Suspendable, Resumable, Terminal, FinalPauses, workLeaves, vars,
       rowVars, worldVars, procVars, sideVars, countVars, histVars
  <2>37. ASSUME NEW w \in Workers, FinalFails(w) PROVE EdgeInv'
    BY <2>37, <1>1, Zenon DEF EdgeInv, Stays, Still, OtherWriterInFlight,
       Startable, Suspendable, Resumable, Terminal, FinalFails, workLeaves, vars,
       rowVars, worldVars, procVars, sideVars, countVars, histVars
  <2>38. ASSUME NEW w \in Workers, FinalCompletes(w) PROVE EdgeInv'
    BY <2>38, <1>1, Zenon DEF EdgeInv, Stays, Still, OtherWriterInFlight,
       Startable, Suspendable, Resumable, Terminal, FinalCompletes, workLeaves,
       vars, rowVars, worldVars, procVars, sideVars, countVars, histVars
  <2>39. ASSUME NEW w \in Workers, FinalRecurs(w) PROVE EdgeInv'
    BY <2>39, <1>1, Zenon DEF EdgeInv, Stays, Still, OtherWriterInFlight,
       Startable, Suspendable, Resumable, Terminal, FinalRecurs, workLeaves, vars,
       rowVars, worldVars, procVars, sideVars, countVars, histVars
  <2>40. ASSUME NEW w \in Workers, CheckStopped(w) PROVE EdgeInv'
    BY <2>40, <1>1, Zenon DEF EdgeInv, Stays, Still, OtherWriterInFlight,
       Startable, Suspendable, Resumable, Terminal, CheckStopped, workLeaves,
       vars, rowVars, worldVars, procVars, sideVars, countVars, histVars
  <2>41. ASSUME NEW w \in Workers, CheckHorizon(w) PROVE EdgeInv'
    BY <2>41, <1>1, Zenon DEF EdgeInv, Stays, Still, OtherWriterInFlight,
       Startable, Suspendable, Resumable, Terminal, CheckHorizon, workLeaves,
       vars, rowVars, worldVars, procVars, sideVars, countVars, histVars
  <2>42. ASSUME NEW w \in Workers, CheckRespects(w) PROVE EdgeInv'
    BY <2>42, <1>1, Zenon DEF EdgeInv, Stays, Still, OtherWriterInFlight,
       Startable, Suspendable, Resumable, Terminal, CheckRespects, workLeaves,
       vars, rowVars, worldVars, procVars, sideVars, countVars, histVars
  <2>43. ASSUME NEW w \in Workers, CheckReschedules(w) PROVE EdgeInv'
    BY <2>43, <1>1, Zenon DEF EdgeInv, Stays, Still, OtherWriterInFlight,
       Startable, Suspendable, Resumable, Terminal, CheckReschedules, workLeaves,
       vars, rowVars, worldVars, procVars, sideVars, countVars, histVars
  <2>44. ASSUME NEW w \in Workers, Rearm(w) PROVE EdgeInv'
    BY <2>44, <1>1, Zenon DEF EdgeInv, Stays, Still, OtherWriterInFlight,
       Startable, Suspendable, Resumable, Terminal, Rearm, workLeaves, vars,
       rowVars, worldVars, procVars, sideVars, countVars, histVars
  <2>45. ASSUME NEW w \in Workers, FailJob(w) PROVE EdgeInv'
    BY <2>45, <1>3, Zenon DEF EdgeInv, Stays, Still, OtherWriterInFlight,
       Startable, Suspendable, Resumable, Terminal, FailJob, workLeaves, vars,
       rowVars, worldVars, procVars, sideVars, countVars, histVars
  <2>46. ASSUME NEW w \in Workers, WorkerFault(w) PROVE EdgeInv'
    BY <2>46, <1>1, <1>3, Zenon DEF EdgeInv, Stays, Still, OtherWriterInFlight,
       Startable, Suspendable, Resumable, Terminal, WorkerFault, workLeaves,
       Mishap, vars, rowVars, worldVars, procVars, sideVars, countVars, histVars
  <2>47. ASSUME NEW s \in {"completed", "active", "failed"}, HookWrites(s) PROVE EdgeInv'
    BY <2>47, Zenon DEF EdgeInv, Stays, Still, OtherWriterInFlight, Startable,
       Suspendable, Resumable, Terminal, HookWrites, NextFires, Mishap,
       hookLeaves, vars, rowVars, worldVars, procVars, sideVars, countVars,
       histVars
  <2>48. CASE HookSchedules
    BY <2>48, Zenon DEF EdgeInv, Stays, Still, OtherWriterInFlight, Startable,
       Suspendable, Resumable, Terminal, HookSchedules, hookLeaves, NextFires,
       vars, rowVars, worldVars, procVars, sideVars, countVars, histVars
  <2>49. CASE HookGivesUp
    BY <2>49, Zenon DEF EdgeInv, Stays, Still, OtherWriterInFlight, Startable,
       Suspendable, Resumable, Terminal, HookGivesUp, hookLeaves, vars, rowVars,
       worldVars, procVars, sideVars, countVars, histVars
  <2>50. CASE Crash
    BY <2>50, <1>4, Zenon DEF EdgeInv, Stays, Still, OtherWriterInFlight,
       Startable, Suspendable, Resumable, Terminal, Crash, Mishap, vars, rowVars,
       worldVars, procVars, sideVars, countVars, histVars
  <2>51. CASE RecoverReads
    BY <2>51, Zenon DEF EdgeInv, Stays, Still, OtherWriterInFlight, Startable,
       Suspendable, Resumable, Terminal, RecoverReads, Interrupted, vars, rowVars,
       worldVars, procVars, sideVars, countVars, histVars
  <2>52. CASE RecoverWrites
    BY <2>52, Zenon DEF EdgeInv, Stays, Still, OtherWriterInFlight, Startable,
       Suspendable, Resumable, Terminal, RecoverWrites, vars, rowVars, worldVars,
       procVars, sideVars, countVars, histVars
  <2>53. CASE UNCHANGED vars
    BY <2>53, Zenon DEF EdgeInv, Stays, Still, OtherWriterInFlight, Startable,
       Suspendable, Resumable, Terminal, vars, rowVars, worldVars, procVars,
       sideVars, countVars, histVars
  <2> QED BY <2>1, <2>2, <2>3, <2>4, <2>5, <2>6, <2>7, <2>8, <2>9, <2>10, <2>11,
       <2>12, <2>13, <2>14, <2>15, <2>16, <2>17, <2>18, <2>19, <2>20, <2>21,
       <2>22, <2>23, <2>24, <2>25, <2>26, <2>27, <2>28, <2>29, <2>30, <2>31,
       <2>32, <2>33, <2>34, <2>35, <2>36, <2>37, <2>38, <2>39, <2>40, <2>41,
       <2>42, <2>43, <2>44, <2>45, <2>46, <2>47, <2>48, <2>49, <2>50, <2>51,
       <2>52, <2>53, Zenon DEF Next, World, Owner, Admin, Poller, Worker, Analysis
<1> QED BY <1>6

LEMMA AccountStep == RowType /\ AccountInv /\ [Next]_vars => AccountInv'
<1> SUFFICES ASSUME RowType, AccountInv, [Next]_vars PROVE AccountInv'
  OBVIOUS
<1>1. AccountInv'
  <2>1. CASE FireComes
    BY <2>1, Zenon DEF AccountInv, SuspensionPaused, Suspendable, Resumable,
       FireComes, vars, rowVars, worldVars, procVars, sideVars, countVars,
       histVars
  <2>2. CASE CooldownElapses
    BY <2>2, Zenon DEF AccountInv, SuspensionPaused, Suspendable, Resumable,
       CooldownElapses, vars, rowVars, worldVars, procVars, sideVars, countVars,
       histVars
  <2>3. CASE HorizonPasses
    BY <2>3, Zenon DEF AccountInv, SuspensionPaused, Suspendable, Resumable,
       HorizonPasses, Mishap, vars, rowVars, worldVars, procVars, sideVars,
       countVars, histVars
  <2>4. CASE Blocks
    BY <2>4, Zenon DEF AccountInv, SuspensionPaused, Suspendable, Resumable,
       Blocks, Mishap, vars, rowVars, worldVars, procVars, sideVars, countVars,
       histVars
  <2>5. CASE Unblocks
    BY <2>5, Zenon DEF AccountInv, SuspensionPaused, Suspendable, Resumable,
       Unblocks, vars, rowVars, worldVars, procVars, sideVars, countVars, histVars
  <2>6. CASE PanelReads
    BY <2>6, Zenon DEF AccountInv, SuspensionPaused, Suspendable, Resumable,
       PanelReads, OwnerActs, ownerLeaves, vars, rowVars, worldVars, procVars,
       sideVars, countVars, histVars
  <2>7. CASE PauseJob
    BY <2>7, Zenon DEF AccountInv, SuspensionPaused, Suspendable, Resumable,
       PauseJob, OwnerActs, Stops, ownerLeaves, vars, rowVars, worldVars,
       procVars, sideVars, countVars, histVars
  <2>8. CASE PauseTool
    BY <2>8, Zenon DEF AccountInv, SuspensionPaused, Suspendable, Resumable,
       PauseTool, OwnerActs, ownerLeaves, vars, rowVars, worldVars, procVars,
       sideVars, countVars, histVars
  <2>9. CASE CancelJob
    BY <2>9, Zenon DEF AccountInv, SuspensionPaused, Suspendable, Resumable,
       CancelJob, OwnerActs, Stops, ownerLeaves, vars, rowVars, worldVars,
       procVars, sideVars, countVars, histVars
  <2>10. CASE ResumeJob
    BY <2>10, Zenon DEF AccountInv, SuspensionPaused, Suspendable, Resumable,
       ResumeJob, OwnerActs, Resumed, NextFires, Wakes, ownerLeaves, vars,
       rowVars, worldVars, procVars, sideVars, countVars, histVars
  <2>11. CASE ActivateJob
    BY <2>11, Zenon DEF AccountInv, SuspensionPaused, Suspendable, Resumable,
       ActivateJob, OwnerActs, Wakes, ownerLeaves, vars, rowVars, worldVars,
       procVars, sideVars, countVars, histVars
  <2>12. ASSUME NEW d \in {"later", "now"}, RescheduleJob(d) PROVE AccountInv'
    BY <2>12, Zenon DEF AccountInv, SuspensionPaused, Suspendable, Resumable,
       RescheduleJob, OwnerActs, ownerLeaves, vars, rowVars, worldVars, procVars,
       sideVars, countVars, histVars
  <2>13. CASE SuspendFlips
    BY <2>13, Zenon DEF AccountInv, SuspensionPaused, Suspendable, Resumable,
       SuspendFlips, Mishap, admLeaves, vars, rowVars, worldVars, procVars,
       sideVars, countVars, histVars
  <2>14. CASE SuspendPauses
    BY <2>14, Zenon DEF AccountInv, SuspensionPaused, Suspendable, Resumable,
       SuspendPauses, admLeaves, vars, rowVars, worldVars, procVars, sideVars,
       countVars, histVars
  <2>15. CASE ReinstateFlips
    BY <2>15, Zenon DEF AccountInv, SuspensionPaused, Suspendable, Resumable,
       ReinstateFlips, admLeaves, vars, rowVars, worldVars, procVars, sideVars,
       countVars, histVars
  <2>16. CASE ReinstateSelects
    BY <2>16, Zenon DEF AccountInv, SuspensionPaused, Suspendable, Resumable,
       ReinstateSelects, admLeaves, vars, rowVars, worldVars, procVars, sideVars,
       countVars, histVars
  <2>17. CASE ReinstateJudges
    BY <2>17, Zenon DEF AccountInv, SuspensionPaused, Suspendable, Resumable,
       ReinstateJudges, admLeaves, vars, rowVars, worldVars, procVars, sideVars,
       countVars, histVars
  <2>18. CASE ReinstateResumes
    BY <2>18, Zenon DEF AccountInv, SuspensionPaused, Suspendable, Resumable,
       ReinstateResumes, Resumed, NextFires, admLeaves, vars, rowVars, worldVars,
       procVars, sideVars, countVars, histVars
  <2>19. CASE ReinstateFails
    BY <2>19, Zenon DEF AccountInv, SuspensionPaused, Suspendable, Resumable,
       ReinstateFails, admLeaves, vars, rowVars, worldVars, procVars, sideVars,
       countVars, histVars
  <2>20. CASE EdgeReads
    BY <2>20, Zenon DEF AccountInv, SuspensionPaused, Suspendable, Resumable,
       EdgeReads, OwnerActs, vars, rowVars, worldVars, procVars, sideVars,
       countVars, histVars
  <2>21. CASE EdgeWrites
    BY <2>21, Zenon DEF AccountInv, SuspensionPaused, Suspendable, Resumable,
       EdgeWrites, NextFires, vars, rowVars, worldVars, procVars, sideVars,
       countVars, histVars
  <2>22. CASE ScanReads
    BY <2>22, Zenon DEF AccountInv, SuspensionPaused, Suspendable, Resumable,
       ScanReads, NextFires, pollLeaves, vars, rowVars, worldVars, procVars,
       sideVars, countVars, histVars
  <2>23. CASE ResumeNoQuota
    BY <2>23, Zenon DEF AccountInv, SuspensionPaused, Suspendable, Resumable,
       ResumeNoQuota, NextFires, pollLeaves, vars, rowVars, worldVars, procVars,
       sideVars, countVars, histVars
  <2>24. CASE ResumeCapped
    BY <2>24, Zenon DEF AccountInv, SuspensionPaused, Suspendable, Resumable,
       ResumeCapped, NextFires, pollLeaves, vars, rowVars, worldVars, procVars,
       sideVars, countVars, histVars
  <2>25. CASE RearmCooled
    BY <2>25, Zenon DEF AccountInv, SuspensionPaused, Suspendable, Resumable,
       RearmCooled, NextFires, pollLeaves, vars, rowVars, worldVars, procVars,
       sideVars, countVars, histVars
  <2>26. CASE HealZombie
    BY <2>26, Zenon DEF AccountInv, SuspensionPaused, Suspendable, Resumable,
       HealZombie, NextFires, pollLeaves, vars, rowVars, worldVars, procVars,
       sideVars, countVars, histVars
  <2>27. CASE DueReads
    BY <2>27, Zenon DEF AccountInv, SuspensionPaused, Suspendable, Resumable,
       DueReads, NextFires, pollLeaves, vars, rowVars, worldVars, procVars,
       sideVars, countVars, histVars
  <2>28. CASE DueSkips
    BY <2>28, Zenon DEF AccountInv, SuspensionPaused, Suspendable, Resumable,
       DueSkips, NextFires, pollLeaves, vars, rowVars, worldVars, procVars,
       sideVars, countVars, histVars
  <2>29. CASE DueEnqueues
    BY <2>29, Zenon DEF AccountInv, SuspensionPaused, Suspendable, Resumable,
       DueEnqueues, NextFires, pollLeaves, vars, rowVars, worldVars, procVars,
       sideVars, countVars, histVars
  <2>30. CASE DueBanned
    BY <2>30, Zenon DEF AccountInv, SuspensionPaused, Suspendable, Resumable,
       DueBanned, NextFires, pollLeaves, vars, rowVars, worldVars, procVars,
       sideVars, countVars, histVars
  <2>31. CASE BanWrites
    BY <2>31, Zenon DEF AccountInv, SuspensionPaused, Suspendable, Resumable,
       BanWrites, NextFires, pollLeaves, RowType, vars, rowVars, worldVars,
       procVars, sideVars, countVars, histVars
  <2>32. ASSUME NEW w \in Workers, Take(w) PROVE AccountInv'
    BY <2>32, Zenon DEF AccountInv, SuspensionPaused, Suspendable, Resumable,
       Take, workLeaves, vars, rowVars, worldVars, procVars, sideVars, countVars,
       histVars
  <2>33. ASSUME NEW w \in Workers, Acquire(w) PROVE AccountInv'
    BY <2>33, Zenon DEF AccountInv, SuspensionPaused, Suspendable, Resumable,
       Acquire, workLeaves, vars, rowVars, worldVars, procVars, sideVars,
       countVars, histVars
  <2>34. ASSUME NEW w \in Workers, SpendGate(w) PROVE AccountInv'
    BY <2>34, Zenon DEF AccountInv, SuspensionPaused, Suspendable, Resumable,
       SpendGate, workLeaves, vars, rowVars, worldVars, procVars, sideVars,
       countVars, histVars
  <2>35. ASSUME NEW w \in Workers, NEW o \in Outcomes, RunEnds(w, o) PROVE AccountInv'
    BY <2>35, Zenon DEF AccountInv, SuspensionPaused, Suspendable, Resumable,
       RunEnds, workLeaves, vars, rowVars, worldVars, procVars, sideVars,
       countVars, histVars
  <2>36. ASSUME NEW w \in Workers, FinalPauses(w) PROVE AccountInv'
    BY <2>36, Zenon DEF AccountInv, SuspensionPaused, Suspendable, Resumable,
       FinalPauses, workLeaves, vars, rowVars, worldVars, procVars, sideVars,
       countVars, histVars
  <2>37. ASSUME NEW w \in Workers, FinalFails(w) PROVE AccountInv'
    BY <2>37, Zenon DEF AccountInv, SuspensionPaused, Suspendable, Resumable,
       FinalFails, workLeaves, GivesUp, vars, rowVars, worldVars, procVars,
       sideVars, countVars, histVars
  <2>38. ASSUME NEW w \in Workers, FinalCompletes(w) PROVE AccountInv'
    BY <2>38, Zenon DEF AccountInv, SuspensionPaused, Suspendable, Resumable,
       FinalCompletes, workLeaves, ClearBackoff, vars, rowVars, worldVars,
       procVars, sideVars, countVars, histVars
  <2>39. ASSUME NEW w \in Workers, FinalRecurs(w) PROVE AccountInv'
    BY <2>39, Zenon DEF AccountInv, SuspensionPaused, Suspendable, Resumable,
       FinalRecurs, workLeaves, ClearBackoff, vars, rowVars, worldVars, procVars,
       sideVars, countVars, histVars
  <2>40. ASSUME NEW w \in Workers, CheckStopped(w) PROVE AccountInv'
    BY <2>40, Zenon DEF AccountInv, SuspensionPaused, Suspendable, Resumable,
       CheckStopped, workLeaves, vars, rowVars, worldVars, procVars, sideVars,
       countVars, histVars
  <2>41. ASSUME NEW w \in Workers, CheckHorizon(w) PROVE AccountInv'
    BY <2>41, Zenon DEF AccountInv, SuspensionPaused, Suspendable, Resumable,
       CheckHorizon, workLeaves, vars, rowVars, worldVars, procVars, sideVars,
       countVars, histVars
  <2>42. ASSUME NEW w \in Workers, CheckRespects(w) PROVE AccountInv'
    BY <2>42, Zenon DEF AccountInv, SuspensionPaused, Suspendable, Resumable,
       CheckRespects, workLeaves, vars, rowVars, worldVars, procVars, sideVars,
       countVars, histVars
  <2>43. ASSUME NEW w \in Workers, CheckReschedules(w) PROVE AccountInv'
    BY <2>43, Zenon DEF AccountInv, SuspensionPaused, Suspendable, Resumable,
       CheckReschedules, workLeaves, vars, rowVars, worldVars, procVars, sideVars,
       countVars, histVars
  <2>44. ASSUME NEW w \in Workers, Rearm(w) PROVE AccountInv'
    BY <2>44, Zenon DEF AccountInv, SuspensionPaused, Suspendable, Resumable,
       Rearm, workLeaves, vars, rowVars, worldVars, procVars, sideVars, countVars,
       histVars
  <2>45. ASSUME NEW w \in Workers, FailJob(w) PROVE AccountInv'
    BY <2>45, Zenon DEF AccountInv, SuspensionPaused, Suspendable, Resumable,
       FailJob, workLeaves, vars, rowVars, worldVars, procVars, sideVars,
       countVars, histVars
  <2>46. ASSUME NEW w \in Workers, WorkerFault(w) PROVE AccountInv'
    BY <2>46, Zenon DEF AccountInv, SuspensionPaused, Suspendable, Resumable,
       WorkerFault, workLeaves, Mishap, vars, rowVars, worldVars, procVars,
       sideVars, countVars, histVars
  <2>47. ASSUME NEW s \in {"completed", "active", "failed"}, HookWrites(s) PROVE AccountInv'
    BY <2>47, Zenon DEF AccountInv, SuspensionPaused, Suspendable, Resumable,
       HookWrites, NextFires, Mishap, hookLeaves, vars, rowVars, worldVars,
       procVars, sideVars, countVars, histVars
  <2>48. CASE HookSchedules
    BY <2>48, Zenon DEF AccountInv, SuspensionPaused, Suspendable, Resumable,
       HookSchedules, hookLeaves, NextFires, vars, rowVars, worldVars, procVars,
       sideVars, countVars, histVars
  <2>49. CASE HookGivesUp
    BY <2>49, Zenon DEF AccountInv, SuspensionPaused, Suspendable, Resumable,
       HookGivesUp, hookLeaves, vars, rowVars, worldVars, procVars, sideVars,
       countVars, histVars
  <2>50. CASE Crash
    BY <2>50, Zenon DEF AccountInv, SuspensionPaused, Suspendable, Resumable,
       Crash, Mishap, vars, rowVars, worldVars, procVars, sideVars, countVars,
       histVars
  <2>51. CASE RecoverReads
    BY <2>51, Zenon DEF AccountInv, SuspensionPaused, Suspendable, Resumable,
       RecoverReads, Interrupted, vars, rowVars, worldVars, procVars, sideVars,
       countVars, histVars
  <2>52. CASE RecoverWrites
    BY <2>52, Zenon DEF AccountInv, SuspensionPaused, Suspendable, Resumable,
       RecoverWrites, vars, rowVars, worldVars, procVars, sideVars, countVars,
       histVars
  <2>53. CASE UNCHANGED vars
    BY <2>53, Zenon DEF AccountInv, SuspensionPaused, Suspendable, Resumable,
       vars, rowVars, worldVars, procVars, sideVars, countVars, histVars
  <2> QED BY <2>1, <2>2, <2>3, <2>4, <2>5, <2>6, <2>7, <2>8, <2>9, <2>10, <2>11,
       <2>12, <2>13, <2>14, <2>15, <2>16, <2>17, <2>18, <2>19, <2>20, <2>21,
       <2>22, <2>23, <2>24, <2>25, <2>26, <2>27, <2>28, <2>29, <2>30, <2>31,
       <2>32, <2>33, <2>34, <2>35, <2>36, <2>37, <2>38, <2>39, <2>40, <2>41,
       <2>42, <2>43, <2>44, <2>45, <2>46, <2>47, <2>48, <2>49, <2>50, <2>51,
       <2>52, <2>53, Zenon DEF Next, World, Owner, Admin, Poller, Worker, Analysis
<1> QED BY <1>1

LEMMA Initially == Init => StopInv /\ EdgeInv /\ AccountInv
BY Zenon DEF Init, StopInv, EdgeInv, AccountInv, SuspensionPaused

\* The inductive invariant of a job: its types, the single claim, and what no writer
\* in mid-step can still do to a stop, a wait or a suspension.
JobInv == TypeOK /\ Alone /\ StopInv /\ EdgeInv /\ AccountInv

THEOREM JobInductive == Spec => []JobInv
<1>1. Init => Alone
  BY SMT DEF Init, Alone, At, IdleWork
<1>2. JobInv /\ [Next]_vars => JobInv'
  BY RowStep, FlagStep, ProcStep, AloneStep, StopStep, EdgeStep, AccountStep, Zenon
  DEF JobInv, TypeOK
<1>3. Init => TypeOK
  BY InitType
<1> QED BY <1>1, <1>2, <1>3, Initially, PTL DEF Spec, JobInv

\* A stop said while no other writer has read the row holds, whatever comes later:
\* scans, edges, reinstatements, restarts and queued snapshots leave it alone.
THEOREM StopsHold == Spec => []StopHolds
<1>1. JobInv => StopHolds
  BY Zenon DEF JobInv, StopInv, Stopped, StopHolds, Startable
<1> QED BY <1>1, JobInductive, PTL

\* A job that waits for something only its owner can do is not re-armed by a scan.
THEOREM EdgeOnlyStays == Spec => []EdgeOnlyWaits
<1>1. JobInv => EdgeOnlyWaits
  BY Zenon DEF JobInv, EdgeInv, Stays, EdgeOnlyWaits, Startable
<1> QED BY <1>1, JobInductive, PTL

\* A reinstatement leaves no job behind that the suspension paused.
THEOREM ReinstatementComplete == Spec => []ReinstateRestores
<1>1. JobInv => ReinstateRestores
  BY Zenon DEF JobInv, AccountInv, ReinstateRestores
<1> QED BY <1>1, JobInductive, PTL
=============================================================================
