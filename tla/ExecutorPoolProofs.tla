------------------------- MODULE ExecutorPoolProofs -------------------------
(***************************************************************************)
(* What holds of ExecutorPool for any runs, users, processes, caps and     *)
(* bound.  The parts of the inductive invariant PoolInv:                   *)
(*   - TypeOK, the shape of a pass, and OneReplacer: one recorded run of a *)
(*     user at most may have its container replaced;                       *)
(*   - Unseen: while a stop is on its way, every live row of its user was  *)
(*     written after the recheck; CutOnlyUnseen follows;                   *)
(*   - SlotsCounted and CountersCapped: the counters count the runs that   *)
(*     hold slots, and stay within the caps; CapsKept follows;             *)
(*   - SleepersRefused: between two releases of its process, what a        *)
(*     sleeping run was refused for stands; with SlotsCounted, there is    *)
(*     somebody to wake it: NoLostWakeup;                                  *)
(*   - IdleRemembered: an idle container has a stamp or is being claimed.  *)
(***************************************************************************)
EXTENDS ExecutorPool, FiniteSetTheorems, TLAPS

\* What Recheck found stays true until the stop is answered, but for runs that go
\* running meanwhile.
Unseen == cur # NoUser => LiveRuns(cur) \subseteq late


LEMMA TypeStep == TypeOK /\ [Next]_vars => TypeOK'
<1> SUFFICES ASSUME TypeOK, [Next]_vars PROVE TypeOK'
  OBVIOUS
<1> USE PoolAssumption DEF TypeOK
<1>1. ASSUME NEW r \in Runs, Acquire(r) PROVE TypeOK'
  <2>1. CASE WithinCaps(Home[r], Owner[r]) /\ ~MemoryHolds
    <3>1. at' \in [Runs -> Places]
      BY <1>1, <2>1 DEF Acquire, Goto, Places
    <3>2. total' \in [Procs -> Nat] /\ active' \in [Procs -> [Users -> Nat]]
      <4>1. Home[r] \in Procs /\ Owner[r] \in Users
        OBVIOUS
      <4>2. total' = [total EXCEPT ![Home[r]] = @ + 1]
            /\ active' = [active EXCEPT ![Home[r]][Owner[r]] = @ + 1]
        BY <1>1, <2>1, Zenon DEF Acquire
      <4>3. active[Home[r]] \in [Users -> Nat] /\ active[Home[r]][Owner[r]] + 1 \in Nat
            /\ total[Home[r]] + 1 \in Nat
        BY <4>1
      <4> QED BY <4>1, <4>2, <4>3, Zenon
    <3>3. stamp' \in [Users -> {"none", "young", "due"}] /\ same' \subseteq Users
          /\ owed' \subseteq Users
      BY <1>1, <2>1 DEF Acquire
    <3> QED BY <1>1, <2>1, <3>1, <3>2, <3>3 DEF Acquire, extVars
  <2>2. CASE ~(WithinCaps(Home[r], Owner[r]) /\ ~MemoryHolds)
    BY <1>1, <2>2 DEF Acquire, Goto, Places, admVars, extVars
  <2> QED BY <2>1, <2>2
<1>2. ASSUME NEW r \in Runs, Release(r) PROVE TypeOK'
  <2>1. at' \in [Runs -> Places]
    BY <1>2 DEF Release, Places
  <2>2. total' \in [Procs -> Nat]
    BY <1>2 DEF Release
  <2>3. active' \in [Procs -> [Users -> Nat]]
    <3>1. CASE active[Home[r]][Owner[r]] > 0
      <4>1. Home[r] \in Procs /\ Owner[r] \in Users
        OBVIOUS
      <4>2. active' = [active EXCEPT ![Home[r]][Owner[r]] = @ - 1]
        BY <1>2, <3>1, Zenon DEF Release
      <4>3. active[Home[r]] \in [Users -> Nat] /\ active[Home[r]][Owner[r]] - 1 \in Nat
        BY <3>1, <4>1
      <4> QED BY <4>1, <4>2, <4>3, Zenon
    <3>2. CASE ~(active[Home[r]][Owner[r]] > 0)
      BY <1>2, <3>2 DEF Release
    <3> QED BY <3>1, <3>2
  <2>4. stamp' \in [Users -> {"none", "young", "due"}] /\ same' \subseteq Users
        /\ owed' \subseteq Users
    BY <1>2 DEF Release
  <2> QED BY <1>2, <2>1, <2>2, <2>3, <2>4 DEF Release, extVars
<1>3. ASSUME NEW r \in Runs, Record(r) PROVE TypeOK'
  BY <1>3 DEF Record, Goto, Mishap, Places, admVars, passVars, extVars
<1>4. ASSUME NEW r \in Runs, Ask(r) PROVE TypeOK'
  <2>1. may' \in [Runs -> BOOLEAN]
    <3>1. \E b \in BOOLEAN : may' = [may EXCEPT ![r] = b]
      BY <1>4, Zenon DEF Ask
    <3> QED BY <3>1
  <2>2. mishaps' \in Nat
    BY <1>4 DEF Ask, Mishap
  <2> QED BY <1>4, <2>1, <2>2 DEF Ask, Goto, Places, admVars, passVars, extVars, hist
<1>5. ASSUME NEW r \in Runs, Ensure(r) PROVE TypeOK'
  BY <1>5 DEF Ensure, Places, admVars, passVars, hist
<1>6. ASSUME NEW r \in Runs, EnsureFails(r) PROVE TypeOK'
  BY <1>6 DEF EnsureFails, Goto, Mishap, Places, admVars, passVars, extVars, hist
<1>7. ASSUME NEW r \in Runs, Connect(r) PROVE TypeOK'
  BY <1>7 DEF Connect, Goto, Places, admVars, passVars, extVars, hist
<1>8. ASSUME NEW r \in Runs, LoopEnds(r) PROVE TypeOK'
  BY <1>8 DEF LoopEnds, Goto, Places, admVars, passVars, extVars, hist
<1>9. ASSUME NEW r \in Runs, Finalize(r) PROVE TypeOK'
  <2>1. row' \in [Runs -> {"none", "live", "over"}] /\ mishaps' \in Nat
    BY <1>9 DEF Finalize, Mishap
  <2> QED BY <1>9, <2>1 DEF Finalize, Goto, Places, admVars, passVars, extVars, hist
<1>10. ASSUME NEW r \in Runs, GoesStale(r) PROVE TypeOK'
  BY <1>10 DEF GoesStale, admVars, passVars, extVars, hist
<1>11. ASSUME NEW u \in Users, Ages(u) PROVE TypeOK'
  BY <1>11 DEF Ages, runVars, passVars, extVars, hist
<1>12. CASE ClaimStarts
  BY <1>12 DEF ClaimStarts, runVars, admVars, extVars, hist
<1>13. ASSUME NEW u \in Users, Judge(u) PROVE TypeOK'
  BY <1>13 DEF Judge, Mishap, runVars, admVars, extVars, hist
<1>14. CASE ClaimEnds
  BY <1>14 DEF ClaimEnds, Claimable, runVars, extVars, hist
<1>15. ASSUME NEW u \in Users, Recheck(u) PROVE TypeOK'
  BY <1>15 DEF Recheck, Restamped, PassDone, Mishap, runVars, extVars
<1>16. CASE Stop
  BY <1>16 DEF Stop, Restamped, PassDone, Mishap, runVars
<1>17. ASSUME NEW p \in Procs, Restart(p) PROVE TypeOK'
  BY <1>17 DEF Restart, Mishap, Places, passVars, extVars
<1>18. CASE Deploy
  BY <1>18 DEF Deploy, Mishap, runVars, admVars, passVars, hist
<1>19. CASE MemoryLow \/ MemoryBack
  <2>1. low' \in BOOLEAN
    BY <1>19 DEF MemoryLow, MemoryBack
  <2>2. mishaps' \in Nat
    BY <1>19 DEF MemoryLow, MemoryBack, Mishap
  <2>3. UNCHANGED <<runVars, admVars, passVars, cont, hist>>
    BY <1>19 DEF MemoryLow, MemoryBack
  <2> QED BY <2>1, <2>2, <2>3 DEF runVars, admVars, passVars, hist
<1>20. CASE UNCHANGED vars
  BY <1>20 DEF vars, runVars, admVars, passVars, extVars, hist
<1> QED BY <1>1, <1>2, <1>3, <1>4, <1>5, <1>6, <1>7, <1>8, <1>9, <1>10, <1>11, <1>12,
  <1>13, <1>14, <1>15, <1>16, <1>17, <1>18, <1>19, <1>20 DEF Next, RunStep, ReapStep

\* Whoever asks second finds the row of the first.
LEMMA ExclusiveStep == TypeOK /\ OneReplacer /\ [Next]_vars => OneReplacer'
<1> SUFFICES ASSUME TypeOK /\ OneReplacer, [Next]_vars PROVE OneReplacer'
  OBVIOUS
<1>0. TypeOK /\ OneReplacer
  OBVIOUS
<1>1. ASSUME NEW r \in Runs, Acquire(r) PROVE OneReplacer'
  BY <1>0, <1>1 DEF Acquire, Goto, TypeOK, OneReplacer, Replacer
<1>2. ASSUME NEW r \in Runs, Release(r) PROVE OneReplacer'
  BY <1>0, <1>2 DEF Release, TypeOK, OneReplacer, Replacer
<1>3. ASSUME NEW r \in Runs, Record(r) PROVE OneReplacer'
  BY <1>0, <1>3 DEF Record, Goto, TypeOK, OneReplacer, Replacer
<1>4. ASSUME NEW r \in Runs, Ask(r) PROVE OneReplacer'
  <2>1. \A q \in Runs \ {r} : Replacer(q)' <=> Replacer(q)
    BY <1>0, <1>4 DEF Ask, Goto, TypeOK, Replacer
  <2>2. ASSUME NEW q \in Runs \ {r}, Owner[q] = Owner[r], Replacer(r)', Replacer(q)'
        PROVE FALSE
    <3>1. q \in OthersLive(r)
      BY <1>4, <2>2 DEF Ask, OthersLive, LiveRuns, Replacer
    <3>2. may'[r] = (OthersLive(r) = {}) \/ ~may'[r]
      BY <1>0, <1>4, Zenon DEF Ask, TypeOK
    <3> QED BY <2>2, <3>1, <3>2 DEF Replacer
  <2> QED BY <1>0, <2>1, <2>2 DEF OneReplacer
<1>5. ASSUME NEW r \in Runs, Ensure(r) PROVE OneReplacer'
  BY <1>0, <1>5 DEF Ensure, TypeOK, OneReplacer, Replacer
<1>6. ASSUME NEW r \in Runs, EnsureFails(r) PROVE OneReplacer'
  BY <1>0, <1>6 DEF EnsureFails, Goto, TypeOK, OneReplacer, Replacer
<1>7. ASSUME NEW r \in Runs, Connect(r) PROVE OneReplacer'
  BY <1>0, <1>7 DEF Connect, Goto, TypeOK, OneReplacer, Replacer
<1>8. ASSUME NEW r \in Runs, LoopEnds(r) PROVE OneReplacer'
  BY <1>0, <1>8 DEF LoopEnds, Goto, TypeOK, OneReplacer, Replacer
<1>9. ASSUME NEW r \in Runs, Finalize(r) PROVE OneReplacer'
  BY <1>0, <1>9 DEF Finalize, Goto, TypeOK, OneReplacer, Replacer
<1>10. ASSUME NEW r \in Runs, GoesStale(r) PROVE OneReplacer'
  BY <1>0, <1>10 DEF GoesStale, TypeOK, OneReplacer, Replacer
<1>11. ASSUME NEW u \in Users, Ages(u) PROVE OneReplacer'
  BY <1>0, <1>11 DEF Ages, runVars, TypeOK, OneReplacer, Replacer
<1>12. CASE ClaimStarts
  BY <1>0, <1>12 DEF ClaimStarts, runVars, TypeOK, OneReplacer, Replacer
<1>13. ASSUME NEW u \in Users, Judge(u) PROVE OneReplacer'
  BY <1>0, <1>13 DEF Judge, runVars, TypeOK, OneReplacer, Replacer
<1>14. CASE ClaimEnds
  BY <1>0, <1>14 DEF ClaimEnds, runVars, TypeOK, OneReplacer, Replacer
<1>15. ASSUME NEW u \in Users, Recheck(u) PROVE OneReplacer'
  BY <1>0, <1>15 DEF Recheck, runVars, TypeOK, OneReplacer, Replacer
<1>16. CASE Stop
  BY <1>0, <1>16 DEF Stop, runVars, TypeOK, OneReplacer, Replacer
<1>17. ASSUME NEW p \in Procs, Restart(p) PROVE OneReplacer'
  BY <1>0, <1>17 DEF Restart, TypeOK, OneReplacer, Replacer
<1>18. CASE Deploy
  BY <1>0, <1>18 DEF Deploy, runVars, TypeOK, OneReplacer, Replacer
<1>19. CASE MemoryLow \/ MemoryBack
  BY <1>0, <1>19 DEF MemoryLow, MemoryBack, runVars, TypeOK, OneReplacer, Replacer
<1>20. CASE UNCHANGED vars
  BY <1>0, <1>20 DEF vars, runVars, TypeOK, OneReplacer, Replacer
<1> QED BY <1>1, <1>2, <1>3, <1>4, <1>5, <1>6, <1>7, <1>8, <1>9, <1>10, <1>11, <1>12,
  <1>13, <1>14, <1>15, <1>16, <1>17, <1>18, <1>19, <1>20 DEF Next, RunStep, ReapStep

\* A row that goes live while a stop is on its way is one of the late ones.
LEMMA UnseenStep == TypeOK /\ Unseen /\ [Next]_vars => Unseen'
<1> SUFFICES ASSUME TypeOK /\ Unseen, [Next]_vars PROVE Unseen'
  OBVIOUS
<1>0. TypeOK /\ Unseen
  OBVIOUS
<1>1. ASSUME NEW r \in Runs, Acquire(r) PROVE Unseen'
  BY <1>0, <1>1 DEF Acquire, Goto, TypeOK, Unseen, LiveRuns
<1>2. ASSUME NEW r \in Runs, Release(r) PROVE Unseen'
  BY <1>0, <1>2 DEF Release, TypeOK, Unseen, LiveRuns
<1>3. ASSUME NEW r \in Runs, Record(r) PROVE Unseen'
  BY <1>0, <1>3 DEF Record, Goto, passVars, TypeOK, Unseen, LiveRuns
<1>4. ASSUME NEW r \in Runs, Ask(r) PROVE Unseen'
  BY <1>0, <1>4 DEF Ask, Goto, passVars, hist, TypeOK, Unseen, LiveRuns
<1>5. ASSUME NEW r \in Runs, Ensure(r) PROVE Unseen'
  BY <1>0, <1>5 DEF Ensure, passVars, hist, TypeOK, Unseen, LiveRuns
<1>6. ASSUME NEW r \in Runs, EnsureFails(r) PROVE Unseen'
  BY <1>0, <1>6 DEF EnsureFails, Goto, passVars, hist, TypeOK, Unseen, LiveRuns
<1>7. ASSUME NEW r \in Runs, Connect(r) PROVE Unseen'
  BY <1>0, <1>7 DEF Connect, Goto, passVars, hist, TypeOK, Unseen, LiveRuns
<1>8. ASSUME NEW r \in Runs, LoopEnds(r) PROVE Unseen'
  BY <1>0, <1>8 DEF LoopEnds, Goto, passVars, hist, TypeOK, Unseen, LiveRuns
<1>9. ASSUME NEW r \in Runs, Finalize(r) PROVE Unseen'
  BY <1>0, <1>9 DEF Finalize, Goto, passVars, hist, TypeOK, Unseen, LiveRuns
<1>10. ASSUME NEW r \in Runs, GoesStale(r) PROVE Unseen'
  BY <1>0, <1>10 DEF GoesStale, passVars, hist, TypeOK, Unseen, LiveRuns
<1>11. ASSUME NEW u \in Users, Ages(u) PROVE Unseen'
  BY <1>0, <1>11 DEF Ages, runVars, passVars, hist, TypeOK, Unseen, LiveRuns
<1>12. CASE ClaimStarts
  BY <1>0, <1>12 DEF ClaimStarts, runVars, hist, TypeOK, Unseen, LiveRuns
<1>13. ASSUME NEW u \in Users, Judge(u) PROVE Unseen'
  BY <1>0, <1>13 DEF Judge, runVars, hist, TypeOK, Unseen, LiveRuns
<1>14. CASE ClaimEnds
  BY <1>0, <1>14 DEF ClaimEnds, runVars, hist, TypeOK, Unseen, LiveRuns
<1>15. ASSUME NEW u \in Users, Recheck(u) PROVE Unseen'
  BY <1>0, <1>15, PoolAssumption DEF Recheck, StillIdle, runVars, TypeOK, Unseen, LiveRuns
<1>16. CASE Stop
  BY <1>0, <1>16 DEF Stop, runVars, TypeOK, Unseen, LiveRuns
<1>17. ASSUME NEW p \in Procs, Restart(p) PROVE Unseen'
  BY <1>0, <1>17 DEF Restart, passVars, TypeOK, Unseen, LiveRuns
<1>18. CASE Deploy
  BY <1>0, <1>18 DEF Deploy, runVars, passVars, hist, TypeOK, Unseen, LiveRuns
<1>19. CASE MemoryLow \/ MemoryBack
  BY <1>0, <1>19 DEF MemoryLow, MemoryBack, runVars, passVars, hist, TypeOK, Unseen, LiveRuns
<1>20. CASE UNCHANGED vars
  BY <1>0, <1>20 DEF vars, runVars, passVars, hist, TypeOK, Unseen, LiveRuns
<1> QED BY <1>1, <1>2, <1>3, <1>4, <1>5, <1>6, <1>7, <1>8, <1>9, <1>10, <1>11, <1>12,
  <1>13, <1>14, <1>15, <1>16, <1>17, <1>18, <1>19, <1>20 DEF Next, RunStep, ReapStep

-----------------------------------------------------------------------------
(* The counters, the queue and the idle users.                               *)

\* The counters of a process count the runs that hold its slots.
LoopsCounted(p) == total[p] = Cardinality(Holders(p))
UserCounted(p, u) == active[p][u] = Cardinality(UserHolders(p, u))
SlotsCounted == \A p \in Procs : LoopsCounted(p) /\ \A u \in Users : UserCounted(p, u)

\* They stay within the caps.
CountersCapped ==
    \A p \in Procs :
        /\ MaxLoops = 0 \/ total[p] <= MaxLoops
        /\ \A u \in Users : MaxLoopsPerUser = 0 \/ active[p][u] <= MaxLoopsPerUser
        /\ MaxUsers = 0 \/ Cardinality(ActiveUsers(p)) <= MaxUsers

\* A run that sleeps, for another reason than memory, would be refused if it looked now.
SleepersRefused ==
    \A r \in Runs : at[r] = "asleep" /\ r \notin memHeld => ~WithinCaps(Home[r], Owner[r])

\* The steps by what they do to the slots: one is taken, one comes back, a process loses
\* all of its own, or nothing changes and whoever goes to sleep was refused.
Admits(r) == Acquire(r) /\ WithinCaps(Home[r], Owner[r]) /\ ~MemoryHolds
Quiet ==
    /\ UNCHANGED <<total, active>>
    /\ \A q \in Runs : at'[q] \in Holding <=> at[q] \in Holding
    /\ \A q \in Runs :
           at'[q] = "asleep" /\ q \notin memHeld'
               => (at[q] = "asleep" /\ q \notin memHeld) \/ ~WithinCaps(Home[q], Owner[q])

LEMMA StepKinds ==
    ASSUME TypeOK, [Next]_vars
    PROVE  \/ Quiet
           \/ \E r \in Runs : Admits(r) \/ Release(r)
           \/ \E p \in Procs : Restart(p)
<1> USE DEF Quiet, Holding, TypeOK
<1>1. ASSUME NEW r \in Runs, Acquire(r) PROVE Quiet \/ Admits(r)
  <2>1. CASE WithinCaps(Home[r], Owner[r]) /\ ~MemoryHolds
    BY <1>1, <2>1, Zenon DEF Admits
  <2>2. CASE ~(WithinCaps(Home[r], Owner[r]) /\ ~MemoryHolds)
    BY <1>1, <2>2 DEF Acquire, Goto, admVars
  <2> QED BY <2>1, <2>2
<1>2. ASSUME NEW r \in Runs, Record(r) PROVE Quiet
  BY <1>2 DEF Record, Goto, admVars
<1>3. ASSUME NEW r \in Runs, Ask(r) PROVE Quiet
  BY <1>3 DEF Ask, Goto, admVars, hist
<1>4. ASSUME NEW r \in Runs, Ensure(r) PROVE Quiet
  BY <1>4 DEF Ensure, admVars, hist
<1>5. ASSUME NEW r \in Runs, EnsureFails(r) PROVE Quiet
  BY <1>5 DEF EnsureFails, Goto, admVars, hist
<1>6. ASSUME NEW r \in Runs, Connect(r) PROVE Quiet
  BY <1>6 DEF Connect, Goto, admVars, hist
<1>7. ASSUME NEW r \in Runs, LoopEnds(r) PROVE Quiet
  BY <1>7 DEF LoopEnds, Goto, admVars, hist
<1>8. ASSUME NEW r \in Runs, Finalize(r) PROVE Quiet
  BY <1>8 DEF Finalize, Goto, admVars, hist
<1>9. ASSUME NEW r \in Runs, GoesStale(r) PROVE Quiet
  BY <1>9 DEF GoesStale, admVars, hist
<1>10. ASSUME NEW u \in Users, Ages(u) \/ Judge(u) \/ Recheck(u) PROVE Quiet
  BY <1>10 DEF Ages, Judge, Recheck, runVars, admVars, hist
<1>11. CASE ClaimStarts \/ ClaimEnds \/ Stop
  BY <1>11 DEF ClaimStarts, ClaimEnds, Stop, runVars, admVars, hist
<1>12. CASE Deploy \/ MemoryLow \/ MemoryBack
  BY <1>12 DEF Deploy, MemoryLow, MemoryBack, runVars, admVars, hist
<1>13. CASE UNCHANGED vars
  BY <1>13 DEF vars, runVars, admVars, hist
<1> QED BY <1>1, <1>2, <1>3, <1>4, <1>5, <1>6, <1>7, <1>8, <1>9, <1>10, <1>11, <1>12,
  <1>13 DEF Next, RunStep, ReapStep

\* What an admission and a release do to the counters.
LEMMA AdmitCounts ==
    ASSUME TypeOK, NEW r \in Runs, Admits(r)
    PROVE  /\ at[r] \in {"none", "woken"} /\ at' = [at EXCEPT ![r] = "admitted"]
           /\ memHeld' = memHeld \ {r}
           /\ \A p \in Procs : total'[p] = IF p = Home[r] THEN total[p] + 1 ELSE total[p]
           /\ \A p \in Procs, u \in Users :
                  active'[p][u] = IF p = Home[r] /\ u = Owner[r] THEN active[p][u] + 1
                                  ELSE active[p][u]
<1>1. Home[r] \in Procs /\ Owner[r] \in Users
  BY PoolAssumption
<1>2. at[r] \in {"none", "woken"} /\ at' = [at EXCEPT ![r] = "admitted"]
      /\ memHeld' = memHeld \ {r}
      /\ total' = [total EXCEPT ![Home[r]] = @ + 1]
      /\ active' = [active EXCEPT ![Home[r]][Owner[r]] = @ + 1]
  BY Zenon DEF Admits, Acquire, Goto
<1>3. ASSUME NEW p \in Procs
      PROVE total'[p] = IF p = Home[r] THEN total[p] + 1 ELSE total[p]
  BY <1>1, <1>2 DEF TypeOK
<1>4. ASSUME NEW p \in Procs, NEW u \in Users
      PROVE active'[p][u] = IF p = Home[r] /\ u = Owner[r] THEN active[p][u] + 1
                            ELSE active[p][u]
  <2>1. active[p] \in [Users -> Nat]
    BY DEF TypeOK
  <2>2. p # Home[r] => active'[p] = active[p]
    BY <1>1, <1>2 DEF TypeOK
  <2>3. p = Home[r] => active'[p] = [active[p] EXCEPT ![Owner[r]] = @ + 1]
    BY <1>1, <1>2, Zenon DEF TypeOK
  <2> QED BY <1>1, <2>1, <2>2, <2>3
<1> QED BY <1>2, <1>3, <1>4, Zenon

LEMMA ReleaseCounts ==
    ASSUME TypeOK, SlotsCounted, NEW r \in Runs, Release(r)
    PROVE  /\ at[r] = "closing" /\ memHeld' = memHeld
           /\ at' = [q \in Runs |-> IF q = r THEN "closed"
                                    ELSE IF Notified(r, q) THEN "woken" ELSE at[q]]
           /\ \A p \in Procs : total'[p] = IF p = Home[r] THEN total[p] - 1 ELSE total[p]
           /\ \A p \in Procs, u \in Users :
                  active'[p][u] = IF p = Home[r] /\ u = Owner[r] THEN active[p][u] - 1
                                  ELSE active[p][u]
           /\ active[Home[r]][Owner[r]] > 0
<1>1. Home[r] \in Procs /\ Owner[r] \in Users
  BY PoolAssumption
<1>2. total[Home[r]] > 0 /\ active[Home[r]][Owner[r]] > 0
  <2>1. r \in UserHolders(Home[r], Owner[r]) /\ r \in Holders(Home[r])
    BY DEF Release, UserHolders, Holders, Holding
  <2>2. IsFiniteSet(Holders(Home[r])) /\ IsFiniteSet(UserHolders(Home[r], Owner[r]))
    BY PoolAssumption, FS_Subset DEF Holders, UserHolders
  <2>3. Cardinality(Holders(Home[r])) # 0 /\ Cardinality(UserHolders(Home[r], Owner[r])) # 0
    BY <2>1, <2>2, FS_EmptySet
  <2> QED BY <1>1, <2>3 DEF SlotsCounted, LoopsCounted, UserCounted, TypeOK
<1>3. at[r] = "closing" /\ memHeld' = memHeld
      /\ at' = [q \in Runs |-> IF q = r THEN "closed"
                               ELSE IF Notified(r, q) THEN "woken" ELSE at[q]]
      /\ total' = [total EXCEPT ![Home[r]] = IF @ > 0 THEN @ - 1 ELSE 0]
      /\ active' = [active EXCEPT ![Home[r]][Owner[r]] = @ - 1]
  BY <1>2, Zenon DEF Release
<1>4. ASSUME NEW p \in Procs
      PROVE total'[p] = IF p = Home[r] THEN total[p] - 1 ELSE total[p]
  BY <1>1, <1>2, <1>3 DEF TypeOK
<1>5. ASSUME NEW p \in Procs, NEW u \in Users
      PROVE active'[p][u] = IF p = Home[r] /\ u = Owner[r] THEN active[p][u] - 1
                            ELSE active[p][u]
  <2>1. active[p] \in [Users -> Nat]
    BY DEF TypeOK
  <2>2. p # Home[r] => active'[p] = active[p]
    BY <1>1, <1>3 DEF TypeOK
  <2>3. p = Home[r] => active'[p] = [active[p] EXCEPT ![Owner[r]] = @ - 1]
    BY <1>1, <1>3, Zenon DEF TypeOK
  <2> QED BY <1>1, <2>1, <2>2, <2>3
<1> QED BY <1>2, <1>3, <1>4, <1>5, Zenon

LEMMA RestartCounts ==
    ASSUME TypeOK, NEW p \in Procs, Restart(p)
    PROVE  /\ at' = [r \in Runs |-> IF Home[r] = p /\ at[r] # "none" THEN "done" ELSE at[r]]
           /\ memHeld' = memHeld
           /\ \A q \in Procs : total'[q] = IF q = p THEN 0 ELSE total[q]
           /\ \A q \in Procs, u \in Users :
                  active'[q][u] = IF q = p THEN 0 ELSE active[q][u]
BY DEF TypeOK, Restart

LEMMA FiniteHolders ==
    ASSUME NEW p, NEW u
    PROVE  /\ IsFiniteSet(Holders(p)) /\ IsFiniteSet(Holders(p)')
           /\ IsFiniteSet(UserHolders(p, u)) /\ IsFiniteSet(UserHolders(p, u)')
BY PoolAssumption, FS_Subset DEF Holders, UserHolders

\* What a step does to the slots of one process.
Same(p) ==
    /\ Holders(p)' = Holders(p) /\ total'[p] = total[p]
    /\ \A u \in Users : active'[p][u] = active[p][u]
Taken(p, r) ==
    /\ r \notin Holders(p) /\ Holders(p)' = Holders(p) \cup {r}
    /\ WithinCaps(p, Owner[r]) /\ total'[p] = total[p] + 1
    /\ \A u \in Users :
           active'[p][u] = IF u = Owner[r] THEN active[p][u] + 1 ELSE active[p][u]
GivenBack(p, r) ==
    /\ r \in Holders(p) /\ Holders(p)' = Holders(p) \ {r}
    /\ total'[p] = total[p] - 1
    /\ \A u \in Users :
           active'[p][u] = IF u = Owner[r] THEN active[p][u] - 1 ELSE active[p][u]
Emptied(p) ==
    /\ Holders(p)' = {} /\ total'[p] = 0
    /\ \A u \in Users : active'[p][u] = 0

LEMMA SlotStep ==
    ASSUME TypeOK, SlotsCounted, [Next]_vars, NEW p \in Procs
    PROVE  Same(p) \/ Emptied(p) \/ \E r \in Runs : Taken(p, r) \/ GivenBack(p, r)
<1>1. CASE Quiet
  BY <1>1 DEF Quiet, Same, Holders
<1>2. ASSUME NEW r \in Runs, Admits(r) PROVE Same(p) \/ Taken(p, r)
  <2>1. at' = [at EXCEPT ![r] = "admitted"] /\ at[r] \notin Holding
    BY <1>2, AdmitCounts DEF Holding
  <2>2. Holders(p)' = (IF p = Home[r] THEN Holders(p) \cup {r} ELSE Holders(p))
        /\ r \notin Holders(p)
    BY <2>1 DEF Holders, Holding, TypeOK
  <2> QED BY <1>2, <2>2, AdmitCounts DEF Same, Taken, Admits
<1>3. ASSUME NEW r \in Runs, Release(r) PROVE Same(p) \/ GivenBack(p, r)
  <2>1. at[r] = "closing"
        /\ at' = [q \in Runs |-> IF q = r THEN "closed"
                                 ELSE IF Notified(r, q) THEN "woken" ELSE at[q]]
    BY <1>3, ReleaseCounts
  <2>2. Holders(p)' = (IF p = Home[r] THEN Holders(p) \ {r} ELSE Holders(p))
        /\ (p = Home[r] => r \in Holders(p))
    BY <2>1 DEF Holders, Holding, Notified, TypeOK
  <2> QED BY <1>3, <2>2, ReleaseCounts DEF Same, GivenBack
<1>4. ASSUME NEW q \in Procs, Restart(q) PROVE Same(p) \/ Emptied(p)
  <2>1. at' = [r \in Runs |-> IF Home[r] = q /\ at[r] # "none" THEN "done" ELSE at[r]]
    BY <1>4, RestartCounts
  <2>2. Holders(p)' = (IF p = q THEN {} ELSE Holders(p))
    BY <2>1 DEF Holders, Holding, TypeOK
  <2> QED BY <1>4, <2>2, RestartCounts DEF Same, Emptied
<1> QED BY <1>1, <1>2, <1>3, <1>4, StepKinds

LEMMA CountStep == TypeOK /\ SlotsCounted /\ [Next]_vars => SlotsCounted'
<1> SUFFICES ASSUME TypeOK, SlotsCounted, [Next]_vars, NEW p \in Procs
             PROVE  LoopsCounted(p)' /\ \A u \in Users : UserCounted(p, u)'
  BY DEF SlotsCounted
<1>1. LoopsCounted(p)'
  <2>1. \A r : r \notin Holders(p)
               => Cardinality(Holders(p) \cup {r}) = Cardinality(Holders(p)) + 1
    BY FiniteHolders, FS_AddElement
  <2>2. \A r \in Holders(p) : Cardinality(Holders(p) \ {r}) = Cardinality(Holders(p)) - 1
    BY FiniteHolders, FS_RemoveElement
  <2>3. total[p] = Cardinality(Holders(p))
    BY DEF SlotsCounted, LoopsCounted
  <2>4. CASE Same(p) \/ Emptied(p)
    BY <2>3, <2>4, FS_EmptySet DEF LoopsCounted, Same, Emptied
  <2>5. ASSUME NEW r \in Runs, Taken(p, r) PROVE LoopsCounted(p)'
    BY <2>1, <2>3, <2>5 DEF LoopsCounted, Taken
  <2>6. ASSUME NEW r \in Runs, GivenBack(p, r) PROVE LoopsCounted(p)'
    BY <2>2, <2>3, <2>6 DEF LoopsCounted, GivenBack
  <2> QED BY <2>4, <2>5, <2>6, SlotStep
<1>2. ASSUME NEW u \in Users PROVE UserCounted(p, u)'
  <2>0. active[p][u] = Cardinality(UserHolders(p, u))
    BY DEF SlotsCounted, UserCounted
  <2>1. CASE Same(p)
    BY <2>0, <2>1 DEF Same, UserCounted, UserHolders
  <2>2. CASE Emptied(p)
    <3>1. UserHolders(p, u)' = {}
      BY <2>2 DEF Emptied, UserHolders
    <3> QED BY <2>2, <3>1, FS_EmptySet DEF Emptied, UserCounted
  <2>3. ASSUME NEW r \in Runs, Taken(p, r) PROVE UserCounted(p, u)'
    <3>1. UserHolders(p, u)' = (IF u = Owner[r] THEN UserHolders(p, u) \cup {r}
                                ELSE UserHolders(p, u))
          /\ r \notin UserHolders(p, u)
      BY <2>3 DEF Taken, UserHolders
    <3>2. Cardinality(UserHolders(p, u) \cup {r}) = Cardinality(UserHolders(p, u)) + 1
      BY <3>1, FiniteHolders, FS_AddElement
    <3> QED BY <2>0, <2>3, <3>1, <3>2 DEF Taken, UserCounted
  <2>4. ASSUME NEW r \in Runs, GivenBack(p, r) PROVE UserCounted(p, u)'
    <3>1. UserHolders(p, u)' = (IF u = Owner[r] THEN UserHolders(p, u) \ {r}
                                ELSE UserHolders(p, u))
          /\ (u = Owner[r] => r \in UserHolders(p, u))
      BY <2>4 DEF GivenBack, UserHolders
    <3>2. u = Owner[r]
          => Cardinality(UserHolders(p, u) \ {r}) = Cardinality(UserHolders(p, u)) - 1
      BY <3>1, FiniteHolders, FS_RemoveElement
    <3> QED BY <2>0, <2>4, <3>1, <3>2 DEF GivenBack, UserCounted
  <2> QED BY <2>1, <2>2, <2>3, <2>4, SlotStep
<1> QED BY <1>1, <1>2

LEMMA FiniteActive == ASSUME NEW p PROVE IsFiniteSet(ActiveUsers(p)) /\ IsFiniteSet(ActiveUsers(p)')
BY PoolAssumption, FS_Subset DEF ActiveUsers

\* Only what WithinCaps lets in adds to a counter.
LEMMA CapStep ==
    TypeOK /\ SlotsCounted /\ CountersCapped /\ [Next]_vars => CountersCapped'
<1> SUFFICES ASSUME TypeOK, SlotsCounted, CountersCapped, [Next]_vars, NEW p \in Procs
             PROVE  /\ MaxLoops = 0 \/ total'[p] <= MaxLoops
                    /\ \A u \in Users : MaxLoopsPerUser = 0 \/ active'[p][u] <= MaxLoopsPerUser
                    /\ MaxUsers = 0 \/ Cardinality(ActiveUsers(p)') <= MaxUsers
  BY DEF CountersCapped
<1>0. /\ MaxLoops = 0 \/ total[p] <= MaxLoops
      /\ \A u \in Users : MaxLoopsPerUser = 0 \/ active[p][u] <= MaxLoopsPerUser
      /\ MaxUsers = 0 \/ Cardinality(ActiveUsers(p)) <= MaxUsers
  BY DEF CountersCapped
<1>1. MaxLoops \in Nat /\ MaxLoopsPerUser \in Nat /\ MaxUsers \in Nat /\ Owner \in [Runs -> Users]
      /\ total[p] \in Nat /\ active[p] \in [Users -> Nat]
      /\ Cardinality(ActiveUsers(p)) \in Nat /\ Cardinality(ActiveUsers(p)') \in Nat
  BY PoolAssumption, FiniteActive, FS_CardinalityType DEF TypeOK
<1>2. CASE Same(p) \/ Emptied(p) \/ \E r \in Runs : GivenBack(p, r)
  <2>1. ActiveUsers(p)' \subseteq ActiveUsers(p)
    BY <1>1, <1>2 DEF Same, Emptied, GivenBack, ActiveUsers
  <2>2. Cardinality(ActiveUsers(p)') <= Cardinality(ActiveUsers(p))
    BY <2>1, FiniteActive, FS_Subset
  <2>3. total'[p] <= total[p] /\ \A u \in Users : active'[p][u] <= active[p][u]
    BY <1>1, <1>2 DEF Same, Emptied, GivenBack
  <2>4. \A u \in Users : active'[p][u] \in Int /\ total'[p] \in Int
    BY <1>1, <1>2 DEF Same, Emptied, GivenBack
  <2>5. total'[p] \in Int
    BY <1>1, <1>2 DEF Same, Emptied, GivenBack
  <2> QED BY <1>0, <1>1, <2>2, <2>3, <2>4, <2>5
<1>3. ASSUME NEW r \in Runs, Taken(p, r)
      PROVE  /\ MaxLoops = 0 \/ total'[p] <= MaxLoops
             /\ \A u \in Users : MaxLoopsPerUser = 0 \/ active'[p][u] <= MaxLoopsPerUser
             /\ MaxUsers = 0 \/ Cardinality(ActiveUsers(p)') <= MaxUsers
  <2>1. ActiveUsers(p)' = ActiveUsers(p) \cup {Owner[r]}
    BY <1>1, <1>3 DEF Taken, ActiveUsers
  <2>2. Cardinality(ActiveUsers(p)') = IF active[p][Owner[r]] > 0
                                       THEN Cardinality(ActiveUsers(p))
                                       ELSE Cardinality(ActiveUsers(p)) + 1
    <3>1. Owner[r] \in ActiveUsers(p) <=> active[p][Owner[r]] > 0
      BY <1>1 DEF ActiveUsers
    <3>2. Cardinality(ActiveUsers(p) \cup {Owner[r]})
          = IF Owner[r] \in ActiveUsers(p) THEN Cardinality(ActiveUsers(p))
            ELSE Cardinality(ActiveUsers(p)) + 1
      BY FiniteActive, FS_AddElement
    <3> QED BY <2>1, <3>1, <3>2
  <2> QED BY <1>0, <1>1, <1>3, <2>2 DEF Taken, WithinCaps
<1> QED BY <1>2, <1>3, SlotStep

\* Without a release of its process, what is refused stays refused.
LEMMA SleeperStep ==
    TypeOK /\ SlotsCounted /\ SleepersRefused /\ [Next]_vars => SleepersRefused'
<1> SUFFICES ASSUME TypeOK, SlotsCounted, SleepersRefused, [Next]_vars,
                    NEW q \in Runs, at'[q] = "asleep", q \notin memHeld'
             PROVE  ~WithinCaps(Home[q], Owner[q])'
  BY DEF SleepersRefused
<1> DEFINE p == Home[q]
           u == Owner[q]
<1>0. p \in Procs /\ u \in Users
  BY PoolAssumption
<1>1. CASE Quiet
  <2>1. ~WithinCaps(p, u)
    BY <1>1 DEF Quiet, SleepersRefused
  <2> QED BY <1>1, <2>1 DEF Quiet, WithinCaps, ActiveUsers
<1>2. ASSUME NEW r \in Runs, Admits(r) PROVE ~WithinCaps(p, u)'
  <2>1. at[q] = "asleep" /\ q \notin memHeld
    BY <1>2, AdmitCounts DEF TypeOK
  <2>2. ~WithinCaps(p, u) /\ WithinCaps(Home[r], Owner[r])
    BY <1>2, <2>1 DEF SleepersRefused, Admits
  <2>3. total'[p] >= total[p] /\ active'[p][u] = active[p][u]
        /\ total[p] \in Nat /\ total'[p] \in Nat /\ active[p][u] \in Nat
    <3>1. total[p] \in Nat /\ active[p][u] \in Nat
      BY <1>0 DEF TypeOK
    <3>2. ~(p = Home[r] /\ u = Owner[r])
      BY <2>2
    <3> QED BY <1>0, <1>2, <3>1, <3>2, AdmitCounts
  <2>4. ActiveUsers(p) \subseteq ActiveUsers(p)'
    <3>1. \A v \in Users : active[p][v] \in Nat
      BY <1>0 DEF TypeOK
    <3>2. \A v \in Users : active'[p][v] >= active[p][v] /\ active'[p][v] \in Nat
      BY <1>0, <1>2, <3>1, AdmitCounts
    <3> QED BY <3>1, <3>2 DEF ActiveUsers
  <2>5. Cardinality(ActiveUsers(p)) <= Cardinality(ActiveUsers(p)')
        /\ Cardinality(ActiveUsers(p)) \in Nat /\ Cardinality(ActiveUsers(p)') \in Nat
    BY <2>4, FiniteActive, FS_Subset, FS_CardinalityType
  <2> QED BY <2>2, <2>3, <2>5, PoolAssumption DEF WithinCaps
<1>3. ASSUME NEW r \in Runs, Release(r) PROVE ~WithinCaps(p, u)'
  <2>1. at[q] = "asleep" /\ q \notin memHeld /\ p # Home[r]
    BY <1>3, ReleaseCounts DEF Notified, TypeOK
  <2>2. total'[p] = total[p] /\ \A v \in Users : active'[p][v] = active[p][v]
    BY <1>0, <1>3, <2>1, ReleaseCounts
  <2>3. ActiveUsers(p)' = ActiveUsers(p)
    BY <2>2 DEF ActiveUsers
  <2> QED BY <1>0, <2>1, <2>2, <2>3 DEF WithinCaps, SleepersRefused
<1>4. ASSUME NEW r \in Procs, Restart(r) PROVE ~WithinCaps(p, u)'
  <2>1. at[q] = "asleep" /\ q \notin memHeld /\ p # r
    BY <1>4, RestartCounts DEF TypeOK
  <2>2. total'[p] = total[p] /\ \A v \in Users : active'[p][v] = active[p][v]
    BY <1>0, <1>4, <2>1, RestartCounts
  <2>3. ActiveUsers(p)' = ActiveUsers(p)
    BY <2>2 DEF ActiveUsers
  <2> QED BY <1>0, <2>1, <2>2, <2>3 DEF WithinCaps, SleepersRefused
<1> QED BY <1>1, <1>2, <1>3, <1>4, StepKinds

\* What takes the stamp of an idle user puts it in the claim, and what ends the claim for
\* it stops the container or restores the stamp.
LEMMA IdleStep == TypeOK /\ SlotsCounted /\ IdleRemembered /\ [Next]_vars => IdleRemembered'
<1> SUFFICES ASSUME TypeOK, SlotsCounted, IdleRemembered, [Next]_vars, NEW u \in owed'
             PROVE  /\ cont'[u] # "none" /\ active'[Backend][u] = 0
                    /\ stamp'[u] # "none" \/ u \in todo'
  BY DEF IdleRemembered
<1> DEFINE Kept == /\ cont'[u] # "none" /\ active'[Backend][u] = 0
                   /\ stamp'[u] # "none" \/ u \in todo'
           Owed == /\ cont[u] # "none" /\ active[Backend][u] = 0
                   /\ stamp[u] # "none" \/ u \in todo
<1>0. (u \in owed => Owed) /\ (u \in owed => u \in Users) /\ Backend \in Procs
      /\ Owner \in [Runs -> Users] /\ Home \in [Runs -> Procs]
      /\ stamp \in [Users -> {"none", "young", "due"}] /\ cont \in [Users -> {"none", "new", "old"}]
      /\ owed \subseteq Users
  BY PoolAssumption DEF TypeOK, IdleRemembered
<1>1. ASSUME NEW r \in Runs, Admits(r) PROVE Kept
  <2>1. /\ IF Home[r] = Backend
           THEN stamp' = [stamp EXCEPT ![Owner[r]] = "none"] /\ owed' = owed \ {Owner[r]}
           ELSE UNCHANGED <<stamp, owed>>
        /\ cont' = cont /\ todo' = todo
    BY <1>1, Zenon DEF Admits, Acquire, extVars
  <2>2. u \in owed /\ u \in Users /\ ~(Backend = Home[r] /\ u = Owner[r])
    BY <1>0, <2>1
  <2>3. active'[Backend][u] = active[Backend][u]
    BY <1>0, <1>1, <2>2, AdmitCounts
  <2> QED BY <1>0, <2>1, <2>2, <2>3
<1>2. ASSUME NEW r \in Runs, Acquire(r), ~Admits(r) PROVE Kept
  BY <1>0, <1>2 DEF Acquire, Admits, admVars, extVars
<1>3. ASSUME NEW r \in Runs, Release(r) PROVE Kept
  <2>1. active[Home[r]][Owner[r]] > 0
        /\ \A v \in Users : active'[Backend][v] = IF Backend = Home[r] /\ v = Owner[r]
                                                  THEN active[Backend][v] - 1
                                                  ELSE active[Backend][v]
    BY <1>0, <1>3, ReleaseCounts
  <2>2. cont' = cont /\ todo' = todo
    BY <1>3 DEF Release, extVars
  <2>3. CASE Home[r] = Backend /\ active[Home[r]][Owner[r]] = 1
    <3>1. stamp' = [stamp EXCEPT ![Owner[r]] = "young"]
          /\ owed' = IF cont[Owner[r]] = "none" THEN owed ELSE owed \cup {Owner[r]}
      BY <1>3, <2>1, <2>3, Zenon DEF Release
    <3>2. CASE u = Owner[r]
      <4>1. cont[u] # "none"
        BY <1>0, <3>1, <3>2
      <4> QED BY <1>0, <2>1, <2>2, <2>3, <3>1, <3>2, <4>1
    <3>3. CASE u # Owner[r]
      <4>1. u \in owed
        BY <3>1, <3>3
      <4> QED BY <1>0, <2>1, <2>2, <3>1, <3>3, <4>1
    <3> QED BY <3>2, <3>3
  <2>4. CASE ~(Home[r] = Backend /\ active[Home[r]][Owner[r]] = 1)
    <3>1. stamp' = stamp /\ owed' = owed
      BY <1>3, <2>1, <2>4, Zenon DEF Release
    <3>2. ~(Backend = Home[r] /\ u = Owner[r])
      BY <1>0, <2>1, <3>1
    <3> QED BY <1>0, <2>1, <2>2, <3>1, <3>2
  <2> QED BY <2>3, <2>4
<1>4. ASSUME NEW r \in Runs,
             Record(r) \/ Ask(r) \/ EnsureFails(r) \/ Connect(r) \/ LoopEnds(r) \/ Finalize(r)
             \/ GoesStale(r)
      PROVE  Kept
  BY <1>0, <1>4
  DEF Record, Ask, EnsureFails, Connect, LoopEnds, Finalize, GoesStale, admVars, passVars,
    extVars, hist
<1>5. ASSUME NEW r \in Runs, Ensure(r) PROVE Kept
  BY <1>0, <1>5 DEF Ensure, admVars, passVars, hist
<1>6. ASSUME NEW v \in Users, Ages(v) \/ Judge(v) PROVE Kept
  BY <1>0, <1>6 DEF Ages, Judge, runVars, passVars, admVars, extVars, hist
<1>7. CASE ClaimStarts
  BY <1>0, <1>7 DEF ClaimStarts, admVars, extVars, hist
<1>8. CASE ClaimEnds
  <2>1. todo = {}
    BY <1>8 DEF ClaimEnds, TypeOK
  <2> QED BY <1>0, <1>8, <2>1 DEF ClaimEnds, extVars, hist
<1>9. ASSUME NEW v \in Users, Recheck(v) PROVE Kept
  BY <1>0, <1>9 DEF Recheck, Restamped, extVars, TypeOK
<1>10. CASE Stop
  <2>1. cur \in Users
    BY <1>10 DEF Stop, TypeOK
  <2>2. CASE cont' = [cont EXCEPT ![cur] = "none"] /\ owed' = owed \ {cur}
    BY <1>0, <1>10, <2>1, <2>2 DEF Stop, Restamped, TypeOK
  <2>3. CASE stamp' = Restamped(cur) /\ UNCHANGED <<cont, owed>>
    BY <1>0, <1>10, <2>1, <2>3 DEF Stop, Restamped, TypeOK
  <2> QED BY <1>10, <2>2, <2>3 DEF Stop
<1>11. ASSUME NEW p \in Procs, Restart(p) PROVE Kept
  <2>1. CASE p = Backend
    BY <1>11, <2>1 DEF Restart
  <2>2. CASE p # Backend
    <3>1. UNCHANGED <<stamp, todo, owed, cont>>
      BY <1>11, <2>2 DEF Restart, passVars, extVars
    <3>2. active'[Backend][u] = active[Backend][u]
      BY <1>0, <1>11, <2>2, <3>1, RestartCounts
    <3> QED BY <1>0, <3>1, <3>2
  <2> QED BY <2>1, <2>2
<1>12. CASE Deploy
  BY <1>0, <1>12 DEF Deploy, admVars, passVars, hist
<1>13. CASE MemoryLow \/ MemoryBack \/ UNCHANGED vars
  BY <1>0, <1>13 DEF MemoryLow, MemoryBack, vars, admVars, passVars, extVars, hist
<1> QED BY <1>1, <1>2, <1>3, <1>4, <1>5, <1>6, <1>7, <1>8, <1>9, <1>10, <1>11, <1>12, <1>13
  DEF Next, RunStep, ReapStep

-----------------------------------------------------------------------------
(* The invariant and the theorems.                                           *)

PoolInv ==
    /\ TypeOK /\ OneReplacer /\ Unseen
    /\ SlotsCounted /\ CountersCapped /\ SleepersRefused /\ IdleRemembered

LEMMA InitInv == Init => PoolInv
<1> SUFFICES ASSUME Init PROVE PoolInv
  OBVIOUS
<1>1. TypeOK
  BY PoolAssumption DEF Init, TypeOK, Places
<1>2. OneReplacer /\ Unseen /\ SleepersRefused /\ IdleRemembered
  BY DEF Init, OneReplacer, Replacer, Unseen, SleepersRefused, IdleRemembered
<1>3. SlotsCounted
  <2>1. \A p \in Procs : Holders(p) = {} /\ \A u \in Users : UserHolders(p, u) = {}
    BY DEF Init, Holders, UserHolders, Holding
  <2> QED BY <2>1, FS_EmptySet DEF Init, SlotsCounted, LoopsCounted, UserCounted
<1>4. CountersCapped
  <2>1. \A p \in Procs : ActiveUsers(p) = {}
    BY DEF Init, ActiveUsers
  <2> QED BY <2>1, FS_EmptySet, PoolAssumption DEF Init, CountersCapped
<1> QED BY <1>1, <1>2, <1>3, <1>4 DEF PoolInv

\* Every reachable state satisfies the invariant.
THEOREM PoolInductive == Spec => []PoolInv
<1>1. Init => PoolInv
  BY InitInv
<1>2. PoolInv /\ [Next]_vars => PoolInv'
  BY TypeStep, ExclusiveStep, UnseenStep, CountStep, CapStep, SleeperStep, IdleStep
  DEF PoolInv
<1> QED BY <1>1, <1>2, PTL DEF Spec

\* The variables have their types, and a pass is not over before each user it claimed
\* has been seen to.
THEOREM PassesAreWhole == Spec => []TypeOK
<1>1. PoolInv => TypeOK
  BY DEF PoolInv
<1> QED BY <1>1, PoolInductive, PTL

\* Two recorded runs of a user never both hold the leave to replace its container.
THEOREM VerdictExcludes == Spec => []OneReplacer
<1>1. PoolInv => OneReplacer
  BY DEF PoolInv
<1> QED BY <1>1, PoolInductive, PTL

\* The users that hold slots are the ones the controller counts as active.
LEMMA HoldersAreActive ==
    ASSUME TypeOK, SlotsCounted, NEW p \in Procs
    PROVE  HolderUsers(p) = ActiveUsers(p)
<1>1. ASSUME NEW u \in Users PROVE u \in HolderUsers(p) <=> u \in ActiveUsers(p)
  <2>1. u \in HolderUsers(p) <=> UserHolders(p, u) # {}
    BY DEF HolderUsers, UserHolders
  <2>2. UserHolders(p, u) # {} <=> Cardinality(UserHolders(p, u)) # 0
    BY FiniteHolders, FS_EmptySet
  <2>3. active[p][u] \in Nat /\ active[p][u] = Cardinality(UserHolders(p, u))
    BY DEF TypeOK, SlotsCounted, UserCounted
  <2> QED BY <2>1, <2>2, <2>3 DEF ActiveUsers
<1>2. HolderUsers(p) \subseteq Users /\ ActiveUsers(p) \subseteq Users
  BY PoolAssumption DEF HolderUsers, Holders, ActiveUsers
<1> QED BY <1>1, <1>2

\* The runs that hold slots stay within the caps of their process.
THEOREM SlotsWithinCaps == Spec => []CapsKept
<1>1. PoolInv => CapsKept
  <2> SUFFICES ASSUME PoolInv, NEW p \in Procs
               PROVE  /\ MaxLoops = 0 \/ Cardinality(Holders(p)) <= MaxLoops
                      /\ MaxLoopsPerUser = 0
                          \/ \A u \in Users : Cardinality(UserHolders(p, u)) <= MaxLoopsPerUser
                      /\ MaxUsers = 0 \/ Cardinality(HolderUsers(p)) <= MaxUsers
    BY DEF CapsKept
  <2>1. HolderUsers(p) = ActiveUsers(p)
    BY HoldersAreActive DEF PoolInv
  <2>2. total[p] = Cardinality(Holders(p))
        /\ \A u \in Users : active[p][u] = Cardinality(UserHolders(p, u))
    BY DEF PoolInv, SlotsCounted, LoopsCounted, UserCounted
  <2> QED BY <2>1, <2>2 DEF PoolInv, CountersCapped
<1> QED BY <1>1, PoolInductive, PTL

\* A run that sleeps for want of a slot sleeps for a reason, and there is a run whose
\* release wakes it.
THEOREM SleepersAreWoken == Spec => []NoLostWakeup
<1>1. PoolInv => NoLostWakeup
  <2> SUFFICES ASSUME PoolInv, NEW r \in Runs, at[r] = "asleep", r \notin memHeld
               PROVE  ~WithinCaps(Home[r], Owner[r]) /\ Holders(Home[r]) # {}
    BY DEF NoLostWakeup
  <2> DEFINE p == Home[r]
             u == Owner[r]
  <2>1. ~WithinCaps(p, u)
    BY DEF PoolInv, SleepersRefused
  <2>2. p \in Procs /\ u \in Users /\ MaxUsers \in Nat
        /\ MaxLoops \in Nat /\ MaxLoopsPerUser \in Nat
    BY PoolAssumption
  <2>3. ASSUME Holders(p) = {} PROVE FALSE
    <3>1. total[p] = 0 /\ \A v \in Users : active[p][v] = 0
      <4>1. \A v \in Users : UserHolders(p, v) = {}
        BY <2>3 DEF UserHolders
      <4> QED BY <2>2, <2>3, <4>1, FS_EmptySet
          DEF PoolInv, SlotsCounted, LoopsCounted, UserCounted
    <3>2. ActiveUsers(p) = {}
      BY <3>1 DEF ActiveUsers
    <3>3. Cardinality(ActiveUsers(p)) = 0
      BY <3>2, FS_EmptySet
    <3> QED BY <2>1, <2>2, <3>1, <3>3 DEF WithinCaps
  <2> QED BY <2>1, <2>3
<1> QED BY <1>1, PoolInductive, PTL

\* The reaper never forgets an idle container.
THEOREM IdleContainersRemembered == Spec => []IdleRemembered
<1>1. PoolInv => IdleRemembered
  BY DEF PoolInv
<1> QED BY <1>1, PoolInductive, PTL

\* The reaper takes a container from a run only if the events table could not show it
\* when it was last asked.
THEOREM SeenIsSafe == Spec => CutOnlyUnseen
<1> DEFINE Cut(r) ==
        at[r] \in {"ensured", "looping"} /\ cont[Owner[r]] # "none" /\ cont'[Owner[r]] = "none"
            => r \in late \/ row[r] # "live"
<1>1. PoolInv /\ [Next]_vars => [\A r \in Runs : Cut(r)]_vars
  <2> SUFFICES ASSUME PoolInv, Next, NEW r \in Runs, cont[Owner[r]] # "none",
                      cont'[Owner[r]] = "none", row[r] = "live"
               PROVE r \in late
    BY DEF vars
  <2>1. TypeOK /\ Unseen /\ Owner[r] \in Users
    BY PoolAssumption DEF PoolInv
  <2>2. Stop
    <3>1. cont' # cont
      BY <2>1
    <3>2. ~Deploy
      BY <2>1 DEF Deploy, TypeOK
    <3>3. \A q \in Runs : ~Ensure(q)
      BY <2>1 DEF Ensure, TypeOK
    <3> QED BY <3>1, <3>2, <3>3
    DEF Next, RunStep, ReapStep, Acquire, Release, Record, Ask, EnsureFails, Connect,
      LoopEnds, Finalize, GoesStale, Ages, ClaimStarts, Judge, ClaimEnds, Recheck, Restart,
      MemoryLow, MemoryBack, extVars
  <2>3. cur = Owner[r]
    BY <2>1, <2>2 DEF Stop, TypeOK
  <2> QED BY <2>1, <2>2, <2>3 DEF Stop, Unseen, LiveRuns
<1> QED BY <1>1, PoolInductive, PTL DEF Spec, CutOnlyUnseen
=============================================================================
