------------------------- MODULE CircuitBreakerProofs -------------------------
(***************************************************************************)
(* What holds of the circuit breaker for any number of turns, any          *)
(* categories and any threshold.  The invariant is about the rows that     *)
(* turns have read as much as about the row itself: a verdict is computed  *)
(* from the former and lands on the latter.                                *)
(***************************************************************************)
EXTENDS CircuitBreaker, TLAPS

\* A row some turn may act on.
Sound(r) == r \in Rows /\ ClaimNamed(r) /\ Earned(r)

\* What a turn in mid-claim or mid-report knows of the row it has read.
Informed(t) ==
    /\ pc[t] = "reclaim" => read[t].status = "probing"
    /\ pc[t] \in {"ended", "reporting", "writing"} => outcome[t] # "none"
    /\ pc[t] = "writing" /\ outcome[t] \in {"cancelled", "exempt"} => Holds(read[t], t)
    /\ pc[t] = "writing" /\ Holds(row, t) => Holds(read[t], t)

IInv ==
    /\ TypeOK
    /\ Sound(row)
    /\ \A t \in Turns : Sound(read[t])
    /\ \A t \in Turns : Informed(t)

-----------------------------------------------------------------------------
(* What the program writes to the row is sound.                             *)

LEMMA CleanSound == Sound(Clean)
BY BreakerAssumption, SMT DEF Sound, Clean, Row, Rows, Statuses, ClaimNamed, Earned

LEMMA ClaimedSound ==
    ASSUME NEW r, NEW t \in Turns, Sound(r), r.status \in {"paused", "probing"}
    PROVE  Sound(Claimed(r, t))
BY BreakerAssumption, SMT DEF Sound, Claimed, Row, Rows, Statuses, ClaimNamed, Earned

LEMMA RearmedSound ==
    ASSUME NEW r, Sound(r), r.status = "probing"
    PROVE  Sound(Rearmed(r))
BY BreakerAssumption, SMT DEF Sound, Rearmed, Row, Rows, Statuses, ClaimNamed, Earned

LEMMA FailedSound ==
    ASSUME NEW c \in Categories, NEW n \in Nat
    PROVE  Sound(Failed(c, n))
BY BreakerAssumption, SMT DEF Sound, Failed, Row, Rows, Statuses, ClaimNamed, Earned

LEMMA BoundSound ==
    ASSUME NEW r, NEW t \in Turns, Sound(r), r.status = "probing", r.token = t
    PROVE  Sound([r EXCEPT !.run = t])
BY BreakerAssumption, SMT DEF Sound, Rows, Statuses, ClaimNamed, Earned

LEMMA DueSound ==
    ASSUME NEW r, Sound(r)
    PROVE  Sound([r EXCEPT !.wait = "over"])
<1>1. [r EXCEPT !.wait = "over"] =
        [status |-> r.status, count |-> r.count, cat |-> r.cat,
         token |-> r.token, run |-> r.run, wait |-> "over"]
  BY SMT DEF Sound, Rows
<1> QED BY <1>1, SMT DEF Sound, Rows, Statuses, ClaimNamed, Earned

\* What a report writes over the row as it is then.
LEMMA VerdictSound ==
    ASSUME IInv, NEW t \in Turns, pc[t] = "writing",
           Holds(read[t], t) => Holds(row, t)
    PROVE  Sound(Verdict(t))
<1> DEFINE r == read[t]
           o == outcome[t]
<1>1. /\ o \in Outcomes
      /\ r \in Rows
      /\ Holds(r, t) => row.status = "probing"
      /\ o \in {"cancelled", "exempt"} => Holds(r, t)
  BY DEF IInv, TypeOK, Sound, Informed, Holds
<1>2. CASE o = "ok"
  BY <1>2, CleanSound, Zenon DEF Verdict, NoVerdict
<1>3. CASE o # "ok" /\ Holds(r, t) /\ NoVerdict(o)
  BY <1>1, <1>3, RearmedSound, Zenon DEF Verdict, IInv
<1>4. CASE o # "ok" /\ Holds(r, t) /\ ~NoVerdict(o)
  <2> DEFINE c == IF r.cat \in Pausing THEN r.cat ELSE o
  <2>1. c \in Categories /\ r.count + 1 \in Nat
    BY <1>1, <1>4, BreakerAssumption, SMT DEF NoVerdict, Rows
  <2>2. Verdict(t) = Failed(c, r.count + 1)
    BY <1>4, Zenon DEF Verdict
  <2> QED BY <2>1, <2>2, FailedSound
<1>5. CASE o # "ok" /\ ~Holds(r, t)
  <2> DEFINE n == IF r.cat = o THEN r.count + 1 ELSE 1
  <2>1. o \in Categories /\ n \in Nat
    BY <1>1, <1>5, SMT DEF Outcomes, Rows
  <2>2. Verdict(t) = Failed(o, n)
    BY <1>5, Zenon DEF Verdict
  <2> QED BY <2>1, <2>2, FailedSound
<1> QED BY <1>2, <1>3, <1>4, <1>5, Zenon

-----------------------------------------------------------------------------
(* Induction.                                                               *)

LEMMA InitInv == Init => IInv
<1> SUFFICES ASSUME Init PROVE IInv
  OBVIOUS
<1>1. TypeOK
  BY CleanSound, BreakerAssumption, SMT DEF Init, TypeOK, Sound, PCs, Outcomes
<1> QED BY <1>1, CleanSound, SMT DEF Init, IInv, Informed

\* A turn keeps what it knows while others step: nobody hands it a claim.
LEMMA OthersInformed ==
    ASSUME IInv, NEW u \in Turns,
           pc'[u] = pc[u], read'[u] = read[u], outcome'[u] = outcome[u],
           u \in claims <=> u \in claims',
           row'.status = "probing" /\ row'.token = u => Holds(row, u) \/ u \notin claims
    PROVE  Informed(u)'
BY SMT DEF IInv, Informed, Holds

\* A turn that leaves has nothing to know.
LEMMA LeaveInv ==
    ASSUME IInv, NEW t \in Turns, Leave(t), Sound(row'),
           UNCHANGED <<outcome, recorded, sweepVars, crashes, resets>>,
           claims' \subseteq Turns, faults' \in Nat,
           \A u \in Turns \ {t} :
               /\ u \in claims <=> u \in claims'
               /\ row'.status = "probing" /\ row'.token = u => Holds(row, u) \/ u \notin claims
    PROVE  IInv'
<1>1. TypeOK'
  BY CleanSound, SMT DEF IInv, TypeOK, Leave, Goto, PCs, sweepVars, Sound
<1>2. \A u \in Turns : Sound(read'[u])
  BY CleanSound, SMT DEF IInv, TypeOK, Leave
<1>3. Informed(t)'
  BY SMT DEF IInv, TypeOK, Leave, Goto, Informed
<1>4. \A u \in Turns \ {t} : Informed(u)'
  BY OthersInformed, SMT DEF IInv, TypeOK, Leave, Goto
<1> QED BY <1>1, <1>2, <1>3, <1>4, Zenon DEF IInv, Sound, Rows, ClaimNamed, Earned, Statuses

\* The compare-and-swap of a claim, from what the turn has read.
LEMMA ClaimInv ==
    ASSUME IInv, NEW t \in Turns, ClaimProbe(t), pc[t] \in {"gated", "reclaim"},
           read[t].status \in {"paused", "probing"},
           UNCHANGED <<outcome, recorded, sweepVars, boundVars>>
    PROVE  IInv'
<1>1. CASE row.status = read[t].status /\ row.token = read[t].token
  <2>1. /\ row' = Claimed(row, t)
        /\ claims' = claims \cup {t}
        /\ pc' = [pc EXCEPT ![t] = "admitted"]
        /\ read' = [read EXCEPT ![t] = Clean]
    BY <1>1 DEF ClaimProbe, Goto
  <2>2. Sound(row')
    BY <1>1, <2>1, ClaimedSound, SMT DEF IInv
  <2>3. TypeOK'
    BY <2>1, <2>2, CleanSound, SMT DEF IInv, TypeOK, PCs, sweepVars, boundVars, Sound
  <2>4. \A u \in Turns : Sound(read'[u])
    BY <2>1, CleanSound, SMT DEF IInv, TypeOK
  <2>5. Informed(t)'
    BY <2>1, SMT DEF IInv, TypeOK, Informed
  <2>6. \A u \in Turns \ {t} : Informed(u)'
    BY <2>1, OthersInformed, SMT DEF IInv, TypeOK, Claimed, Row
  <2> QED BY <2>2, <2>3, <2>4, <2>5, <2>6, Zenon DEF IInv, Sound, Rows, ClaimNamed, Earned, Statuses
<1>2. CASE ~(row.status = read[t].status /\ row.token = read[t].token)
  <2>1. Leave(t) /\ UNCHANGED <<row, claims>>
    BY <1>2 DEF ClaimProbe
  <2> QED BY <2>1, LeaveInv, SMT DEF IInv, TypeOK, Holds, boundVars
<1> QED BY <1>1, <1>2

\* A step that leaves the row and every claim alone, and in which only turn t moves.
LEMMA QuietInv ==
    ASSUME IInv, NEW t \in Turns, NEW p \in PCs,
           UNCHANGED <<row, claims, sweepVars>>, Goto(t, p), TypeOK',
           Sound(read'[t]),
           \A u \in Turns \ {t} : read'[u] = read[u],
           \A u \in Turns \ {t} : outcome'[u] = outcome[u],
           Informed(t)'
    PROVE  IInv'
<1>1. \A u \in Turns : Sound(read'[u])
  BY SMT DEF IInv
<1>2. \A u \in Turns \ {t} : Informed(u)'
  BY OthersInformed, SMT DEF IInv, TypeOK, Goto, Holds
<1> QED BY <1>1, <1>2, Zenon DEF IInv, Sound, Rows, ClaimNamed, Earned, Statuses

\* A write to the row by the sweep, the owner or the clock, which bind nothing.
LEMMA RowInv ==
    ASSUME IInv, Sound(row'), UNCHANGED <<pc, read, claims, outcome, recorded>>,
           TypeOK',
           row'.status = "probing" => row.status = "probing" /\ row'.token = row.token
    PROVE  IInv'
<1>1. \A u \in Turns : Informed(u)'
  BY OthersInformed, SMT DEF IInv, Holds
<1> QED BY <1>1, Zenon DEF IInv, Sound, Rows, ClaimNamed, Earned, Statuses

\* Every step keeps the invariant.
LEMMA StepInv == IInv /\ [Next]_vars => IInv'
<1> SUFFICES ASSUME IInv, [Next]_vars PROVE IInv'
  OBVIOUS
<1> USE DEF sweepVars, boundVars
<1>1. ASSUME NEW t \in Turns, StartUngated(t) PROVE IInv'
  <2>1. TypeOK'
    BY <1>1, SMT DEF StartUngated, IInv, TypeOK, Goto, PCs
  <2>2. Informed(t)'
    BY <1>1, SMT DEF StartUngated, IInv, TypeOK, Goto, Informed
  <2> QED BY <1>1, <2>1, <2>2, QuietInv, SMT DEF StartUngated, IInv, PCs
<1>2. ASSUME NEW t \in Turns, Gate(t) PROVE IInv'
  <2>1. TypeOK'
    BY <1>2, SMT DEF Gate, IInv, TypeOK, Goto, PCs
  <2>2. Informed(t)'
    BY <1>2, SMT DEF Gate, IInv, TypeOK, Goto, Informed
  <2>3. Sound(read'[t]) /\ \A u \in Turns \ {t} : read'[u] = read[u]
    BY <1>2, SMT DEF Gate, IInv, TypeOK
  <2> QED BY <1>2, <2>1, <2>2, <2>3, QuietInv, SMT DEF Gate, PCs
<1>3. ASSUME NEW t \in Turns, Abandon(t) PROVE IInv'
  BY <1>3, LeaveInv, SMT DEF Abandon, IInv, TypeOK, Holds
<1>4. ASSUME NEW t \in Turns, TryBeginProbe(t) PROVE IInv'
  <2>1. CASE /\ Goto(t, "admitted") /\ read' = [read EXCEPT ![t] = Clean]
             /\ UNCHANGED <<row, claims>>
    <3>1. TypeOK'
      BY <1>4, <2>1, CleanSound, SMT DEF TryBeginProbe, IInv, TypeOK, Goto, PCs, Sound
    <3>2. Informed(t)'
      BY <1>4, <2>1, SMT DEF TryBeginProbe, IInv, TypeOK, Goto, Informed
    <3>3. Sound(read'[t]) /\ \A u \in Turns \ {t} : read'[u] = read[u]
      BY <2>1, CleanSound, SMT DEF IInv, TypeOK
    <3> QED BY <1>4, <2>1, <3>1, <3>2, <3>3, QuietInv, SMT DEF TryBeginProbe, PCs
  <2>2. CASE read[t].status = "paused" /\ ClaimProbe(t)
    BY <1>4, <2>2, ClaimInv, SMT DEF TryBeginProbe
  <2>3. CASE Leave(t) /\ UNCHANGED <<row, claims>>
    BY <1>4, <2>3, LeaveInv, SMT DEF TryBeginProbe, IInv, TypeOK, Holds
  <2>4. CASE /\ read[t].status = "probing" /\ Goto(t, "reclaim")
             /\ UNCHANGED <<row, claims, read>>
    <3>1. TypeOK'
      BY <1>4, <2>4, SMT DEF TryBeginProbe, IInv, TypeOK, Goto, PCs
    <3>2. Informed(t)'
      BY <1>4, <2>4, SMT DEF TryBeginProbe, IInv, TypeOK, Goto, Informed
    <3> QED BY <1>4, <2>4, <3>1, <3>2, QuietInv, SMT DEF TryBeginProbe, IInv, PCs
  <2> QED BY <1>4, <2>1, <2>2, <2>3, <2>4, Zenon DEF TryBeginProbe
<1>5. ASSUME NEW t \in Turns, Reclaim(t) PROVE IInv'
  <2>1. read[t].status = "probing"
    BY <1>5 DEF Reclaim, IInv, Informed
  <2>2. CASE ClaimProbe(t) /\ UNCHANGED faults
    BY <1>5, <2>1, <2>2, ClaimInv, SMT DEF Reclaim
  <2>3. CASE faults' = faults + 1 /\ Leave(t) /\ UNCHANGED <<row, claims>>
    BY <1>5, <2>3, LeaveInv, SMT DEF Reclaim, IInv, TypeOK, Holds
  <2> QED BY <1>5, <2>2, <2>3, Zenon DEF Reclaim
<1>6. ASSUME NEW t \in Turns, StartRun(t) PROVE IInv'
  <2>1. TypeOK'
    BY <1>6, SMT DEF StartRun, IInv, TypeOK, Goto, PCs
  <2>2. Informed(t)'
    BY <1>6, SMT DEF StartRun, IInv, TypeOK, Goto, Informed
  <2> QED BY <1>6, <2>1, <2>2, QuietInv, SMT DEF StartRun, IInv, PCs
<1>7. ASSUME NEW t \in Turns, BindProbeRun(t) PROVE IInv'
  <2>1. CASE row' = [row EXCEPT !.run = t] /\ Holds(row, t) /\ UNCHANGED faults
    <3>1. Sound(row')
      BY <2>1, BoundSound DEF Holds, IInv
    <3>2. TypeOK'
      BY <1>7, <2>1, <3>1, SMT DEF BindProbeRun, IInv, TypeOK, Goto, PCs, Sound
    <3>3. \A u \in Turns : Sound(read'[u])
      BY <1>7, SMT DEF BindProbeRun, IInv
    <3>4. Informed(t)'
      BY <1>7, SMT DEF BindProbeRun, IInv, TypeOK, Goto, Informed
    <3>5. row'.status = row.status /\ row'.token = row.token
      BY <2>1, SMT DEF IInv, TypeOK, Rows
    <3>6. \A u \in Turns \ {t} : Informed(u)'
      BY <1>7, <3>5, OthersInformed, SMT DEF BindProbeRun, IInv, TypeOK, Goto, Holds
    <3> QED BY <3>1, <3>2, <3>3, <3>4, <3>6, Zenon DEF IInv, Sound, Rows, ClaimNamed, Earned, Statuses
  <2>2. CASE UNCHANGED row
    <3>1. TypeOK'
      BY <1>7, <2>2, SMT DEF BindProbeRun, IInv, TypeOK, Goto, PCs
    <3>2. Informed(t)'
      BY <1>7, <2>2, SMT DEF BindProbeRun, IInv, TypeOK, Goto, Informed
    <3> QED BY <1>7, <2>2, <3>1, <3>2, QuietInv, SMT DEF BindProbeRun, IInv, PCs
  <2> QED BY <1>7, <2>1, <2>2, Zenon DEF BindProbeRun
<1>8. ASSUME NEW t \in Turns, NEW o \in Outcomes, EndTurn(t, o) PROVE IInv'
  <2>1. TypeOK'
    BY <1>8, SMT DEF EndTurn, IInv, TypeOK, Goto, PCs
  <2>2. Informed(t)'
    BY <1>8, BreakerAssumption, SMT DEF EndTurn, IInv, TypeOK, Goto, Informed, Outcomes
  <2>3. \A u \in Turns \ {t} : outcome'[u] = outcome[u]
    BY <1>8, SMT DEF EndTurn, IInv, TypeOK
  <2> QED BY <1>8, <2>1, <2>2, <2>3, QuietInv, SMT DEF EndTurn, IInv, PCs
<1>9. ASSUME NEW t \in Turns, SettleProbe(t) PROVE IInv'
  <2>1. CASE Leave(t)
    BY <1>9, <2>1, LeaveInv, SMT DEF SettleProbe, IInv, TypeOK, Holds
  <2>2. CASE Goto(t, "reporting") /\ UNCHANGED read
    <3>1. TypeOK'
      BY <1>9, <2>2, SMT DEF SettleProbe, IInv, TypeOK, Goto, PCs
    <3>2. Informed(t)'
      BY <1>9, <2>2, SMT DEF SettleProbe, IInv, TypeOK, Goto, Informed
    <3> QED BY <1>9, <2>2, <3>1, <3>2, QuietInv, SMT DEF SettleProbe, IInv, PCs
  <2> QED BY <1>9, <2>1, <2>2, Zenon DEF SettleProbe
<1>10. ASSUME NEW t \in Turns, Report(t) PROVE IInv'
  <2>1. CASE LeftAlone(t, row) /\ Leave(t)
    BY <1>10, <2>1, LeaveInv, SMT DEF Report, IInv, TypeOK, Holds
  <2>2. CASE ~LeftAlone(t, row) /\ Goto(t, "writing") /\ read' = [read EXCEPT ![t] = row]
    <3>1. TypeOK'
      BY <1>10, <2>2, SMT DEF Report, IInv, TypeOK, Goto, PCs
    <3>2. Informed(t)'
      BY <1>10, <2>2, SMT DEF Report, IInv, TypeOK, Goto, Informed, LeftAlone, Holds
    <3>3. Sound(read'[t]) /\ \A u \in Turns \ {t} : read'[u] = read[u]
      BY <2>2, SMT DEF IInv, TypeOK
    <3> QED BY <1>10, <2>2, <3>1, <3>2, <3>3, QuietInv, SMT DEF Report, PCs
  <2> QED BY <1>10, <2>1, <2>2, Zenon DEF Report
<1>11. ASSUME NEW t \in Turns, Write(t) PROVE IInv'
  <2>1. CASE Holds(read[t], t) /\ ~Holds(row, t)
    BY <1>11, <2>1, LeaveInv, SMT DEF Write, IInv, TypeOK, Holds
  <2>2. CASE ~(Holds(read[t], t) /\ ~Holds(row, t))
    <3>1. row' = Verdict(t) /\ Sound(row')
      BY <1>11, <2>2, VerdictSound DEF Write
    <3>2. row'.status # "probing"
      BY <3>1 DEF Verdict, Clean, Rearmed, Failed, Row
    <3> QED BY <1>11, <3>1, <3>2, LeaveInv, SMT DEF Write, IInv, TypeOK
  <2> QED BY <2>1, <2>2
<1>12. ASSUME NEW t \in Turns, ReportFails(t) PROVE IInv'
  BY <1>12, LeaveInv, SMT DEF ReportFails, IInv, TypeOK, Holds
<1>13. ASSUME NEW t \in Turns, Crash(t) PROVE IInv'
  <2>1. TypeOK'
    BY <1>13, CleanSound, SMT DEF Crash, IInv, TypeOK, Goto, PCs, Sound
  <2>2. Informed(t)'
    BY <1>13, SMT DEF Crash, IInv, TypeOK, Goto, Informed
  <2>3. Sound(read'[t]) /\ \A u \in Turns \ {t} : read'[u] = read[u]
    BY <1>13, CleanSound, SMT DEF Crash, IInv, TypeOK
  <2> QED BY <1>13, <2>1, <2>2, <2>3, QuietInv, SMT DEF Crash, PCs
<1>14. ASSUME NEW t \in Turns, NextTurn(t) PROVE IInv'
  <2>1. TypeOK'
    BY <1>14, SMT DEF NextTurn, IInv, TypeOK, Goto, PCs
  <2>2. Informed(t)'
    BY <1>14, SMT DEF NextTurn, IInv, TypeOK, Goto, Informed
  <2>3. \A u \in Turns \ {t} : Informed(u)'
    BY <1>14, OthersInformed, SMT DEF NextTurn, IInv, TypeOK, Goto, Holds
  <2> QED BY <1>14, <2>1, <2>2, <2>3, Zenon
        DEF NextTurn, IInv, Sound, Rows, ClaimNamed, Earned, Statuses
<1>15. ASSUME TimerElapses PROVE IInv'
  <2>1. Sound(row')
    BY <1>15, DueSound DEF TimerElapses, IInv
  <2>2. TypeOK'
    BY <1>15, <2>1, SMT DEF TimerElapses, IInv, TypeOK, Sound
  <2>3. row'.status = row.status /\ row'.token = row.token
    BY <1>15, SMT DEF TimerElapses, IInv, TypeOK, Rows
  <2> QED BY <1>15, <2>1, <2>2, <2>3, RowInv DEF TimerElapses
<1>16. ASSUME Sweep PROVE IInv'
  <2>1. ASSUME NEW t \in Turns, SweepRun(t) PROVE IInv'
    <3>1. TypeOK'
      BY <2>1, SMT DEF SweepRun, IInv, TypeOK
    <3>2. \A u \in Turns : Informed(u)'
      BY <2>1, OthersInformed, SMT DEF SweepRun, IInv, Holds
    <3> QED BY <2>1, <3>1, <3>2, Zenon
          DEF SweepRun, IInv, Sound, Rows, ClaimNamed, Earned, Statuses
  <2>2. ASSUME SweepRead PROVE IInv'
    <3>1. TypeOK'
      BY <2>2, SMT DEF SweepRead, IInv, TypeOK, Rows
    <3> QED BY <2>2, <3>1, RowInv, SMT DEF SweepRead, IInv
  <2>3. ASSUME SweepRelease PROVE IInv'
    <3>1. Sound(row')
      BY <2>3, RearmedSound DEF SweepRelease, IInv
    <3>2. TypeOK'
      BY <2>3, <3>1, CleanSound, SMT DEF SweepRelease, IInv, TypeOK, Sound
    <3>3. row'.status = "probing" => row' = row
      BY <2>3, SMT DEF SweepRelease, Rearmed, Row
    <3> QED BY <2>3, <3>1, <3>2, <3>3, RowInv DEF SweepRelease
  <2> QED BY <1>16, <2>1, <2>2, <2>3 DEF Sweep
<1>17. ASSUME Reset PROVE IInv'
  <2>1. TypeOK'
    BY <1>17, CleanSound, SMT DEF Reset, IInv, TypeOK, Sound
  <2>2. row'.status # "probing"
    BY <1>17 DEF Reset, Clean, Row
  <2> QED BY <1>17, <2>1, <2>2, CleanSound, RowInv DEF Reset
<1>18. ASSUME UNCHANGED vars PROVE IInv'
  <2>1. TypeOK'
    BY <1>18, SMT DEF vars, IInv, TypeOK
  <2>2. Sound(row')
    BY <1>18 DEF vars, IInv
  <2> QED BY <1>18, <2>1, <2>2, RowInv DEF vars
<1> QED
  BY <1>1, <1>2, <1>3, <1>4, <1>5, <1>6, <1>7, <1>8, <1>9, <1>10, <1>11, <1>12,
     <1>13, <1>14, <1>15, <1>16, <1>17, <1>18, Zenon DEF Next, Enter, Run, Settle

-----------------------------------------------------------------------------
(* What ties a turn to the rows that name it, now or when they were read.    *)

\* Before a turn has a run.
Early == {"idle", "gated", "reclaim", "admitted"}

\* The run a row names has started.
Past(r) == r.run # NoTurn => pc[r.run] \notin Early
\* A claim without a live run.
Deserted(r) == r.run = NoTurn \/ ~Live(r.run)

Ties ==
    /\ \A t \in claims : pc[t] \notin {"idle", "gated", "reclaim"}
    /\ Past(row) /\ Past(orphan) /\ \A t \in Turns : Past(read[t])
    /\ \A t \in Turns : pc[t] = "reclaim" => Deserted(read[t])
    /\ ClaimNamed(orphan) /\ (sweep = "release" => Deserted(orphan))
    /\ \A t \in Turns : pc[t] = "writing" =>
         /\ read[t].status = "probing" => Holds(read[t], t)
         /\ Holds(row, t) => Rung(row) = Rung(read[t])

\* What a step does to the places of turns, to the runs that rows name, and to the rung.
Placed(v) ==
    /\ pc'[v] \in Early =>
         \/ pc[v] \in Early
         \/ pc'[v] = "idle" /\ v \notin claims' /\ Forgotten(v) /\ UNCHANGED <<row, read, orphan>>
    /\ pc'[v] \in {"idle", "gated", "reclaim"} =>
         pc[v] \in {"idle", "gated", "reclaim"} \/ v \notin claims'
    /\ v \in claims' => v \in claims \/ pc'[v] = "admitted"
    /\ v \in claims => v \in claims' \/ pc'[v] = "idle"
    /\ Live(v)' => Live(v) \/ pc[v] = "admitted"
Named(v) ==
    /\ read'[v] = read[v] \/ read'[v] = row \/ read'[v] = Clean
    /\ pc'[v] = "reclaim" /\ (pc[v] # "reclaim" \/ read'[v] # read[v]) =>
         read'[v] = read[v] /\ ~MayBeLive(read[v]) /\ UNCHANGED <<recorded, row>>
    /\ pc'[v] = "writing" =>
         \/ pc[v] = "writing" /\ read'[v] = read[v]
         \/ /\ read'[v] = row /\ row' = row /\ claims' = claims
            /\ row.status = "probing" => Holds(row, v)
Takes(t) ==
    /\ (pc[t] = "gated" /\ read[t].status = "paused") \/ pc[t] = "reclaim"
    /\ row.status = read[t].status /\ row.token = read[t].token
    /\ row' = Claimed(row, t) /\ pc'[t] = "admitted"
Binds(t) == Holds(row, t) /\ pc'[t] = "running" /\ row' = [row EXCEPT !.run = t]
Moved ==
    /\ \/ row' = row
       \/ TimerElapses \/ SweepRelease \/ Reset
       \/ \E t \in Turns : Takes(t) \/ Binds(t) \/ Write(t)
    /\ \/ orphan' = orphan /\ (sweep' = "release" => sweep = "release")
       \/ orphan' = Clean /\ sweep' = "idle"
       \/ orphan' = row /\ ~MayBeLive(row) /\ UNCHANGED <<pc, recorded>>

\* The footprint of every action.
LEMMA Footprint ==
    ASSUME IInv, [Next]_vars
    PROVE  Moved /\ \A v \in Turns : Placed(v) /\ Named(v)
<1> DEFINE Prints == Moved /\ \A v \in Turns : Placed(v) /\ Named(v)
<1> SUFFICES Prints
  OBVIOUS
<1> USE DEF sweepVars, boundVars, Leave, Goto, Placed, Named, Moved, Early, Live
<1>0. TypeOK
  BY DEF IInv
<1>1. ASSUME NEW t \in Turns, StartUngated(t) PROVE Prints
  BY <1>0, <1>1 DEF StartUngated, TypeOK
<1>2. ASSUME NEW t \in Turns, Gate(t) PROVE Prints
  BY <1>0, <1>2 DEF Gate, TypeOK
<1>3. ASSUME NEW t \in Turns, Abandon(t) PROVE Prints
  BY <1>0, <1>3 DEF Abandon, TypeOK
<1>4. ASSUME NEW t \in Turns, TryBeginProbe(t) PROVE Prints
  BY <1>0, <1>4 DEF TryBeginProbe, Takes, ClaimProbe, TypeOK
<1>5. ASSUME NEW t \in Turns, Reclaim(t) PROVE Prints
  BY <1>0, <1>5 DEF Reclaim, Takes, ClaimProbe, TypeOK
<1>6. ASSUME NEW t \in Turns, StartRun(t) PROVE Prints
  BY <1>0, <1>6 DEF StartRun, TypeOK
<1>7. ASSUME NEW t \in Turns, BindProbeRun(t) PROVE Prints
  BY <1>0, <1>7 DEF BindProbeRun, Binds, TypeOK
<1>8. ASSUME NEW t \in Turns, NEW o \in Outcomes, EndTurn(t, o) PROVE Prints
  BY <1>0, <1>8 DEF EndTurn, TypeOK
<1>9. ASSUME NEW t \in Turns, SettleProbe(t) PROVE Prints
  BY <1>0, <1>9 DEF SettleProbe, TypeOK
<1>10. ASSUME NEW t \in Turns, Report(t) PROVE Prints
  BY <1>0, <1>10 DEF Report, LeftAlone, TypeOK
<1>11. ASSUME NEW t \in Turns, Write(t) PROVE Prints
  BY <1>0, <1>11 DEF Write, TypeOK
<1>12. ASSUME NEW t \in Turns, ReportFails(t) PROVE Prints
  BY <1>0, <1>12 DEF ReportFails, TypeOK
<1>13. ASSUME NEW t \in Turns, Crash(t) PROVE Prints
  BY <1>0, <1>13 DEF Crash, TypeOK
<1>14. ASSUME NEW t \in Turns, NextTurn(t) PROVE Prints
  BY <1>0, <1>14 DEF NextTurn, TypeOK
<1>15. ASSUME NEW t \in Turns, SweepRun(t) PROVE Prints
  BY <1>0, <1>15 DEF SweepRun, TypeOK
<1>16. CASE TimerElapses
  BY <1>0, <1>16 DEF TimerElapses, TypeOK
<1>17. CASE SweepRead
  BY <1>0, <1>17 DEF SweepRead, TypeOK
<1>18. CASE SweepRelease
  BY <1>0, <1>18 DEF SweepRelease, TypeOK
<1>19. CASE Reset
  BY <1>0, <1>19 DEF Reset, TypeOK
<1>20. CASE UNCHANGED vars
  BY <1>0, <1>20 DEF vars, TypeOK
<1> QED
  BY <1>1, <1>2, <1>3, <1>4, <1>5, <1>6, <1>7, <1>8, <1>9, <1>10, <1>11, <1>12, <1>13,
     <1>14, <1>15, <1>16, <1>17, <1>18, <1>19, <1>20, Zenon
     DEF Next, Enter, Run, Settle, Sweep

\* A run that has started stays so while a row names it, and does not come back to life.
LEMMA RunStep ==
    ASSUME IInv, [Next]_vars, NEW u \in Turns, pc[u] \notin Early, ~Forgotten(u)
    PROVE  pc'[u] \notin Early /\ (Live(u)' => Live(u))
<1>1. Placed(u)
  BY Footprint
<1> QED BY <1>1 DEF Placed, Early

LEMMA InitTies == Init => Ties
BY BreakerAssumption DEF Init, Ties, Past, Clean, Row, ClaimNamed

\* Only the holder's binding changes the run a row names, but for erasing it.
LEMMA RunOfRow ==
    ASSUME IInv, Moved
    PROVE  row'.run \in {NoTurn, row.run} \/ \E t \in Turns : Binds(t)
<1>1. row \in Rows
  BY DEF IInv, TypeOK
<1>2. CASE TimerElapses
  BY <1>1, <1>2 DEF TimerElapses, Rows
<1>3. CASE SweepRelease
  BY <1>3 DEF SweepRelease, Rearmed, Row
<1>4. CASE Reset
  BY <1>4 DEF Reset, Clean, Row
<1>5. ASSUME NEW t \in Turns, Takes(t) PROVE row'.run = NoTurn
  BY <1>5 DEF Takes, Claimed, Row
<1>6. ASSUME NEW t \in Turns, Write(t) PROVE row'.run \in {NoTurn, row.run}
  BY <1>6 DEF Write, Verdict, Clean, Rearmed, Failed, Row
<1> QED BY <1>2, <1>3, <1>4, <1>5, <1>6 DEF Moved

\* Who may hold the row after a step: the turn that takes it, or the one that held it,
\* on the same rung.
LEMMA HolderOfRow ==
    ASSUME IInv, Moved, row'.status = "probing"
    PROVE  \/ \E t \in Turns : Takes(t)
           \/ row.status = "probing" /\ row'.token = row.token /\ Rung(row') = Rung(row)
<1>1. row \in Rows
  BY DEF IInv, TypeOK
<1>2. CASE TimerElapses
  BY <1>1, <1>2 DEF TimerElapses, Rows, Rung
<1>3. CASE SweepRelease
  BY <1>3 DEF SweepRelease, Rearmed, Row
<1>4. CASE Reset
  BY <1>4 DEF Reset, Clean, Row
<1>5. ASSUME NEW t \in Turns, Binds(t)
      PROVE  row.status = "probing" /\ row'.token = row.token /\ Rung(row') = Rung(row)
  BY <1>1, <1>5 DEF Binds, Holds, Rows, Rung
<1>6. ASSUME NEW t \in Turns, Write(t) PROVE row' = row
  BY <1>6 DEF Write, Verdict, Clean, Rearmed, Failed, Row
<1> QED BY <1>2, <1>3, <1>4, <1>5, <1>6 DEF Moved

LEMMA TiesStep ==
    ASSUME IInv, Ties, [Next]_vars
    PROVE  Ties'
<1>1. Moved /\ \A v \in Turns : Placed(v) /\ Named(v)
  BY Footprint
<1>2. TypeOK /\ TypeOK'
  BY StepInv DEF IInv
<1>3. ASSUME NEW t \in claims' PROVE pc'[t] \notin {"idle", "gated", "reclaim"}
  BY <1>1, <1>2, <1>3 DEF Ties, Placed, TypeOK
<1>4. Past(row)'
  <2>1. CASE row'.run \in {NoTurn, row.run}
    <3>1. CASE row'.run = NoTurn
      BY <3>1 DEF Past
    <3>2. CASE row'.run = row.run /\ row.run # NoTurn
      <4>1. row.run \in Turns /\ pc[row.run] \notin Early /\ ~Forgotten(row.run)
        BY <1>2, <3>2 DEF TypeOK, Rows, Ties, Past, Forgotten
      <4>2. pc'[row.run] \notin Early
        BY <4>1, RunStep
      <4> QED BY <3>2, <4>2 DEF Past, Early
    <3> QED BY <2>1, <3>1, <3>2
  <2>2. ASSUME NEW t \in Turns, Binds(t) PROVE Past(row)'
    BY <1>2, <2>2 DEF Binds, Past, Early, TypeOK, Rows
  <2> QED BY <1>1, <2>1, <2>2, RunOfRow
<1>5. Past(orphan)' /\ ClaimNamed(orphan)' /\ (sweep' = "release" => Deserted(orphan)')
  <2>1. CASE orphan' = orphan /\ (sweep' = "release" => sweep = "release")
    <3>1. CASE orphan.run = NoTurn
      BY <2>1, <3>1 DEF Ties, Past, Deserted, ClaimNamed
    <3>2. CASE orphan.run # NoTurn
      <4>1. orphan.run \in Turns /\ pc[orphan.run] \notin Early /\ ~Forgotten(orphan.run)
        BY <1>2, <3>2 DEF TypeOK, Rows, Ties, Past, Forgotten
      <4>2. \A u \in Turns : u = orphan.run => pc'[u] \notin Early /\ (Live(u)' => Live(u))
        BY <4>1, RunStep
      <4> QED BY <2>1, <4>1, <4>2 DEF Past, Early, Ties, Deserted, Live, ClaimNamed
    <3> QED BY <3>1, <3>2
  <2>2. CASE orphan' = Clean /\ sweep' = "idle"
    BY <2>2, BreakerAssumption DEF Past, ClaimNamed, Clean, Row
  <2>3. CASE orphan' = row /\ ~MayBeLive(row) /\ UNCHANGED <<pc, recorded>>
    BY <2>3 DEF Ties, Past, IInv, Sound, ClaimNamed, MayBeLive, Deserted, Live, Early
  <2> QED BY <1>1, <2>1, <2>2, <2>3 DEF Moved
<1>6. ASSUME NEW v \in Turns PROVE Past(read[v])'
  <2>1. CASE read'[v] = read[v] \/ read'[v] = row
    <3>1. CASE read'[v].run = NoTurn
      BY <3>1 DEF Past
    <3>2. CASE read'[v].run # NoTurn
      <4> DEFINE u == read'[v].run
      <4>1. u \in Turns /\ pc[u] \notin Early /\ ~Forgotten(u)
        BY <1>2, <2>1, <3>2 DEF TypeOK, Rows, Ties, Past, Forgotten
      <4>2. pc'[u] \notin Early
        BY <4>1, RunStep
      <4> QED BY <4>2 DEF Past, Early
    <3> QED BY <3>1, <3>2
  <2>2. CASE read'[v] = Clean
    BY <2>2 DEF Past, Clean, Row
  <2> QED BY <1>1, <2>1, <2>2 DEF Named
<1>7. ASSUME NEW v \in Turns, pc'[v] = "reclaim" PROVE Deserted(read[v])'
  <2>1. read'[v] = read[v] /\ Deserted(read[v])
    <3>1. CASE pc[v] = "reclaim" /\ read'[v] = read[v]
      BY <3>1 DEF Ties
    <3>2. CASE ~MayBeLive(read[v]) /\ read'[v] = read[v]
      BY <3>2 DEF MayBeLive, Deserted
    <3> QED BY <1>1, <1>7, <3>1, <3>2 DEF Named
  <2>2. CASE read[v].run = NoTurn
    BY <2>1, <2>2 DEF Deserted
  <2>3. CASE read[v].run # NoTurn
    <3>1. /\ read[v].run \in Turns /\ pc[read[v].run] \notin Early
          /\ ~Forgotten(read[v].run)
      BY <1>2, <2>3 DEF TypeOK, Rows, Ties, Past, Forgotten
    <3>2. ~Live(read[v].run)
      BY <2>1, <2>3 DEF Deserted
    <3>3. \A u \in Turns : u = read[v].run => ~Live(u)'
      BY <3>1, <3>2, RunStep
    <3> QED BY <2>1, <3>1, <3>3 DEF Deserted, Live
  <2> QED BY <2>2, <2>3
<1>8. ASSUME NEW v \in Turns, pc'[v] = "writing"
      PROVE  /\ read'[v].status = "probing" => Holds(read[v], v)'
             /\ Holds(row, v)' => Rung(row)' = Rung(read[v])'
  <2>1. CASE read'[v] = row /\ row' = row /\ claims' = claims
             /\ (row.status = "probing" => Holds(row, v))
    BY <2>1 DEF Holds, Rung
  <2>2. CASE pc[v] = "writing" /\ read'[v] = read[v]
    <3>1. v \in claims => v \in claims'
      BY <1>1, <1>8 DEF Placed
    <3>2. v \in claims' => v \in claims
      BY <1>1, <1>8 DEF Placed
    <3>3. Holds(row, v)' => Holds(row, v) /\ Rung(row)' = Rung(row)
      <4>1. ASSUME NEW t \in Turns, Takes(t) PROVE row'.token # v
        BY <1>8, <4>1 DEF Takes, Claimed, Row
      <4> QED BY <1>1, <3>2, <4>1, HolderOfRow DEF Holds, Rung
    <3> QED BY <2>2, <3>1, <3>3 DEF Ties, Holds, Rung
  <2> QED BY <1>1, <1>8, <2>1, <2>2 DEF Named
<1> QED BY <1>3, <1>4, <1>5, <1>6, <1>7, <1>8 DEF Ties

-----------------------------------------------------------------------------
(* Theorems.                                                                *)

\* The rows that turns act on are sound, whatever they have missed since.
THEOREM RowsSound == Spec => []IInv
BY InitInv, StepInv, PTL DEF Spec

\* Every variable of the breaker keeps its type.
THEOREM TypeCorrect == Spec => []TypeOK
BY RowsSound, PTL DEF IInv

\* A row names a claim exactly while it is probing, and no claim has another's run:
\* the writes of record_failure, record_success, the sweep and the owner all end
\* in _NO_CLAIM, and a claim starts unbound.
THEOREM ClaimsIdentified == Spec => []ClaimIdentity
<1>1. IInv => ClaimIdentity
  BY DEF IInv, Sound, ClaimIdentity
<1> QED BY <1>1, RowsSound, PTL

\* An agent is paused or on probation on a streak of a pausing category only,
\* although record_failure counts on the row it read and overwrites another.
THEOREM PausesEarned == Spec => []PauseIsEarned
<1>1. IInv => PauseIsEarned
  BY DEF IInv, Sound, PauseIsEarned
<1> QED BY <1>1, RowsSound, PTL

\* What a verdict does to the rung the row is on: the holder's counts on it, and only
\* once for each claim (record_failure, _rearm_pause_without_verdict).
LEMMA VerdictRung ==
    ASSUME IInv, Ties, NEW t \in Turns, Write(t), row' # row,
           row.status \in {"paused", "probing"}
    PROVE  \/ row' = Clean
           \/ row'.status = "paused" /\ Rung(row') = Rung(row)
           \/ /\ Holds(row, t) /\ ~NoVerdict(outcome[t])
              /\ row'.status = "paused" /\ Rung(row') = <<row.cat, row.count + 1>>
           \/ read[t].status # "probing" /\ outcome[t] \in Categories
<1> DEFINE r == read[t]
           o == outcome[t]
<1>1. /\ pc[t] = "writing" /\ row' = Verdict(t) /\ o \in Outcomes
      /\ Holds(r, t) => Holds(row, t) /\ Rung(row) = Rung(r)
      /\ r.status = "probing" => Holds(r, t)
      /\ o \in {"cancelled", "exempt"} => Holds(r, t)
  BY DEF Write, IInv, TypeOK, Informed, Ties
<1>2. CASE o = "ok"
  BY <1>1, <1>2, Zenon DEF Verdict, NoVerdict
<1>3. CASE o # "ok" /\ Holds(r, t) /\ NoVerdict(o)
  <2>1. Verdict(t) = Rearmed(row)
    BY <1>3, Zenon DEF Verdict
  <2> QED BY <1>1, <2>1 DEF Rearmed, Row, Rung
<1>4. CASE o # "ok" /\ Holds(r, t) /\ ~NoVerdict(o)
  <2>1. row.cat = r.cat /\ row.count = r.count /\ r.cat \in Pausing /\ row.status = "probing"
    BY <1>1, <1>4 DEF Rung, IInv, Sound, Earned, Holds
  <2>2. row.count \in Nat /\ row.count >= Threshold
    BY <2>1 DEF IInv, Sound, Earned, TypeOK, Rows
  <2>3. Verdict(t) = Failed(r.cat, r.count + 1)
    BY <1>4, <2>1, Zenon DEF Verdict
  <2>4. row'.status = "paused" /\ Rung(row') = <<row.cat, row.count + 1>>
    BY <1>1, <2>1, <2>2, <2>3, BreakerAssumption, SMT DEF Failed, Row, Rung
  <2> QED BY <1>1, <1>4, <2>4
<1>5. CASE o # "ok" /\ ~Holds(r, t)
  BY <1>1, <1>5 DEF Outcomes
<1> QED BY <1>2, <1>3, <1>4, <1>5

\* What ties turns to rows holds of every behaviour.
LEMMA Tied == Spec => [](IInv /\ Ties)
<1>1. Init => IInv /\ Ties
  BY InitInv, InitTies
<1>2. IInv /\ Ties /\ [Next]_vars => (IInv /\ Ties)'
  BY StepInv, TiesStep
<1> QED BY <1>1, <1>2, PTL DEF Spec

\* The half-open ladder, for any number of turns, categories and any threshold: the
\* verdict of a holder is computed from the row it read and lands on the row as it is,
\* and still climbs exactly one rung.
THEOREM LadderKept == Spec => Ladder
<1> DEFINE Climb ==
         row.status \in {"paused", "probing"} =>
           \/ row'.status \in {"paused", "probing"} /\ Rung(row') = Rung(row)
           \/ row' = Clean
           \/ \E t \in Turns :
                /\ Reports(t)
                /\ \/ /\ Holds(row, t) /\ ~NoVerdict(outcome[t])
                      /\ row'.status = "paused" /\ Rung(row') = <<row.cat, row.count + 1>>
                   \/ read[t].status # "probing" /\ outcome[t] \in Categories
<1>1. ASSUME IInv, Ties, [Next]_vars, row.status \in {"paused", "probing"} PROVE Climb
  <2>1. Moved /\ row \in Rows
    BY <1>1, Footprint DEF IInv, TypeOK
  <2>2. CASE row' = row
    BY <1>1, <2>2
  <2>3. CASE TimerElapses
    <3>1. row'.status = row.status /\ Rung(row') = Rung(row)
      BY <2>1, <2>3 DEF TimerElapses, Rows, Rung
    <3> QED BY <1>1, <3>1
  <2>4. CASE SweepRelease
    BY <1>1, <2>4 DEF SweepRelease, Rearmed, Row, Rung
  <2>5. CASE Reset
    BY <2>5 DEF Reset
  <2>6. ASSUME NEW t \in Turns, Takes(t) PROVE Climb
    BY <2>6 DEF Takes, Claimed, Row, Rung
  <2>7. ASSUME NEW t \in Turns, Binds(t) PROVE Climb
    <3>1. row'.status = row.status /\ Rung(row') = Rung(row)
      BY <2>1, <2>7 DEF Binds, Rows, Rung
    <3> QED BY <1>1, <3>1
  <2>8. ASSUME NEW t \in Turns, Write(t), row' # row PROVE Climb
    <3>1. Reports(t)
      BY <1>1, <2>8 DEF Write, Leave, Goto, Reports, IInv, TypeOK
    <3> QED BY <1>1, <2>8, <3>1, VerdictRung
  <2> QED BY <2>1, <2>2, <2>3, <2>4, <2>5, <2>6, <2>7, <2>8 DEF Moved
<1>2. IInv /\ Ties /\ [Next]_vars => [Climb]_vars
  BY <1>1
<1> QED BY <1>2, Tied, PTL DEF Spec, Ladder

\* A claim ends by its holder's report, by the owner, by somebody who had looked at it
\* when its holder had no live run, or by a report older than the claim; and a turn that
\* lost its claim does not get it back.
THEOREM ClaimsKept == Spec => ClaimKept
<1> DEFINE Ended(t) ==
         \/ Reports(t)
         \/ resets' # resets
         \/ \E r \in Looked : r.token = t /\ (r.run = NoTurn \/ ~Live(t))
         \/ \E u \in Turns : Reports(u) /\ read[u].token # t
<1>1. ASSUME IInv, Ties, [Next]_vars, NEW t \in claims, Holds(row, t), ~Holds(row', t)
      PROVE  Ended(t)
  <2>1. /\ Moved /\ TypeOK /\ row \in Rows /\ t \in Turns
        /\ row.status = "probing" /\ row.token = t
    BY <1>1, Footprint DEF IInv, TypeOK, Holds
  <2>2. ASSUME NEW r \in Looked, r.token = t, ClaimNamed(r), Deserted(r) PROVE Ended(t)
    BY <2>2 DEF ClaimNamed, Deserted
  <2>3. CASE TimerElapses
    BY <1>1, <2>1, <2>3 DEF TimerElapses, Rows, Holds
  <2>4. CASE SweepRelease
    <3>1. orphan \in Looked /\ orphan.token = t
      BY <1>1, <2>1, <2>4 DEF SweepRelease, Looked
    <3> QED BY <1>1, <2>2, <2>4, <3>1 DEF Ties, SweepRelease
  <2>5. CASE Reset
    BY <2>1, <2>5 DEF Reset, TypeOK
  <2>6. ASSUME NEW u \in Turns, Takes(u) PROVE Ended(t)
    <3>1. pc[u] = "reclaim" /\ read[u].token = t
      BY <2>1, <2>6 DEF Takes
    <3>2. read[u] \in Looked
      BY <3>1 DEF Looked
    <3> QED BY <1>1, <2>2, <3>1, <3>2 DEF Ties, IInv, Sound
  <2>7. ASSUME NEW u \in Turns, Binds(u) PROVE FALSE
    BY <1>1, <2>1, <2>7 DEF Binds, Rows, Holds
  <2>8. ASSUME NEW u \in Turns, Write(u) PROVE Ended(t)
    <3>1. pc[u] = "writing" /\ Reports(u)
      BY <1>1, <2>8 DEF Write, Leave, Goto, Reports, IInv, TypeOK
    <3>2. u # t => read[u].token # t
      BY <1>1, <2>1, <3>1, BreakerAssumption DEF Ties, IInv, Sound, ClaimNamed, Holds
    <3> QED BY <3>1, <3>2
  <2> QED BY <1>1, <2>1, <2>3, <2>4, <2>5, <2>6, <2>7, <2>8 DEF Moved
<1>2. ASSUME IInv, Ties, [Next]_vars, NEW t \in claims, ~Holds(row, t), t \in claims'
      PROVE  ~Holds(row', t)
  <2>1. Moved /\ t \in Turns
    BY <1>2, Footprint DEF IInv, TypeOK
  <2>2. ASSUME NEW u \in Turns, Takes(u) PROVE row'.token # t
    <3>1. row'.token = u /\ pc[u] \in {"gated", "reclaim"}
      BY <2>2 DEF Takes, Claimed, Row
    <3> QED BY <1>2, <3>1 DEF Ties
  <2> QED BY <1>2, <2>1, <2>2, HolderOfRow DEF Holds
<1>3. IInv /\ Ties /\ [Next]_vars =>
        [\A t \in claims :
           /\ Holds(row, t) /\ ~Holds(row', t) => Ended(t)
           /\ ~Holds(row, t) /\ t \in claims' => ~Holds(row', t)]_vars
  BY <1>1, <1>2
<1> QED BY <1>3, Tied, PTL DEF Spec, ClaimKept
=============================================================================
