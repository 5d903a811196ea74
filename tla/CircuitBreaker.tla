---------------------------- MODULE CircuitBreaker ----------------------------
(***************************************************************************)
(* The circuit breaker of one agent (agent_framework/loop/                 *)
(* circuit_breaker.py, repository/agent_circuit_breaker_repository.py):    *)
(* one database row, read and written by the turns of the agent, which run *)
(* in several processes, by the sweep of lost runs and by the owner.       *)
(*                                                                         *)
(* A turn asks the gate (should_skip), some time later claims the          *)
(* half-open probe if the row says so (try_begin_probe), runs, and reports *)
(* its outcome in a read followed by a write.  A probe token is fresh; it  *)
(* is modelled by the turn that drew it, and a turn is reused only when    *)
(* nothing remembers its token.  No row and a clean row gate nothing: they *)
(* are one state.                                                          *)
(***************************************************************************)
EXTENDS Naturals, FiniteSets

CONSTANTS
    Turns,      \* turns of the agent that may be under way at once
    NoTurn,
    Triggers,   \* turns run by AgentRuntimeClient: they settle probes only
    Ungated,    \* turns that may start past the gate: no gate, or its read failed
    Categories, \* ErrorCategory
    Pausing,    \* PAUSING_CATEGORIES
    Threshold,  \* AUTH_QUOTA_PAUSE_THRESHOLD
    MaxStreak,  \* bound: no failure is reported on a longer streak
    MaxCrashes, \* bound: turns whose process dies
    MaxFaults,  \* bound: failed breaker writes
    MaxResets   \* bound: resets by the owner

ASSUME BreakerAssumption ==
    /\ NoTurn \notin Turns
    /\ Triggers \subseteq Turns /\ Ungated \subseteq Turns
    /\ Pausing \subseteq Categories
    /\ Categories \cap {"none", "ok", "cancelled", "exempt"} = {}
    /\ Threshold \in Nat \ {0} /\ MaxStreak \in Nat
    /\ MaxCrashes \in Nat /\ MaxFaults \in Nat /\ MaxResets \in Nat

VARIABLES
    row,      \* instance_agent_circuit_breaker
    pc,       \* where each turn is
    read,     \* the row each turn read last
    claims,   \* turns that carry a probe token
    outcome,  \* how each turn ended
    recorded, \* its events row: none, running, final
    sweep,    \* sweep_stale_runs, inside release_orphaned_probe
    orphan,   \* the row it read, with the token it is about to release
    crashes, faults, resets

vars == <<row, pc, read, claims, outcome, recorded, sweep, orphan,
          crashes, faults, resets>>

boundVars == <<crashes, faults, resets>>
sweepVars == <<sweep, orphan>>

-----------------------------------------------------------------------------
(* The row and what is written to it.                                       *)

\* cb_status, the streak and its category, probe_token, cooldown_until; every
\* write but the bind leaves probe_run_id NULL.
Row(status, count, cat, token, wait) ==
    [status |-> status, count |-> count, cat |-> cat,
     token |-> token, run |-> NoTurn, wait |-> wait]

\* _CLEAN_STATE
Clean == Row("active", 0, "none", NoTurn, "over")

\* _elapsed: no deadline, or one that has passed.
Elapsed(r) == r.wait = "over"

\* should_skip
Skips(r) == r.status # "active" /\ ~Elapsed(r)

\* Mutated Claimed: the token is stamped, the status is left.
ClaimedStaysPaused(r, t) == Row(r.status, r.count, r.cat, t, "on")

\* Mutated Claimed: the new claim inherits the run of the one it takes over.
ClaimedKeepsRun(r, t) ==
    [r EXCEPT !.status = "probing", !.token = t, !.wait = "on"]

\* try_claim_probe, on a row that matches its filter.
Claimed(r, t) == Row("probing", r.count, r.cat, t, "on")

\* _rearm_pause_without_verdict: same streak, category and reason.
Rearmed(r) == Row("paused", r.count, r.cat, NoTurn, "on")

\* record_failure: pause at the threshold of a pausing category, else cool.
Failed(c, n) ==
    Row(IF c \in Pausing /\ n >= Threshold THEN "paused" ELSE "cooling",
        n, c, NoTurn, "on")

\* _holds_probe
Holds(r, t) == t \in claims /\ r.status = "probing" /\ r.token = t

\* run_is_live of its events row: the heartbeat of a dead process goes stale.
Live(t) == recorded[t] = "running" /\ pc[t] # "dead"

\* Mutated MayBeLive: the grant of an unbound claim never ends.
MayBeLiveForever(r) == IF r.run # NoTurn THEN Live(r.run) ELSE TRUE

\* Mutated MayBeLive: the grant decides alone, though a probe may run for hours.
MayBeLiveByGrant(r) == ~Elapsed(r)

\* _claimant_may_be_live
MayBeLive(r) == IF r.run # NoTurn THEN Live(r.run) ELSE ~Elapsed(r)

-----------------------------------------------------------------------------
Init ==
    /\ row = Clean
    /\ pc = [t \in Turns |-> "idle"]
    /\ read = [t \in Turns |-> Clean]
    /\ claims = {}
    /\ outcome = [t \in Turns |-> "none"]
    /\ recorded = [t \in Turns |-> "none"]
    /\ sweep = "idle" /\ orphan = Clean
    /\ crashes = 0 /\ faults = 0 /\ resets = 0

\* cooldown_until passes.
TimerElapses ==
    /\ ~Elapsed(row)
    /\ row' = [row EXCEPT !.wait = "over"]
    /\ UNCHANGED <<pc, read, claims, outcome, recorded, sweepVars, boundVars>>

Goto(t, p) == pc' = [pc EXCEPT ![t] = p]

\* The turn is over and what it had read is gone.
Leave(t) == Goto(t, "done") /\ read' = [read EXCEPT ![t] = Clean]

-----------------------------------------------------------------------------
(* Before the turn.                                                         *)

StartUngated(t) ==
    /\ t \in Ungated
    /\ pc[t] = "idle"
    /\ Goto(t, "admitted")
    /\ UNCHANGED <<row, read, claims, outcome, recorded, sweepVars, boundVars>>

\* should_skip lets the turn through; the row it read goes along (prior).
Gate(t) ==
    /\ pc[t] = "idle"
    /\ ~Skips(row)
    /\ Goto(t, "gated")
    /\ read' = [read EXCEPT ![t] = row]
    /\ UNCHANGED <<row, claims, outcome, recorded, sweepVars, boundVars>>

\* The entry point returns without a turn, or the claim's write raises.
Abandon(t) ==
    /\ pc[t] = "gated"
    /\ Leave(t)
    /\ UNCHANGED <<row, claims, outcome, recorded, sweepVars, boundVars>>

\* Mutated ClaimProbe: the filter is the token alone, which is NULL in a row that
\* is paused, and in one that is cooling or active.
ClaimProbeByToken(t) ==
    IF row.token = read[t].token
    THEN /\ row' = Claimed(row, t)
         /\ claims' = claims \cup {t}
         /\ Goto(t, "admitted")
         /\ read' = [read EXCEPT ![t] = Clean]
    ELSE Leave(t) /\ UNCHANGED <<row, claims>>

\* The compare-and-swap on (status, token) as this turn read them.
ClaimProbe(t) ==
    IF row.status = read[t].status /\ row.token = read[t].token
    THEN /\ row' = Claimed(row, t)
         /\ claims' = claims \cup {t}
         /\ Goto(t, "admitted")
         /\ read' = [read EXCEPT ![t] = Clean]
    ELSE Leave(t) /\ UNCHANGED <<row, claims>>

\* try_begin_probe with the prior read: nothing to claim; a pause whose delay
\* had elapsed; or a probe whose grant had, to be claimed when its claimant is
\* not live.
TryBeginProbe(t) ==
    /\ pc[t] = "gated"
    /\ \/ /\ read[t].status \in {"active", "cooling"}
          /\ Goto(t, "admitted")
          /\ read' = [read EXCEPT ![t] = Clean]
          /\ UNCHANGED <<row, claims>>
       \/ /\ read[t].status = "paused"
          /\ ClaimProbe(t)
       \/ /\ read[t].status = "probing"
          /\ MayBeLive(read[t])
          /\ Leave(t)
          /\ UNCHANGED <<row, claims>>
       \/ /\ read[t].status = "probing"
          /\ ~MayBeLive(read[t])
          /\ Goto(t, "reclaim")
          /\ UNCHANGED <<row, claims, read>>
    /\ UNCHANGED <<outcome, recorded, sweepVars, boundVars>>

\* The write half of that claim; it raises, and counts as lost, or lands.
Reclaim(t) ==
    /\ pc[t] = "reclaim"
    /\ \/ ClaimProbe(t) /\ UNCHANGED faults
       \/ /\ faults < MaxFaults
          /\ faults' = faults + 1
          /\ Leave(t)
          /\ UNCHANGED <<row, claims>>
    /\ UNCHANGED <<outcome, recorded, sweepVars, crashes, resets>>

-----------------------------------------------------------------------------
(* The turn.                                                                *)

\* The admission slot is taken and the events row starts to run.
StartRun(t) ==
    /\ pc[t] = "admitted"
    /\ recorded' = [recorded EXCEPT ![t] = "running"]
    /\ Goto(t, IF t \in claims THEN "binding" ELSE "running")
    /\ UNCHANGED <<row, read, claims, outcome, sweepVars, boundVars>>

\* bind_probe_run: lands only on the turn's own claim; may fail (best effort).
BindProbeRun(t) ==
    /\ pc[t] = "binding"
    /\ Goto(t, "running")
    /\ \/ /\ row' = IF Holds(row, t) THEN [row EXCEPT !.run = t] ELSE row
          /\ UNCHANGED faults
       \/ /\ faults < MaxFaults
          /\ faults' = faults + 1
          /\ UNCHANGED row
    /\ UNCHANGED <<read, claims, outcome, recorded, sweepVars, crashes, resets>>

Outcomes == {"ok", "cancelled", "exempt"} \cup Categories

\* The turn ends, or its entry point bails out before the run row exists; the
\* events row is finalized first.
EndTurn(t, o) ==
    /\ pc[t] \in {"admitted", "running"}
    /\ o \in Categories => row.count < MaxStreak
    /\ Goto(t, "ended")
    /\ outcome' = [outcome EXCEPT ![t] = o]
    /\ recorded' = [recorded EXCEPT ![t] = IF @ = "running" THEN "final" ELSE @]
    /\ UNCHANGED <<row, read, claims, sweepVars, boundVars>>

\* settle_probe: an entry that feeds no streak acts only while it holds.
SettleProbe(t) ==
    /\ t \in Triggers
    /\ pc[t] = "ended"
    /\ IF t \in claims /\ (outcome[t] = "cancelled" \/ Holds(row, t))
       THEN Goto(t, "reporting") /\ UNCHANGED read
       ELSE Leave(t)
    /\ UNCHANGED <<row, claims, outcome, recorded, sweepVars, boundVars>>

\* Outcomes without a verdict on the credential, of the holder of the probe.
NoVerdict(o) == o \notin Pausing \cup {"ok"}

\* What record_success, record_failure and release_probe leave alone, given
\* the row r they read.
LeftAlone(t, r) ==
    \/ r.status = "probing" /\ ~Holds(r, t)
    \/ outcome[t] \in {"cancelled", "exempt"} /\ ~Holds(r, t)
    \/ outcome[t] = "ok" /\ r.status = "active" /\ r.count = 0

\* The read half of a report.
Report(t) ==
    /\ pc[t] = (IF t \in Triggers THEN "reporting" ELSE "ended")
    /\ IF LeftAlone(t, row)
       THEN Leave(t)
       ELSE Goto(t, "writing") /\ read' = [read EXCEPT ![t] = row]
    /\ UNCHANGED <<row, claims, outcome, recorded, sweepVars, boundVars>>

\* Mutated Verdict: a probe that failed for another reason is counted.
VerdictCountsBlips(t) ==
    LET r == read[t] o == outcome[t] IN
    CASE o = "ok" -> Clean
      [] o \in {"cancelled", "exempt"} -> Rearmed(row)
      [] OTHER -> Failed(o, IF r.cat = o THEN r.count + 1 ELSE 1)

\* What the turn writes, from the row r it read: partial (Rearmed) or whole.
\* A failed probe continues the streak of its pause; an ordinary failure that
\* changes category starts a new one.
Verdict(t) ==
    LET r == read[t] o == outcome[t] IN
    CASE o = "ok" -> Clean
      [] Holds(r, t) /\ NoVerdict(o) -> Rearmed(row)
      [] Holds(r, t) /\ ~NoVerdict(o) /\ o # "ok" ->
             Failed(IF r.cat \in Pausing THEN r.cat ELSE o, r.count + 1)
      [] OTHER -> Failed(o, IF r.cat = o THEN r.count + 1 ELSE 1)

\* The write half: the holder's write is a compare-and-swap on its token, any
\* other one is an upsert.
Write(t) ==
    /\ pc[t] = "writing"
    /\ row' = IF Holds(read[t], t) /\ ~Holds(row, t) THEN row ELSE Verdict(t)
    /\ Leave(t)
    /\ UNCHANGED <<claims, outcome, recorded, sweepVars, boundVars>>

\* The report raises and is swallowed: no verdict lands.
ReportFails(t) ==
    /\ pc[t] \in {"ended", "reporting", "writing"}
    /\ faults < MaxFaults
    /\ faults' = faults + 1
    /\ Leave(t)
    /\ UNCHANGED <<row, claims, outcome, recorded, sweepVars, crashes, resets>>

\* The process of the turn dies, or is shut down in time to finalize the run.
Crash(t) ==
    /\ pc[t] \notin {"idle", "done", "dead"}
    /\ crashes < MaxCrashes
    /\ crashes' = crashes + 1
    /\ Goto(t, "dead")
    /\ read' = [read EXCEPT ![t] = Clean]
    /\ \/ UNCHANGED recorded
       \/ recorded' = [recorded EXCEPT ![t] = IF @ = "running" THEN "final" ELSE @]
    /\ UNCHANGED <<row, claims, outcome, sweepVars, faults, resets>>

-----------------------------------------------------------------------------
(* The sweep of lost runs, and the owner.                                   *)

SweepRun(t) ==
    /\ sweep = "idle"
    /\ pc[t] = "dead" /\ recorded[t] = "running"
    /\ recorded' = [recorded EXCEPT ![t] = "final"]
    /\ sweep' = "read"
    /\ UNCHANGED <<row, pc, read, claims, outcome, orphan, boundVars>>

\* release_orphaned_probe reads the row and asks for its claimant.
SweepRead ==
    /\ sweep = "read"
    /\ IF row.status = "probing" /\ ~MayBeLive(row)
       THEN sweep' = "release" /\ orphan' = row
       ELSE sweep' = "idle" /\ UNCHANGED orphan
    /\ UNCHANGED <<row, pc, read, claims, outcome, recorded, boundVars>>

SweepRelease ==
    /\ sweep = "release"
    /\ row' = IF row.status = "probing" /\ row.token = orphan.token THEN Rearmed(row) ELSE row
    /\ sweep' = "idle" /\ orphan' = Clean
    /\ UNCHANGED <<pc, read, claims, outcome, recorded, boundVars>>

\* reset_agent, and reset_for_owner of an agent it found blocked: no condition
\* on the row is part of the write.
Reset ==
    /\ resets < MaxResets
    /\ resets' = resets + 1
    /\ row' = Clean
    /\ UNCHANGED <<pc, read, claims, outcome, recorded, sweepVars, crashes, faults>>

\* The slot of a turn that is over serves a later turn, with a fresh token.
Forgotten(t) ==
    /\ row.token # t /\ row.run # t /\ orphan.token # t /\ orphan.run # t
    /\ \A u \in Turns : read[u].token # t /\ read[u].run # t

NextTurn(t) ==
    /\ pc[t] \in {"done", "dead"}
    /\ recorded[t] # "running" \/ pc[t] = "done"
    /\ Forgotten(t)
    /\ Goto(t, "idle")
    /\ claims' = claims \ {t}
    /\ outcome' = [outcome EXCEPT ![t] = "none"]
    /\ recorded' = [recorded EXCEPT ![t] = "none"]
    /\ UNCHANGED <<row, read, sweepVars, boundVars>>

-----------------------------------------------------------------------------
Enter(t)  == StartUngated(t) \/ Gate(t) \/ Abandon(t) \/ TryBeginProbe(t) \/ Reclaim(t)
Run(t)    == StartRun(t) \/ BindProbeRun(t) \/ \E o \in Outcomes : EndTurn(t, o)
Settle(t) == SettleProbe(t) \/ Report(t) \/ Write(t) \/ ReportFails(t)
Sweep     == SweepRead \/ SweepRelease \/ \E t \in Turns : SweepRun(t)

Next ==
    \/ \E t \in Turns : Enter(t) \/ Run(t) \/ Settle(t) \/ Crash(t) \/ NextTurn(t)
    \/ TimerElapses \/ Sweep \/ Reset

Spec == Init /\ [][Next]_vars

-----------------------------------------------------------------------------
(* Properties.                                                              *)

Statuses == {"active", "cooling", "paused", "probing"}

Rows == [status : Statuses, count : Nat, cat : Categories \cup {"none"},
         token : Turns \cup {NoTurn}, run : Turns \cup {NoTurn}, wait : {"on", "over"}]

PCs == {"idle", "gated", "reclaim", "admitted", "binding", "running", "ended",
        "reporting", "writing", "done", "dead"}

\* Every variable keeps its type.
TypeOK ==
    /\ row \in Rows
    /\ pc \in [Turns -> PCs] /\ read \in [Turns -> Rows]
    /\ claims \subseteq Turns
    /\ outcome \in [Turns -> Outcomes \cup {"none"}]
    /\ recorded \in [Turns -> {"none", "running", "final"}]
    /\ sweep \in {"idle", "read", "release"} /\ orphan \in Rows
    /\ crashes \in Nat /\ faults \in Nat /\ resets \in Nat

\* A row names a claim exactly while it is probing, and the run it names is that
\* of the claimant: whatever order claims, verdicts, resets and releases land in,
\* no claim inherits the run of the one before it (_NO_CLAIM).
ClaimNamed(r) ==
    /\ r.status = "probing" <=> r.token # NoTurn
    /\ r.run \in {NoTurn, r.token}
ClaimIdentity == ClaimNamed(row)

\* An agent is paused, or on probation after a pause, only on a streak of
\* Threshold failures of one pausing category: the platform never gives up on a
\* model for transient or business failures, however reads and writes interleave.
Earned(r) ==
    r.status \in {"paused", "probing"} => r.cat \in Pausing /\ r.count >= Threshold
PauseIsEarned == Earned(row)

\* The half-open ladder: the streak that decides how long a pause lasts.  A claim, a
\* takeover, a release and a probe without a verdict stay on the rung; a probe that found
\* the credential dead climbs one, from the rung the row is on and not the one it was
\* read on; only a success or the owner leaves it, or the failure of a turn that had read
\* the row before anyone was on probation (record_failure).
Rung(r) == <<r.cat, r.count>>
Reports(t) == pc[t] = "writing" /\ pc'[t] = "done"
Ladder ==
    [][row.status \in {"paused", "probing"} =>
         \/ row'.status \in {"paused", "probing"} /\ Rung(row') = Rung(row)
         \/ row' = Clean
         \/ \E t \in Turns :
              /\ Reports(t)
              /\ \/ /\ Holds(row, t) /\ ~NoVerdict(outcome[t])
                    /\ row'.status = "paused" /\ Rung(row') = <<row.cat, row.count + 1>>
                 \/ read[t].status # "probing" /\ outcome[t] \in Categories]_vars

\* A claim, once held, is ended by its holder's own report, or by the owner, or by
\* somebody who looked at it when its holder had no run, or had none any more
\* (_claimant_may_be_live), or by a report that had read the row before the claim; and a
\* turn that has lost its claim never has it again, so that its verdict cannot land on
\* the claim of another (settle_probe, try_claim_probe).
Looked == {read[u] : u \in {v \in Turns : pc[v] = "reclaim"}}
          \cup (IF sweep = "release" THEN {orphan} ELSE {})
ClaimKept ==
    [][\A t \in claims :
         /\ Holds(row, t) /\ ~Holds(row', t) =>
              \/ Reports(t)
              \/ resets' # resets
              \/ \E r \in Looked : r.token = t /\ (r.run = NoTurn \/ ~Live(t))
              \/ \E u \in Turns : Reports(u) /\ read[u].token # t
         /\ ~Holds(row, t) /\ t \in claims' => ~Holds(row', t)]_vars

-----------------------------------------------------------------------------
(* Liveness.  Every await of a turn, of its report and of the sweep returns, *)
(* a turn ends (the run layer's watchdogs), deadlines pass.  Gated turns     *)
(* keep arriving, and not every one of them is given up before its claim.    *)

Fairness ==
    /\ WF_vars(TimerElapses) /\ WF_vars(Sweep)
    /\ \A t \in Turns :
         /\ WF_vars(Run(t)) /\ WF_vars(Settle(t)) /\ WF_vars(NextTurn(t))
         /\ WF_vars(Gate(t)) /\ SF_vars(TryBeginProbe(t)) /\ WF_vars(Reclaim(t))

FairSpec == Spec /\ Fairness

\* A claim is always given back, by its holder, by the sweep after the holder
\* died, or by a later turn that takes it over: no entry point is refused for ever.
ClaimsEnd == \A t \in Turns : (row.token = t) ~> (row.token # t)

\* A pause is not a dead end: sooner or later a turn probes it, or the owner ends it.
PauseEnds == (row.status = "paused") ~> (row.status # "paused")
=============================================================================
