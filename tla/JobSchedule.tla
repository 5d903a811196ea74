----------------------------- MODULE JobSchedule -----------------------------
(***************************************************************************)
(* One stored job and everything that writes its row (instance_jobs):      *)
(*   - JobTrigger, one process: a poller (scans, then the due query), an   *)
(*     asyncio queue of row snapshots, and a pool of workers that acquire, *)
(*     run and finalize (job_trigger.py, job_repository.py);               *)
(*   - the after_turn analysis of a finished run, in the background        *)
(*     (_job_lifecycle.py): it writes the status a model decided;          *)
(*   - the owner and the agent's tools: pause, cancel, resume, activate,   *)
(*     reschedule (job_recovery.py, job_service.py, routes.py);            *)
(*   - provider edges (login, top-up, key saved) and the suspension of the *)
(*     account (job_recovery.py, admin/suspend.py).                        *)
(* What lies between two awaits that another writer could use is one       *)
(* action; consecutive writes of one handler that touch disjoint columns   *)
(* are one action too.  Time is abstract: a next_run_time is absent, later *)
(* or now, a cooldown is off, on or over.                                  *)
(***************************************************************************)
EXTENDS Naturals, Sequences, FiniteSets

CONSTANTS
    Kinds,          \* job types that may be created
    NWorkers,       \* worker coroutines
    MaxFails,       \* _MAX_CONSECUTIVE_FAILURES
    MaxIterations,  \* trigger_config.max_iterations of an ongoing job
    MaxOwner,       \* bound: acts of the owner, of the agent's tools, provider edges
    MaxMishaps      \* bound: suspensions, analyses that write, database errors,
                    \* restarts, outages and horizons passed, together

ASSUME JobAssumption ==
    /\ Kinds \subseteq {"one_off", "scheduled", "ongoing"}
    /\ NWorkers \in Nat \ {0}
    /\ MaxFails \in Nat \ {0} /\ MaxIterations \in Nat \ {0}
    /\ MaxOwner \in Nat /\ MaxMishaps \in Nat

Workers == 1 .. NWorkers

VARIABLES
    \* the row
    kind, status, reason, due, cooldown, fails, iters,
    inst,      \* module_instances.status of the job's instance
    \* the world
    ended,     \* trigger_config.end_at has passed
    ready,     \* classify_provider_for_user would let a run start
    overCap,   \* the day's spend reached the cap
    account,   \* users.status: "active" or "banned"
    \* the trigger process
    up, queue, claimed, poll, seen, work,
    \* writers elsewhere
    hook,      \* an after_turn analysis: "on", or which schedule it has yet to write
    edge,      \* rearm_user_no_quota_jobs has read the row
    adm,       \* where the suspend / reinstate request is
    panel,     \* the request of the Jobs panel that has read the row
    \* bounds
    acts, mishaps,
    \* history variables: never read by the actions
    held,      \* the owner's last word is: stopped
    exposed,   \* ... said while another writer had already read the row
    edgeHeld,  \* paused for a reason only the owner can clear
    stuck,     \* a finalizer raised: the row stays RUNNING
    unlifted   \* a reinstatement failed half-way, or the poller's account gate read
               \* "banned" and wrote after it

rowVars   == <<kind, status, reason, due, cooldown, fails, iters, inst>>
worldVars == <<ended, ready, overCap, account>>
procVars  == <<up, queue, claimed, poll, seen, work>>
sideVars  == <<hook, edge, adm, panel>>
countVars == <<acts, mishaps>>
histVars  == <<held, exposed, edgeHeld, stuck, unlifted>>
vars == <<rowVars, worldVars, procVars, sideVars, countVars, histVars>>

Statuses == {"pending", "active", "running", "cooling", "paused",
             "paused_no_quota", "paused_spend_cap", "completed", "failed",
             "cancelled"}
Reasons  == {"none", "user", "account", "observable", "edge_only", "spend_cap",
             "repeated"}

\* _IN_RUN_STOPS
InRunStops == {"paused", "paused_no_quota", "cancelled", "completed", "failed"}
\* get_due_jobs and try_acquire_job
Startable  == {"pending", "active"}
\* Mutated Resumable: a paused job is not resumed.
ResumableAuto == {"paused_no_quota", "paused_spend_cap", "cooling"}
\* _RESUMABLE_STATUSES, SUSPENDABLE_JOB_STATUSES
Resumable   == {"paused", "paused_no_quota", "paused_spend_cap", "cooling"}
Suspendable == {"pending", "active", "cooling"}
Terminal    == {"completed", "failed", "cancelled"}

\* compute_next_run from now: a one_off keeps its run_at, which may have passed.
NextFires == IF kind = "one_off" THEN {"later", "now"} ELSE {"later"}
\* past_schedule_horizon of that fire; never asked of a one_off.
PastHorizon == kind # "one_off" /\ ended

\* The columns of the row a queued JobModel carries that its run reads later.
Snapshot == [fails |-> fails, backoff |-> fails > 0 \/ cooldown # "off", iters |-> iters]
NoSnap   == [fails |-> 0, backoff |-> FALSE, iters |-> 0]
IdleWork == [pc |-> "idle", snap |-> NoSnap, out |-> "none"]

Init ==
    /\ kind \in Kinds
    /\ status = "pending" /\ reason = "none" /\ due = "later" /\ cooldown = "off"
    /\ fails = 0 /\ iters = 0 /\ inst = "active"
    /\ ended = FALSE /\ ready = TRUE /\ overCap = FALSE /\ account = "active"
    /\ up = "yes" /\ queue = <<>> /\ claimed = FALSE /\ poll = "idle"
    /\ seen = NoSnap /\ work = [w \in Workers |-> IdleWork]
    /\ hook = "off" /\ edge = FALSE /\ adm = "idle" /\ panel = "idle"
    /\ acts = 0 /\ mishaps = 0
    /\ held = FALSE /\ exposed = FALSE /\ edgeHeld = FALSE
    /\ stuck = FALSE /\ unlifted = FALSE

Mishap == mishaps < MaxMishaps /\ mishaps' = mishaps + 1

-----------------------------------------------------------------------------
(* Time and the world.                                                      *)

\* Time that passes while nobody looks at it makes no difference: it is let pass
\* when the row is one the queries look at.
FireComes ==
    /\ due = "later" /\ status \in Startable
    /\ due' = "now"
    /\ UNCHANGED <<kind, status, reason, cooldown, fails, iters, inst, worldVars,
                   procVars, sideVars, countVars, histVars>>

CooldownElapses ==
    /\ cooldown = "on" /\ status = "cooling"
    /\ cooldown' = "over"
    /\ UNCHANGED <<kind, status, reason, due, fails, iters, inst, worldVars,
                   procVars, sideVars, countVars, histVars>>

HorizonPasses ==
    /\ kind # "one_off" /\ ~ended /\ Mishap /\ ended' = TRUE
    /\ UNCHANGED <<rowVars, ready, overCap, account, procVars, sideVars, acts, histVars>>

\* The provider stops working, or the day's spend reaches the cap.
Blocks ==
    /\ Mishap
    /\ \/ ready /\ ready' = FALSE /\ UNCHANGED overCap
       \/ ~overCap /\ overCap' = TRUE /\ UNCHANGED ready
    /\ UNCHANGED <<rowVars, ended, account, procVars, sideVars, acts,
                   histVars>>

Unblocks ==
    /\ \/ ~ready /\ ready' = TRUE /\ UNCHANGED overCap
       \/ overCap /\ overCap' = FALSE /\ UNCHANGED ready
    /\ UNCHANGED <<rowVars, ended, account, procVars, sideVars, countVars, histVars>>

-----------------------------------------------------------------------------
(* The owner and the agent's tools.                                         *)

\* Writers that read the row earlier and will write its status without looking.
OtherWriterInFlight ==
    \/ poll \in {"quota", "capped", "cooled", "due", "ban"}
    \/ hook = "on" \/ edge \/ adm \in {"selected", "lifting"} \/ up = "recovering"
WriterInFlight ==
    \/ OtherWriterInFlight
    \/ \E w \in Workers :
          work[w].pc \in {"gate", "running", "final", "check", "rearm", "failing"}

OwnerActs == acts < MaxOwner /\ acts' = acts + 1

ownerLeaves == <<kind, iters, inst, worldVars, procVars, hook, edge, adm, mishaps,
                 stuck, unlifted>>

Stops ==
    /\ held' = TRUE
    /\ exposed' = WriterInFlight
    /\ UNCHANGED edgeHeld

Wakes == held' = FALSE /\ exposed' = FALSE /\ edgeHeld' = FALSE

\* pause_job, resume_job, cancel_job, from the Jobs panel: the row is read and judged,
\* and written some awaits later without a condition.
PanelReads ==
    /\ panel = "idle" /\ OwnerActs
    /\ \/ panel' = "pause" /\ status \notin Terminal
       \/ panel' = "cancel" /\ status \notin {"completed", "cancelled"}
       \/ panel' = "resume" /\ status \in Resumable
    /\ UNCHANGED <<status, reason, due, cooldown, fails, held, exposed, edgeHeld, ownerLeaves>>

PauseJob ==
    /\ panel = "pause" /\ panel' = "idle"
    /\ status' = "paused" /\ reason' = "user"
    /\ Stops
    /\ UNCHANGED <<due, cooldown, fails, acts, ownerLeaves>>

CancelJob ==
    /\ panel = "cancel" /\ panel' = "idle"
    /\ status' = "cancelled"
    /\ Stops
    /\ UNCHANGED <<reason, due, cooldown, fails, acts, ownerLeaves>>

\* What resume_job writes once it has seen a resumable status.
Resumed ==
    /\ due' \in NextFires
    /\ status' = "active" /\ reason' = "none" /\ cooldown' = "off" /\ fails' = 0

ResumeJob ==
    /\ panel = "resume" /\ panel' = "idle"
    /\ Resumed
    /\ Wakes
    /\ UNCHANGED <<acts, ownerLeaves>>

\* JobRepository.pause_job, the agent's tool: any status, and no reason.  The
\* reason of a suspension stays on the row, and reinstatement will take the pause
\* for its own.
PauseTool ==
    /\ OwnerActs /\ status' = "paused"
    /\ held' = TRUE
    /\ exposed' = (WriterInFlight \/ reason = "account")
    /\ UNCHANGED edgeHeld
    /\ UNCHANGED <<reason, due, cooldown, fails, panel, ownerLeaves>>

\* job_update with status=active: a recurring job gets a schedule and a clean slate; of
\* a one_off, or with a next_run_time of its own, only what was asked is written.
ActivateJob ==
    /\ OwnerActs /\ status' = "active"
    /\ \/ kind = "one_off" /\ UNCHANGED <<reason, due, cooldown, fails>>
       \/ /\ kind # "one_off"
          /\ due' = "later" /\ reason' = "none" /\ cooldown' = "off" /\ fails' = 0
       \/ due' \in {"later", "now"} /\ UNCHANGED <<reason, cooldown, fails>>
    /\ Wakes
    /\ UNCHANGED <<panel, ownerLeaves>>

\* job_update with a next_run_time, or reschedule_job: no status is written.
RescheduleJob(d) ==
    /\ OwnerActs /\ due # d /\ due' = d
    /\ UNCHANGED <<status, reason, cooldown, fails, held, exposed, edgeHeld, panel, ownerLeaves>>

Owner ==
    \/ PanelReads \/ PauseJob \/ CancelJob \/ ResumeJob \/ PauseTool \/ ActivateJob
    \/ \E d \in {"later", "now"} : RescheduleJob(d)

-----------------------------------------------------------------------------
(* Suspension of the account: the flip first, the jobs last.                *)

admLeaves == <<kind, iters, ended, ready, overCap, procVars, hook, edge, panel, acts, stuck>>

SuspendFlips ==
    /\ adm = "idle" /\ account = "active" /\ Mishap
    /\ account' = "banned" /\ adm' = "pausing"
    /\ UNCHANGED <<status, reason, due, cooldown, fails, inst, held, exposed, edgeHeld,
                   unlifted, admLeaves>>

\* pause_jobs_for_execution_principal: one UPDATE over SUSPENDABLE statuses.  A failing
\* one is swallowed: the poller's account gate is left.
SuspendPauses ==
    /\ adm = "pausing" /\ adm' = "idle"
    /\ \/ status \in Suspendable /\ status' = "paused" /\ reason' = "account"
       \/ UNCHANGED <<status, reason>>
    /\ UNCHANGED <<due, cooldown, fails, inst, account, mishaps, held, exposed, edgeHeld,
                   unlifted, admLeaves>>

ReinstateFlips ==
    /\ adm = "idle" /\ account = "banned"
    /\ account' = "active" /\ adm' = "resuming"
    /\ UNCHANGED <<status, reason, due, cooldown, fails, inst, mishaps, held, exposed,
                   edgeHeld, unlifted, admLeaves>>

\* Mutated SuspensionPaused: the reason is not asked.
AnyPaused == status = "paused"

\* get_jobs_paused_for_execution_principal
SuspensionPaused == status = "paused" /\ reason = "account"

ReinstateSelects ==
    /\ adm = "resuming"
    /\ adm' = IF SuspensionPaused THEN "selected" ELSE "idle"
    /\ UNCHANGED <<status, reason, due, cooldown, fails, inst, account, mishaps, held,
                   exposed, edgeHeld, unlifted, admLeaves>>

\* Past its horizon the job is completed; else resume_job, which looks again.
ReinstateJudges ==
    /\ adm = "selected"
    /\ \/ /\ PastHorizon
          /\ status' = "completed" /\ reason' = "none" /\ due' = "none"
          /\ inst' = "completed" /\ adm' = "idle"
       \/ /\ ~PastHorizon
          /\ adm' = IF status \in Resumable THEN "lifting" ELSE "idle"
          /\ UNCHANGED <<status, reason, due, inst>>
    /\ UNCHANGED <<cooldown, fails, account, mishaps, held, exposed, edgeHeld, unlifted,
                   admLeaves>>

ReinstateResumes ==
    /\ adm = "lifting" /\ adm' = "idle"
    /\ Resumed
    /\ UNCHANGED <<inst, account, mishaps, held, exposed, edgeHeld, unlifted, admLeaves>>

\* A query or a write of it fails: that is reported, and the jobs stay paused.
ReinstateFails ==
    /\ adm \in {"resuming", "selected", "lifting"} /\ adm' = "idle"
    /\ unlifted' = (unlifted \/ SuspensionPaused)
    /\ UNCHANGED <<status, reason, due, cooldown, fails, inst, account, mishaps, held,
                   exposed, edgeHeld, admLeaves>>

Admin == SuspendFlips \/ SuspendPauses \/ ReinstateFlips \/ ReinstateSelects
         \/ ReinstateJudges \/ ReinstateResumes \/ ReinstateFails

-----------------------------------------------------------------------------
(* Provider edges: rearm_user_no_quota_jobs.                                *)

EdgeReads ==
    /\ ~edge /\ status = "paused_no_quota" /\ ready
    /\ OwnerActs /\ edge' = TRUE
    /\ UNCHANGED <<rowVars, worldVars, procVars, hook, adm, panel, mishaps,
                   histVars>>

\* After the live check: next_run, then the status, whatever it is by now.
EdgeWrites ==
    /\ edge /\ edge' = FALSE
    /\ due' \in NextFires /\ status' = "active" /\ reason' = "none"
    /\ edgeHeld' = FALSE
    /\ UNCHANGED <<kind, cooldown, fails, iters, inst, worldVars, procVars, hook, adm,
                   panel, countVars, held, exposed, stuck, unlifted>>

-----------------------------------------------------------------------------
(* The poller.  Each scan reads candidate rows, awaits, and writes them      *)
(* without looking again; the scans run one after another.                  *)

pollLeaves == <<kind, iters, worldVars, up, work, sideVars, countVars, held,
                exposed, edgeHeld, stuck>>

\* Mutated QuotaCandidate: reasons readiness cannot see are probed as well.
AnyNoQuota == status = "paused_no_quota"
\* Mutated QuotaCandidate: a job the owner paused is one too.
PausedToo == status \in {"paused", "paused_no_quota"} /\ reason # "edge_only"

\* _resume_eligible_no_quota_jobs
QuotaCandidate == status = "paused_no_quota" /\ reason # "edge_only"

\* Mutated CappedCandidate: only recurring jobs are looked for.
CappedRecurring == status = "paused_spend_cap" /\ kind # "one_off"

\* _resume_spend_capped_jobs
CappedCandidate == status = "paused_spend_cap"

\* _rearm_cooled_jobs
CoolingCandidate == status = "cooling" /\ cooldown # "on"

\* Mutated ZombieCandidate: nothing heals a schedule that was lost.
NoZombie == FALSE

\* get_active_scheduled_jobs_missing_next_run
ZombieCandidate == status = "active" /\ due = "none" /\ kind # "one_off"

ScanReads ==
    /\ up = "yes" /\ poll = "idle"
    /\ \/ QuotaCandidate /\ ready /\ account = "active" /\ poll' = "quota"
       \/ CappedCandidate /\ ~overCap /\ poll' = "capped"
       \/ CoolingCandidate /\ poll' = "cooled"
       \/ ZombieCandidate /\ poll' = "zombie"
    /\ UNCHANGED <<status, reason, due, cooldown, fails, inst, queue, claimed, seen,
                   unlifted, pollLeaves>>

\* _resume_eligible_no_quota_jobs: the reason stays on the row.
ResumeNoQuota ==
    /\ poll = "quota" /\ poll' = "idle"
    /\ due' \in NextFires /\ status' = "active"
    /\ UNCHANGED <<reason, cooldown, fails, inst, queue, claimed, seen, unlifted, pollLeaves>>

\* _resume_spend_capped_jobs
ResumeCapped ==
    /\ poll = "capped" /\ poll' = "idle"
    /\ reason' = "none"
    /\ IF PastHorizon
         THEN status' = "completed" /\ due' = "none" /\ inst' = "completed"
         ELSE status' = "active" /\ due' \in NextFires /\ UNCHANGED inst
    /\ UNCHANGED <<cooldown, fails, queue, claimed, seen, unlifted, pollLeaves>>

\* _rearm_cooled_jobs: next_run_time was set when the cooldown began.
RearmCooled ==
    /\ poll = "cooled" /\ poll' = "idle"
    /\ cooldown' = "off"
    /\ IF PastHorizon
         THEN status' = "completed" /\ due' = "none" /\ inst' = "completed"
         ELSE status' = "active" /\ UNCHANGED <<due, inst>>
    /\ UNCHANGED <<reason, fails, queue, claimed, seen, unlifted, pollLeaves>>

\* _heal_unscheduled_active_jobs: a schedule is written, and no status.
HealZombie ==
    /\ poll = "zombie" /\ poll' = "idle"
    /\ IF PastHorizon
         THEN status' = "completed" /\ inst' = "completed" /\ UNCHANGED due
         ELSE due' = "later" /\ UNCHANGED <<status, inst>>
    /\ UNCHANGED <<reason, cooldown, fails, queue, claimed, seen, unlifted, pollLeaves>>

\* get_due_jobs
DueReads ==
    /\ up = "yes" /\ poll = "idle"
    /\ status \in Startable /\ due = "now"
    /\ poll' = "due" /\ seen' = Snapshot
    /\ UNCHANGED <<status, reason, due, cooldown, fails, inst, queue, claimed, unlifted, pollLeaves>>

\* Mutated DueSkips and DueEnqueues: _running_jobs is not asked.
NeverClaimed == FALSE

\* The job is in _running_jobs: queued or executing.
InRunningJobs == claimed

DueSkips ==
    /\ poll = "due" /\ InRunningJobs
    /\ poll' = "idle" /\ seen' = NoSnap
    /\ UNCHANGED <<status, reason, due, cooldown, fails, inst, queue, claimed, unlifted, pollLeaves>>

DueEnqueues ==
    /\ poll = "due" /\ ~InRunningJobs /\ account = "active"
    /\ claimed' = TRUE /\ queue' = Append(queue, seen)
    /\ poll' = "idle" /\ seen' = NoSnap
    /\ UNCHANGED <<status, reason, due, cooldown, fails, inst, unlifted, pollLeaves>>

\* The account must not transact: pause the row, some awaits later.
DueBanned ==
    /\ poll = "due" /\ ~InRunningJobs /\ account = "banned"
    /\ poll' = "ban" /\ seen' = NoSnap
    /\ UNCHANGED <<status, reason, due, cooldown, fails, inst, queue, claimed, unlifted, pollLeaves>>

BanWrites ==
    /\ poll = "ban" /\ poll' = "idle"
    /\ status' = "paused" /\ reason' = "account"
    /\ unlifted' = (unlifted \/ account = "active")
    /\ UNCHANGED <<due, cooldown, fails, inst, queue, claimed, seen, pollLeaves>>

Poller ==
    \/ ScanReads \/ ResumeNoQuota \/ ResumeCapped \/ RearmCooled \/ HealZombie
    \/ DueReads \/ DueSkips \/ DueEnqueues \/ DueBanned \/ BanWrites

-----------------------------------------------------------------------------
(* A worker.                                                                *)

At(w, p) == work[w].pc = p
Goto(w, p) == work' = [work EXCEPT ![w].pc = p]

\* The finally clause of _worker: the job leaves _running_jobs.
Release(w) == work' = [work EXCEPT ![w] = IdleWork] /\ claimed' = FALSE

workLeaves == <<kind, worldVars, up, poll, seen, edge, adm, panel, acts, held,
                exposed, unlifted>>

\* The first idle worker takes: which one it is makes no difference.
Take(w) ==
    /\ At(w, "idle") /\ queue # <<>>
    /\ \A v \in 1 .. w - 1 : ~At(v, "idle")
    /\ work' = [work EXCEPT ![w] = [pc |-> "taken", snap |-> Head(queue), out |-> "none"]]
    /\ queue' = Tail(queue)
    /\ UNCHANGED <<status, reason, due, cooldown, fails, iters, inst, claimed, hook,
                   mishaps, edgeHeld, stuck, workLeaves>>

\* try_acquire_job: one conditional UPDATE.
Acquire(w) ==
    /\ At(w, "taken")
    /\ \/ /\ status \in Startable
          /\ status' = "running"
          /\ Goto(w, "gate")
          /\ UNCHANGED claimed
       \/ /\ status \notin Startable
          /\ Release(w)
          /\ UNCHANGED status
    /\ UNCHANGED <<reason, due, cooldown, fails, iters, inst, queue, hook, mishaps, edgeHeld,
                   stuck, workLeaves>>

\* The daily spend cap, asked before the start only.
SpendGate(w) ==
    /\ At(w, "gate")
    /\ IF overCap
         THEN /\ status' = "paused_spend_cap" /\ reason' = "spend_cap"
              /\ Release(w)
              /\ UNCHANGED inst
         ELSE /\ inst' = "in_progress"
              /\ Goto(w, "running")
              /\ UNCHANGED <<status, reason, claimed>>
    /\ UNCHANGED <<due, cooldown, fails, iters, queue, hook, mishaps,
                   edgeHeld, stuck, workLeaves>>

\* How a run can end: done, refused for a reason readiness can or cannot see, or
\* failed in passing.
Outcomes == {"ok", "observable", "edge_only", "transient"}

\* Counters are capped where the code stops telling their values apart.
OneMore(n, m) == IF n < m THEN n + 1 ELSE m

\* The turn ends; unless it aborted, its analysis starts in the background.
RunEnds(w, o) ==
    /\ At(w, "running")
    /\ o = "ok" => ready
    /\ work' = [work EXCEPT ![w] = [pc |-> "final", snap |-> work[w].snap, out |-> o]]
    /\ \/ UNCHANGED hook
       \/ hook = "off" /\ mishaps < MaxMishaps /\ hook' = "on"
    /\ UNCHANGED <<status, reason, due, cooldown, fails, iters, inst, queue, claimed,
                   mishaps, edgeHeld, stuck, workLeaves>>

\* _finalize_job_execution, provider or credentials unusable.
FinalPauses(w) ==
    /\ At(w, "final") /\ work[w].out \in {"observable", "edge_only"}
    /\ status' = "paused_no_quota" /\ reason' = work[w].out /\ inst' = "failed"
    /\ edgeHeld' = (work[w].out = "edge_only" /\ ~OtherWriterInFlight)
    /\ Release(w)
    /\ UNCHANGED <<due, cooldown, fails, iters, queue, hook, mishaps, stuck, workLeaves>>

GivesUp(n) == n >= MaxFails

\* _finalize_job_execution, transient: one more failure than the snapshot says.
FinalFails(w) ==
    /\ At(w, "final") /\ work[w].out = "transient"
    /\ LET n == OneMore(work[w].snap.fails, MaxFails) IN
         /\ fails' = n
         /\ IF GivesUp(n)
              THEN /\ status' = "failed" /\ reason' = "repeated" /\ due' = "none"
                   /\ inst' = "failed" /\ UNCHANGED cooldown
              ELSE /\ status' = "cooling" /\ cooldown' = "on" /\ due' = "later"
                   /\ UNCHANGED <<reason, inst>>
    /\ Release(w)
    /\ UNCHANGED <<iters, queue, hook, mishaps, edgeHeld, stuck,
                   workLeaves>>

\* A success clears the backoff the snapshot knew of.
ClearBackoff(w) ==
    IF work[w].snap.backoff
      THEN fails' = 0 /\ cooldown' = "off" /\ reason' = "none"
      ELSE UNCHANGED <<fails, cooldown, reason>>

\* Success of a job that has no further run.
FinalCompletes(w) ==
    /\ At(w, "final") /\ work[w].out = "ok"
    /\ \/ kind = "one_off" /\ UNCHANGED iters
       \/ /\ kind = "ongoing" /\ work[w].snap.iters + 1 >= MaxIterations
          /\ iters' = MaxIterations
    /\ ClearBackoff(w)
    /\ status' = "completed" /\ due' = "none" /\ inst' = "completed"
    /\ Release(w)
    /\ UNCHANGED <<queue, hook, mishaps, edgeHeld, stuck, workLeaves>>

\* Success of a recurring job: its status is read again before the reschedule.
FinalRecurs(w) ==
    /\ At(w, "final") /\ work[w].out = "ok"
    /\ \/ kind = "scheduled" /\ UNCHANGED iters
       \/ /\ kind = "ongoing" /\ work[w].snap.iters + 1 < MaxIterations
          /\ iters' = work[w].snap.iters + 1
    /\ ClearBackoff(w)
    /\ Goto(w, "check")
    /\ UNCHANGED <<status, due, inst, queue, claimed, hook, mishaps, edgeHeld, stuck, workLeaves>>

\* Stopped in the run: respected.  A scheduled run still completes its instance.
CheckStopped(w) ==
    /\ At(w, "check") /\ status \in InRunStops
    /\ IF kind = "scheduled"
         THEN due' = "none" /\ inst' = "completed"
         ELSE UNCHANGED <<due, inst>>
    /\ Release(w)
    /\ UNCHANGED <<status, reason, cooldown, fails, iters, queue, hook, mishaps, edgeHeld,
                   stuck, workLeaves>>

\* The next fire would land past end_at: the job is done.
CheckHorizon(w) ==
    /\ At(w, "check") /\ status \notin InRunStops /\ ended
    /\ kind = "scheduled" \/ status = "running" \/ due # "none"
    /\ status' = "completed" /\ due' = "none" /\ inst' = "completed"
    /\ Release(w)
    /\ UNCHANGED <<reason, cooldown, fails, iters, queue, hook, mishaps,
                   edgeHeld, stuck, workLeaves>>

\* Mutated CheckRespects: a job that is still RUNNING is left to the analysis.
CheckTrusts(w) ==
    /\ At(w, "check") /\ kind = "ongoing" /\ status \notin InRunStops
    /\ ~ended \/ due = "none"
    /\ Release(w)
    /\ UNCHANGED <<status, reason, due, cooldown, fails, iters, inst, queue, hook,
                   mishaps, edgeHeld, stuck, workLeaves>>

\* An ongoing job whose analysis has already written a status keeps it.
CheckRespects(w) ==
    /\ At(w, "check") /\ kind = "ongoing" /\ status \notin InRunStops \cup {"running"}
    /\ ~ended \/ due = "none"
    /\ Release(w)
    /\ UNCHANGED <<status, reason, due, cooldown, fails, iters, inst, queue, hook,
                   mishaps, edgeHeld, stuck, workLeaves>>

CheckReschedules(w) ==
    /\ At(w, "check") /\ status \notin InRunStops /\ ~ended
    /\ kind = "scheduled" \/ status = "running"
    /\ due' = "later"
    /\ Goto(w, "rearm")
    /\ UNCHANGED <<status, reason, cooldown, fails, iters, inst, queue, claimed, hook,
                   mishaps, edgeHeld, stuck, workLeaves>>

\* The status write that follows does not look again.
Rearm(w) ==
    /\ At(w, "rearm")
    /\ status' = "active"
    /\ inst' = IF kind = "scheduled" THEN "completed" ELSE inst
    /\ Release(w)
    /\ UNCHANGED <<reason, due, cooldown, fails, iters, queue, hook, mishaps,
                   edgeHeld, stuck, workLeaves>>

\* A database call raises: _execute_job fails the job, the finalizer only logs.
WorkerFault(w) ==
    /\ Mishap
    /\ \/ /\ work[w].pc \in {"taken", "gate"}
          /\ Goto(w, "failing")
          /\ UNCHANGED <<claimed, stuck>>
       \/ /\ work[w].pc \in {"final", "check", "rearm"}
          /\ Release(w)
          /\ stuck' = (stuck \/ status = "running")
    /\ UNCHANGED <<status, reason, due, cooldown, fails, iters, inst, queue, hook, edgeHeld,
                   workLeaves>>

\* _handle_job_failure: the database that raised may raise again, which is logged.
FailJob(w) ==
    /\ At(w, "failing")
    /\ \/ status' = "failed" /\ inst' = "failed" /\ UNCHANGED stuck
       \/ stuck' = (stuck \/ status = "running") /\ UNCHANGED <<status, inst>>
    /\ Release(w)
    /\ UNCHANGED <<reason, due, cooldown, fails, iters, queue, hook, mishaps,
                   edgeHeld, workLeaves>>

Worker(w) ==
    \/ Take(w) \/ Acquire(w) \/ SpendGate(w)
    \/ FinalPauses(w) \/ FinalFails(w) \/ FinalCompletes(w) \/ FinalRecurs(w)
    \/ CheckStopped(w) \/ CheckHorizon(w) \/ CheckRespects(w)
    \/ CheckReschedules(w) \/ Rearm(w) \/ FailJob(w)
    \/ \E o \in Outcomes : RunEnds(w, o)

-----------------------------------------------------------------------------
(* The analysis, and the process.                                           *)

hookLeaves == <<kind, reason, cooldown, fails, iters, inst, worldVars, procVars, edge, adm,
                panel, acts, histVars>>

\* handle_job_execution_result: the status a model decided ...
HookWrites(s) ==
    /\ hook = "on" /\ Mishap
    /\ status' = s
    /\ hook' = IF s = "active" THEN "next" ELSE "clear"
    /\ UNCHANGED <<due, hookLeaves>>

\* ... and then the schedule, computed or cleared.
HookSchedules ==
    /\ hook \in {"next", "clear"} /\ hook' = "off"
    /\ IF hook = "next" THEN due' \in NextFires ELSE due' = "none"
    /\ UNCHANGED <<status, mishaps, hookLeaves>>

\* The model answers nothing, or a write fails.
HookGivesUp ==
    /\ hook # "off" /\ hook' = "off"
    /\ UNCHANGED <<status, due, mishaps, hookLeaves>>

Crash ==
    /\ up = "yes" /\ Mishap
    /\ up' = "boot" /\ queue' = <<>> /\ claimed' = FALSE /\ poll' = "idle"
    /\ seen' = NoSnap /\ work' = [w \in Workers |-> IdleWork] /\ hook' = "off"
    /\ UNCHANGED <<rowVars, worldVars, edge, adm, panel, acts, histVars>>

\* Mutated Interrupted: a recurring job is left to its schedule.
InterruptedOnce == status = "running" /\ kind = "one_off"
Interrupted == status = "running"

\* recover_all_running_jobs: the RUNNING rows are selected, ...
RecoverReads ==
    /\ up = "boot" /\ up' = IF Interrupted THEN "recovering" ELSE "yes"
    /\ stuck' = FALSE
    /\ UNCHANGED <<rowVars, worldVars, queue, claimed, poll, seen, work, sideVars, countVars,
                   held, exposed, edgeHeld, unlifted>>

\* ... and made to fire at once, whatever they say by now.
RecoverWrites ==
    /\ up = "recovering" /\ up' = "yes"
    /\ status' = (IF kind = "one_off" THEN "pending" ELSE "active") /\ due' = "now"
    /\ UNCHANGED <<kind, reason, cooldown, fails, iters, inst, worldVars, queue, claimed,
                   poll, seen, work, sideVars, countVars, histVars>>

World == FireComes \/ CooldownElapses \/ HorizonPasses \/ Blocks \/ Unblocks
Analysis == HookGivesUp \/ HookSchedules
            \/ \E s \in {"completed", "active", "failed"} : HookWrites(s)

Next ==
    \/ World \/ Owner \/ Admin \/ EdgeReads \/ EdgeWrites \/ Poller
    \/ \E w \in Workers : Worker(w) \/ WorkerFault(w)
    \/ Analysis \/ Crash \/ RecoverReads \/ RecoverWrites

Spec == Init /\ [][Next]_vars

\* The poller loops for ever, workers and background tasks are coroutines that run
\* on, a run ends (its timeouts), a request is served and a supervisor restarts the
\* process.  Nothing is assumed of the owner, the provider, faults or crashes.
Fairness ==
    /\ WF_vars(FireComes) /\ WF_vars(CooldownElapses)
    /\ WF_vars(Poller) /\ WF_vars(RecoverReads) /\ WF_vars(RecoverWrites)
    /\ WF_vars(\E w \in Workers : Worker(w))
    /\ WF_vars(SuspendPauses \/ ReinstateSelects \/ ReinstateJudges \/ ReinstateResumes)
    /\ WF_vars(EdgeWrites) /\ WF_vars(Analysis)

FairSpec == Spec /\ Fairness

-----------------------------------------------------------------------------
(* Properties.                                                              *)

Snapshots == [fails : 0 .. MaxFails, backoff : BOOLEAN, iters : 0 .. MaxIterations]
Places == {"idle", "taken", "gate", "running", "final", "check", "rearm", "failing"}

RowType ==
    /\ kind \in Kinds /\ status \in Statuses /\ reason \in Reasons
    /\ due \in {"none", "later", "now"} /\ cooldown \in {"off", "on", "over"}
    /\ fails \in 0 .. MaxFails /\ iters \in 0 .. MaxIterations
    /\ inst \in {"active", "in_progress", "completed", "failed"}
    /\ account \in {"active", "banned"} /\ up \in {"yes", "boot", "recovering"}
    /\ poll \in {"idle", "quota", "capped", "cooled", "zombie", "due", "ban"}
    /\ adm \in {"idle", "pausing", "resuming", "selected", "lifting"}
    /\ hook \in {"off", "on", "next", "clear"} /\ panel \in {"idle", "pause", "cancel", "resume"}
    /\ acts \in 0 .. MaxOwner /\ mishaps \in 0 .. MaxMishaps

FlagType ==
    /\ ended \in BOOLEAN /\ ready \in BOOLEAN /\ overCap \in BOOLEAN
    /\ claimed \in BOOLEAN /\ edge \in BOOLEAN
    /\ held \in BOOLEAN /\ exposed \in BOOLEAN /\ edgeHeld \in BOOLEAN
    /\ stuck \in BOOLEAN /\ unlifted \in BOOLEAN

Works == [pc : Places, snap : Snapshots, out : Outcomes \cup {"none"}]
ProcType == queue \in Seq(Snapshots) /\ seen \in Snapshots /\ work \in [Workers -> Works]

TypeOK == RowType /\ FlagType /\ ProcType

\* A job runs at most once at a time, although its row may leave and re-enter
\* "running" while it runs (the owner, the analysis and the scans write it): the
\* claim in _running_jobs and the conditional acquire do it together.
Executing == {"gate", "running", "final", "check", "rearm"}
AtMostOneRun ==
    \A v, w \in Workers :
        work[v].pc \in Executing /\ work[w].pc \in Executing => v = w

\* Nothing of a run outlives it: the job is in _running_jobs only while it is queued or
\* a worker has it, else it is never enqueued again; and its row is RUNNING only while
\* a worker has it, or until a restart that is due recovers it, else no query sees it
\* again (_worker, _finalize_job_execution, recover_all_running_jobs).
NothingLeaks ==
    /\ claimed => queue # <<>> \/ \E w \in Workers : ~At(w, "idle")
    /\ status = "running" =>
          \/ stuck \/ up # "yes"
          \/ \E w \in Workers : work[w].pc \in Executing \cup {"failing"}

\* A stop said while no other writer had read the row holds: whatever scan, edge,
\* reinstatement, restart or queued snapshot comes later, the job is not live again
\* until the owner wakes it (pause_job, cancel_job).
StopHolds ==
    held /\ ~exposed => status \notin Startable \cup {"running", "cooling"}

\* A job paused for a reason only the owner can clear is not re-armed by a scan:
\* readiness would say yes and the run fail again, for ever
\* (_resume_eligible_no_quota_jobs).
EdgeOnlyWaits == edgeHeld => status \notin Startable \cup {"running", "cooling"}

\* Once a reinstatement is through, no job is left paused for the suspension, but
\* for one that was stopped by its owner as well, that a failing reinstatement left
\* behind, or that the poller, having read the ban, paused after the account was
\* active again (reinstate_user).
ReinstateRestores ==
    account = "active" /\ adm = "idle" /\ ~unlifted /\ ~held => ~SuspensionPaused

\* A job that may start does start or leaves the waiting statuses, and a cooled one
\* fires again: it never waits for ever.  A one_off without a run_at is the
\* exception: nothing heals it.
Waiting ==
    /\ status \in Startable \cup {"cooling"}
    /\ kind # "one_off" \/ due # "none"
WaitEnds == []<>~Waiting

\* A job does not stay "running" once its run is over, unless its finalizer raised:
\* that one waits for a restart, and the restart recovers it.
RunningEnds == []<>(status # "running" \/ stuck)

\* Once the provider works, the spend is below the cap and the account is active
\* for good, a job the platform paused for one of these is live again or ended.
BlockedByPlatform ==
    \/ status = "paused_spend_cap"
    \/ status = "paused_no_quota" /\ reason # "edge_only"
BlocksLift ==
    <>[](ready /\ ~overCap /\ account = "active") => []<>~BlockedByPlatform
=============================================================================
