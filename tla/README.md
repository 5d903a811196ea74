# NarraNexus in TLA+

A verification development of the parts of NarraNexus in which the hard bugs
are concurrency bugs: the delivery of messages to agents, the circuit breaker
that decides whether an agent may run, the job scheduler, the runs of a trigger
tree with their stop and their rows, the database proxy all processes share, and
the admission of runs against the reaper of the containers they run in.  It holds TLA+ models translated from the source, TLC configurations that
check them on small instances, and theorems about them that TLAPS checks for
every value of the constants.  `PROJECT.json` says, definition by definition, which lines of the
source a definition translates.

    tlc -workers 4 -config lane_faults.cfg MCBusLane     # one run
    tlapm BusLaneProofs.tla                              # the proofs of one module

## 1. Inventory

NarraNexus runs long-lived AI agents.  A deployment is several processes (web
backend, trigger workers, MCP tool servers, executors) around one relational
database; there is no broker, so queues, cursors, claims and cancellations are
rows, and most guarantees rest on the order in which `await`ed statements of
different processes interleave.

| Component | State it keeps | Operations | What is hard | Module |
|---|---|---|---|---|
| **Message bus lane** (`message_bus/local_bus.py`, `message_bus_trigger.py`) | `bus_messages`; per member and room `last_processed_at`, `last_read_at`; `bus_message_failures`; in memory `_InFlight` per lane and the rate counters | send, poll, dispatch, handle a batch, record failure, retry, the module's `after_turn` hook | two cursors moved by several writers; delivery is a cursor comparison on a timestamp taken before the INSERT | `BusLane` |
| **Live steering** (`steer_channel.py`, `run_registry.py`, `steer_inbox_repository.py`, `remote_driver.py`) | `steer_inbox`; per run a queue and a map of unconsumed messages | push, transport, consumption report, orphan reclaim | a message is pushed into a turn that may be ending; the POST may be lost; acks come from the report | `BusLane` |
| **Circuit breaker** (`agent_framework/loop/circuit_breaker.py`, its repository) | one row per agent: status, streak, category, deadline, probe token, probe run | should_skip, try_begin_probe, bind, record_failure / success, settle, release, reset | several entry points compare-and-swap one probe; ordinary writes are read-then-write | `CircuitBreaker` |
| **Job scheduler** (`builtin.job`, `job_repository.py`) | `instance_jobs` rows; in memory the queue of snapshots and `_running_jobs` | scan, queue, acquire, run, finalize, recover; pause, cancel, resume, suspend | a dozen writers of one status, most of them read-then-write; a row that leaves "running" while it runs | `JobSchedule` |
| **Run records** (`run_recorder.py`, `background_run.py`, `run_liveness.py`) | `events` rows: state, heartbeat | start, bind, beat, finalize, sweep | the sweep against a live run, a slow or a lost finalize | `RunTree`, `RunLife` |
| **Cancellation** (`routes/runs.py`, `cancel_watcher.py`, `cancellation.py`) | `root_run_id`, `cancel_requested_at` of a tree of runs; tokens in memory | request, flag, watch, cancel; the filter of the pending query | a stop against the end of the run, and against children being born | `RunTree` |
| **Database access** (`utils/db/*`) | the proxy's transaction slot, its one connection, the backend's flag and locks | begin, write, commit, rollback, watchdog | every process shares one connection; writes of several against a transaction of one | `TxnProxy` |
| **Admission and executor reaper** (`admission.py`, `executor_reaper.py`, `broker_client.py`) | slot counters, wait queue and idle stamps, per process; containers, behind the broker | acquire, release, claim idle users, restamp, ensure and stop executor | a run starts while its executor is being reaped or replaced; a wait that nobody wakes; a stamp that is lost | `ExecutorPool` |
| **Channel ingress** (`channel/*`) | seen-message rows, debounce buffers, credentials | classify, debounce, dispatch | redelivery under the same or a new id | - |
| **Multipart, patrols, errands, wake signal** (`message_bus/*`) | part groups, patrol leases, one wake row | assemble, patrol, bump, wait | a group cut by a batch edge; a bump lost between read and sleep | - |
| **Plugin kernel** (`kernel/plugins`, `kernel/events`) | plugin states, slot bindings, hooks | load, activate, disable, unload | order of activation, a failing plugin | - |
| **Background services** (`services/*`, `module_poller.py`) | leases and marks; instances and the jobs they unblock | poll, complete, activate, consolidate | two pollers; a completion seen twice, or by nobody | - |
| Turn pipeline, narrative, memory, artifacts, web API, front ends, packaging | content | - | not concurrency: left out | - |

How they interact.  A **sender** inserts a message and bumps the wake row.  The
**poll loop** finds lanes with messages past the cursor and either starts a
**turn** (subject to breaker, rate limiter, admission) or, when a team room's
turn is live, **steers** the new messages into its run.  The turn ends in an
ack of its trigger or a failure record; the failure record parks the message at
its third failure, and the owner can retry it.  The breaker, which every entry
point asks, sees the same outcomes.  **Jobs** start turns as well, from a table
that the trigger process polls and that the owner, the agent's own tools, the
provider settings and the administration write.  Every turn, of a lane, a job or
a chat, has a row in `events`; what a turn sends carries the label of the tree it
belongs to, so that one **stop** reaches the whole tree, and the backend
**sweeps** the rows of turns that died.  All of it is rows behind the
**database proxy**.

What makes each component correct:

* lane: nothing addressed to an agent is skipped silently; a failing message is
  retried until parked; the read cursor passes only what was shown; every
  message is settled eventually;
* steering: no message twice in one run; what a run was handed and did not
  read stays pending; rows of a dead run are reclaimed;
* breaker: one probe decides, it is claimed only when its delay has elapsed,
  only its holder ends it, a pause is never a dead end;
* jobs: one run at a time, a stop holds, a job waits only for what can still
  come, nothing stays "running" for ever;
* runs: a row tells what its run did, the sweep judges only the dead, no row is
  left running;
* cancellation: a stopped tree wakes nobody, a stop reaches the process that
  holds the token;
* database: a transaction is whole or absent, an answered write is kept, a dead
  client blocks nobody for ever;
* admission and reaper: a waiting run starts when it may, no container is taken
  from a run that could be seen, an idle one is not forgotten.

The hazards the code is exposed to are listed, with the line where each bites
and the properties that watch it, in `PROJECT.json`.

## 2. Modules

| Module | Contents |
|---|---|
| `BusLane` | the lane and its live run: state, actions, properties, fairness |
| `Mailbox` | what a lane promises to those who write to an agent: the abstract specification `BusLane` implements |
| `BusLaneInv` | the inductive invariant `IInv` of the lane, in named parts |
| `MCBusLane` | constants for the runs of the lane, and what a comment of the repository claims of it |
| `SetOrder` | least and greatest element of a finite set of naturals; `Min` and `Max` by their defining property |
| `BusLaneProofs` | the theorems about the lane |
| `BusLaneRunProofs` | the theorems about the run of a lane, its inbox, the floor of its acks, the retries of a DM and the read cursor of a team room, and the step simulation of `Mailbox` |
| `CircuitBreaker` | the breaker of one agent: its row, the turns that read and write it, the sweep, the owner |
| `MCCircuitBreaker` | constants for its runs |
| `CircuitBreakerProofs` | the invariant of the breaker and the theorems about it |
| `JobSchedule` | one job's row and everything that writes it |
| `MCJobSchedule` | its instances, and what the repository says of a stopped job |
| `JobScheduleProofs` | the invariant of the schedule and the theorems about it |
| `RunTree` | the runs of a trigger tree, their rows, the sweep and the stop |
| `RunLife` | what the row of a run promises its readers: the abstract specification `RunTree` implements |
| `MCRunTree` | its instance |
| `RunTreeProofs` | the invariant of the tree, its theorems, the step simulation of `RunLife` |
| `TxnProxy` | the SQLite proxy: one connection, transactions, plain writes, the watchdog |
| `MCTxnProxy` | its instances, and what the proxy's comment says of a foreign write |
| `TxnProxyProofs` | the invariant of the proxy and the theorems about it |
| `ExecutorPool` | runs, slots, containers and the reaper, in two processes |
| `MCExecutorPool` | its instance |
| `ExecutorPoolProofs` | the invariant of the pool and the theorems about it |

`BusLane` sees the breaker as a gate that may be open or shut (`breaker`,
`BreakerGate`, `ProbeRefused`); `CircuitBreaker` is what is behind that gate.
`RunTree` sees a lane as a message that is pending, in flight or done (`Fetch`,
`Ack`); `BusLane` is what is behind that, and sees the stopped trees of `RunTree`
as the rows of `InTree`.  `ExecutorPool` is what is behind the start of a turn in
`CircuitBreaker` (`StartRun`) and `RunTree`, and sees a run only as a slot, a row
and a container.  All of them take a database statement as one step;
`TxnProxy` is what is behind a statement.

Each component module may carry, just before a definition, a *mutated* twin
("Mutated X: ..."): the same definition with a plausible bug.  No specification
uses them; `PROJECT.json` pairs each with the property that must catch it.

### 2.1 BusLane: one channel, one agent

Lanes do not share state but for the breaker and the worker slots, so one lane
is the whole system as far as delivery is concerned.  A message *is* its
`created_at`, a number; `kind` says what the row is to this agent: `addressed`
(`_should_process_message` holds), `chatter` (room talk it is not mentioned in)
or `own`.  Two rows of equal timestamp are not modelled.

| Variables | Code |
|---|---|
| `kind writing log stopped` | rows of `bus_messages`: stamped, inserted, in a stopped tree |
| `cursor readCursor fails` | `last_processed_at`, `last_read_at`, `bus_message_failures.retry_count` |
| `rows` | unconsumed rows of the current run in `steer_inbox` |
| `pc outcome probe batch trig renderedFrom` | locals of `_process_lane` / `_handle_channel_batch` between two awaits |
| `renderedThrough steeredThrough unsteeredGap` | fields of `_InFlight` |
| `registered pushed taken acked dropped reporting consumed` | `RunRegistry`, the `SteerChannel`, the transport and its reports |
| `rpc rmsgs rtodo` | the poll loop inside `_route_steer` |
| `admitted breaker` | the rate limiter's counter, the breaker as a gate |
| `hookMark` | the background hook of a turn that wrote to the channel, between `get_unread` and `mark_read` |
| `crashes faults retries trips replies` | bounds |
| `shown handled rateDropped parked late hidden unquoted undelivered overflow orphaned` | history variables, never read by an action |

What lies between two awaits is one action; a handler with five awaits is five
actions, with a `pc`.  Every database call that the code guards by a `try` can
fail (`MaxFaults`), at the place where the code catches it: the report's first
or second write, the read ack, the reclaim, the failure record, any call of a
steer cycle.  `Crash` restarts the trigger process: memory goes, rows stay.

`AfterTurnReads` and `AfterTurnMarks` are `MessageBusModule.after_turn`, which
the turn pipeline starts in the background after every turn of the agent, the
owner's chats included; it marks a room read when the turn spoke in it.
`MaxReplies` bounds such turns.  `Unread` is the whole unread list of the lane.

What a prompt shows (`shown`) is the scrollback and the asks it quotes.  A team
prompt quotes asks only when it answers two or more (`Quoted`); the text of a
single one is taken to stand in the scrollback.  The unread list that the module
adds to a context does not count as showing: it holds the newest few messages
over all channels.

`Mailbox` says what the senders rely on: a turn serves one letter, one that waits
and is not parked; a letter is passed once and for good, and only when it was given
to the agent, excused by a rule, or parked; a turn that fails gives its letter back
and passes nothing.  `BusLane` implements it (`KeepsMailbox`) with

    stage   <- of an addressed row: above the cursor "waiting", else "passed"
    given   <- shown
    excused <- the rows that any other disjunct of NoSilentLoss accounts for (LeftOut)
    serving <- trig
    tries   <- fails
    parked  <- parked, a history: a retry by the owner does not undo a pass

`EventuallySettled` is the liveness that goes with it.

Left out of the lane, with the reason: multipart assembly (a DM batch is held
as a whole, no cursor moves), legacy IM channels (they ack without a turn),
receipts and notices (they follow the acks; that they may raise is modelled),
the oversize `ValueError` of an append (one of the failures of `RouteFails`),
retention of consumed rows, patrol and errand turns.

### 2.2 What the runs of the lane show

| Run | Instance | Shows |
|---|---|---|
| `lane_faults` | team, 3 messages of all kinds, 2 senders, scrollback 1, 1 fault | `NoSilentLoss`, `UnconsumedStaysPending`, `ReadOnlyIfShown`, `RowsReclaimed` |
| `lane_dm` | DM, 3 messages, LIMIT 2, a stop, 1 breaker trip, 1 background hook | `RetriedUntilParked` |
| `lane_live` | team, 2 messages, scrollback 3, 1 crash, 1 retry by the owner, `FairSpec` | `NoDoubleInjection`, `KeepsMailbox`, `EventuallySettled`, `ReadConverges` |
| `claim_steering` | team, 4 addressed messages, scrollback 1 | a claim of the repository is refuted, see section 4 |

Why the bounds are enough.  Three messages give the trigger, the steer and the
message between or behind them, in every order of landing; two senders give
every inversion of stamp and insert; a scrollback of one row is already shorter
than a backlog of two; a threshold of two reaches "failed once, retried,
parked"; one fault places a failure at each write, since all of them are
guarded separately.  A read-cursor jump takes a trigger, a steer and a message
between or behind them.  A second injection takes a run that is alive while two
steer cycles read the same two messages, which `lane_live` has.  The runs stop
when all messages are settled, so deadlock is not checked.

Fairness (`FairSpec`): the poll loop cycles and each of its awaits returns; a
turn's awaits return and the run ends (the run layer's idle and hard watchdogs
end it); a tripped breaker closes or half-opens when its deadline elapses; an
INSERT that was issued lands.  Nothing is assumed of senders, of the owner, of
crashes or faults.  `ReadConverges` needs the scrollback to cover the backlog:
with a shorter one the code holds the read cursor back on purpose.  It also
excepts a trigger that dies between the ack and the read ack: no later turn
repeats the latter until the room speaks again.  `ReadOnlyIfShown` and
`ReadConverges` are promises of the trigger, so their runs have no hook
(`MaxReplies = 0`); section 4 says what becomes of them with one.

### 2.3 CircuitBreaker: one agent

The breaker is one row per agent in `instance_agent_circuit_breaker`.  `row` is
that row: `status` (`cb_status`), `count` and `cat` (the failure streak),
`token` (`probe_token`), `run` (`probe_run_id`), `wait` (whether
`cooldown_until` has passed).  A missing row and a clean one gate nothing and
are one state.

| Variables | Code |
|---|---|
| `row` | the row |
| `pc`, `read` | where a turn is between its entry point and its report, and the row it read last (`GateVerdict.row`, the local `row` of a report) |
| `claims`, `outcome` | the turns that carry a probe token, how each turn ended |
| `recorded` | its `events` row: none, running, final |
| `sweep`, `orphan` | `sweep_stale_runs` inside `release_orphaned_probe` |
| `crashes`, `faults`, `resets` | bounds |

A token is fresh at every claim; it is modelled by the turn that drew it, and a
turn's slot is reused for a later turn only when no row, read or sweep
remembers its token.  Statements on the database are separate actions: the
gate's read, the claim's compare-and-swap, the run row, the bind, the read and
the write of a report, the read and the write of the sweep.  `Triggers` are
turns behind `AgentRuntimeClient`, which settle probes only (`settle_probe`
reads the row before the report does); `Ungated` ones may start past the gate.
`EndTurn` may happen before the run row exists, as when admission is cancelled.

Left out, with the reason: the length of delays (a deadline passes at some
time), the classification of error texts (`Categories`, and `exempt` for the
exempt classes), alerts, `peek_skip` (it only reads), the choice of the agents
that an owner's reset covers.  A process that is suspended and comes back is
not modelled: the heartbeat of a live turn is fresh, that of a dead one is not.

| Run | Instance | Shows |
|---|---|---|
| `breaker_safe` | 2 turns, a trigger's and one that may be ungated, threshold 2, streaks to 3, 1 crash, 1 reset | `ClaimIdentity`, `PauseIsEarned`, `Ladder`, `ClaimKept` |
| `breaker_live` | 2 turns, threshold 1, 1 crash, 1 failing write, `FairSpec` | `ClaimsEnd`, `PauseEnds` |

Why the bounds are enough.  Slots are reused without a bound, so two of them
give any sequence of turns of which two overlap; a threshold of two with
streaks to three has a pause, a failed probe and a re-pause; the theorems of
section 3 hold for any number.

Fairness: every await of a turn, of its report and of the sweep returns, a turn
ends, deadlines pass; gated turns keep arriving, and not every one of them is
given up between its gate and its claim (strong fairness of `TryBeginProbe`:
its callers, a poller and user requests, come again after a refusal).  Nothing
is assumed of crashes, failing writes or the owner.

### 2.4 JobSchedule: one stored job

A job is one row of `instance_jobs`; jobs share the workers and the provider,
not their rows, so one row with every writer of it is the unit.

| Variables | Code |
|---|---|
| `kind status reason due cooldown fails iters` | `job_type`, `status`, `pause_reason`, `next_run_time`, `cooldown_until`, `consecutive_failures`, `iteration_count` |
| `inst` | `module_instances.status` of the job's instance |
| `ended ready overCap account` | the horizon `end_at`, `classify_provider_for_user`, the day's spend, `users.status` |
| `queue claimed poll seen work up` | the asyncio queue of snapshots, `_running_jobs`, where the poller is and what it read, the workers, the process |
| `hook edge adm panel` | writers elsewhere in mid-step: the analysis of a finished run, a provider edge, a suspension or a reinstatement, a request of the owner |
| `acts mishaps` | bounds |
| `held exposed edgeHeld stuck unlifted` | history variables |

`status` is written by the poller's four scans, the worker, the finalizer, the
analysis, the owner's panel, the agent's tools, the suspension and the restart;
most of them read the row, await, and write without a condition.  A read and the
write that rests on it are two actions: `ScanReads` and `ResumeNoQuota`,
`ResumeCapped`, `RearmCooled`, `HealZombie`; `DueReads` and what follows;
`EdgeReads` and `EdgeWrites`; `PanelReads` and `PauseJob`, `CancelJob`,
`ResumeJob`; `ReinstateSelects`, `ReinstateJudges` and `ReinstateResumes`, which
looks again before it writes; `RecoverReads` and `RecoverWrites`; the steps of a
worker.  The analysis writes the status and then the next fire (`HookWrites`,
`HookSchedules`), with whatever lies between.  One action is left to two writes
that one handler issues in a row to columns nobody reads apart: the next fire and
the status of a resume and of a recovery, the job and its instance when it is
completed past its horizon.  One analysis and one request of the owner are under
way at a time.  Writes that the code swallows may fail: the finalizer's
(`WorkerFault`, a mishap), and, as often as there is occasion, the failure
handler's (`FailJob`), a suspension's (`SuspendPauses`) and a reinstatement's
(`ReinstateFails`).  What a queued
snapshot still says of the row when it is run (`Snapshot`) is kept with it.
Time is abstract: a fire is absent, later or now; a cooldown is off, on or over.

Left out: creation and the chain of jobs that wait for others (`JobChain` of the
plan), the chat hook that touches ongoing jobs, prompts and delivery, the choice
of jobs by several principals.

Run `job`: 2 workers, a one-off or an ongoing job with two iterations, two
failures to give up, one act of the owner and one mishap of any kind (a
suspension, an analysis that writes, a database error, a restart, an outage, a
horizon passed).  It shows `NothingLeaks`, `AtMostOneRun`, `StopHolds`, `EdgeOnlyWaits`,
`ReinstateRestores` and, under fairness, `WaitEnds`, `RunningEnds`, `BlocksLift`
(stated as `[]<>`: the job is again and again not waiting, which says of a state
predicate what `P ~> ~P` says).
Two workers are what a second run of a job takes; one act and one mishap already
meet every read-then-write pair, since each hazard is one foreign write into one
such gap; the theorems hold for any number of each.  A scheduled job differs from
an ongoing one only at the end of a run (`FinalRecurs`, `CheckStopped`, `Rearm`)
and is in the proofs but not in the instance.  Deadlock is not checked:
a finished job with the bounds used up has nothing left to do.

Fairness: the poller loops, coroutines go on, a run ends (its timeouts), a
request is served, a supervisor restarts the process.  Nothing of the owner, the
provider, faults or crashes.

What the properties except is what the code does not do: `StopHolds` speaks of
stops said while nobody had read the row (`exposed`; section 4 has the other
case), `WaitEnds` excepts a one-off without `run_at`, which nothing heals,
`RunningEnds` a job whose finalizer or failure handler raised, which waits for a
restart, and `ReinstateRestores` a job that a failing reinstatement left behind or
that the poller paused with a ban it had read before (`unlifted`).

### 2.5 RunTree and RunLife: runs, their rows, and the stop

A tree is what one root run sets off: the agents it writes to are woken by its
messages and write on, and all of their rows carry the root's label.

| Variables | Code |
|---|---|
| `msg lab` | the messages of the trees and the label they carry (`root_run_id` of the sender) |
| `proc woke out` | the coroutine that drives a run, the message that woke it, how it ended |
| `token watched` | its `CancellationToken`, the registry of `CancelWatcher` |
| `state label flag beat` | the `events` row: state, `root_run_id`, `cancel_requested_at`, `last_event_at` fresh or stale |
| `void` | the rows whose `cancel_requested_at` is older than their `started_at` |
| `stopper` | the request in `cancel_run`: the runs that had started when it drew its stamp, rows to flag, whether any was |
| `sweep` | the verdicts `sweep_stale_runs` has yet to write |
| `chat acts mishaps` | whether run 1 is a chat, driven by the backend; bounds |
| `stalled lost raced answered` | history variables |

There are two processes, the workers and the backend, and either may restart at
any point: its runs, its requests and its registry die, rows stay.  `Stall` is a
live run whose heartbeat does not come through for three beats, the one way to
be taken for dead while alive.  Every write of the recorder that the code wraps
in a `try` may be lost (`Bind`, `Finalize`, `SweepWrites`, `StopFlags`).

A stop is four steps: it reads the clicked row, draws its stamp (`StopStamps`),
selects the running rows of the tree (`StopSelects`), and flags them one by one
(`StopFlags`), keeping a stamp that is there.  The watcher honours a stamp only if
the run had started when it was drawn (`StopApplies`); a run that flips to running
between the stamp and the select is flagged with one it refuses.  A run's
`started_at` is drawn with its flip; a run that draws it earlier and flips late is,
to a stop, one that flips early.  One stop is under way at a time.

`RunLife` says what the readers of a row rely on: it appears, settles once, is
called cancelled only if somebody asked, and once asked does settle; a run that
was suspected dead while alive may be judged twice, and a run nobody listens for
is not reached.  `RunTree` implements it (`KeepsLife`) with

    life    <- state, the time before the row runs read as "unseen"
    asked   <- the row is flagged or the token is set
    deaf    <- the chat run, whose token no watcher holds, and the rows in void
    suspect <- stalled

Run `tree`: 2 runs, 2 messages, one stop, one mishap of any kind, rooted in a
chat or in a message: `FlightIsDriven`, `VerdictStands`, `TreeStaysStopped` and, under fairness,
`StopLands`, `OrphansSettle` and `KeepsLife`.  Two runs are a parent and a child,
or one run and its second life after a restart; the stop may meet either, in any
state.  The safety parts are proved for any number.  `StopLands` and `KeepsLife`
except the runs in `void`; `StopReachable`, a theorem, says that no others are out
of reach of a stop, and section 4 what becomes of these.

Fairness: the watcher polls every second, a run meets its next checkpoint once
its token is set, the sweep repeats, a request is served, writes return.  No
turn is assumed to end by itself.

### 2.6 TxnProxy: the shared connection

On SQLite one process holds one connection and every other process is a client
of it over HTTP.  Clients are of three kinds: `Txns` run a transaction of
`NSteps` writes, `Plain` ones send one write, `Loose` ones send one write on the
read path (`execute` with `fetch` left at True), as two places of the code do.

| Variables | Code |
|---|---|
| `holder late` | `_active_txn`, whether `_txn_deadline` has passed |
| `slot good` | the transaction statement under way under `_state_lock`, and how it went |
| `inTxn` | `SQLiteBackend._in_transaction` |
| `result ahead` | how the write under way under `_write_lock` went; which of the two was issued first |
| `conn pend disk` | whether the connection is in no transaction, one the driver opened or one BEGIN opened; its writes; the file |
| `at step` | where each client is |
| `mishaps` | bound |
| `folded intruded stray broken dropped` | history variables |

The connection's thread runs statements in the order they were issued and the
event loop resumes their callers in that order, so a statement takes effect when
it is issued and its caller goes on in a later step; `ahead` keeps the order of
the two that can be under way at once.  `_await_txn_turn` is asked once, before
the write lock (`Send`); what waits behind the lock or sleeps before a retry is
not asked again (`Resume`).  BEGIN is refused while the driver has a transaction
open, and `Loose` writes leave one open.  The watchdog rolls back a transaction
whose deadline has passed, whether its client is dead or slow; a slow one goes on
with a token that is nobody's.  Failing statements, "database is locked" and
its retry, a COMMIT or a ROLLBACK that fails (of a client's or the watchdog's: the
slot is free, the flag stays), dead clients and restarts are mishaps.

Left out: the MySQL pool, SQL translation, schema migrations, and a client that
gives up on a request after 30 s while the proxy still serves it.

| Run | Instance | Shows |
|---|---|---|
| `proxy` | 2 transactions of 2 writes, a plain writer, a loose one, 2 mishaps, `FairSpec` | `NoWaitCycle`, `FlagMatches`, `AllOrNothing`, `FoldedWaited`, `AckedDurable`, `WritesAnswered` |
| `claim_fold` | 1 transaction of 1 write, 2 plain writers | a claim of the repository is refuted, see section 4 |

Two transactions of two writes have a body that can be cut in the middle and a
transaction that begins behind it; a plain writer and a loose one are the two
ways of getting in between; two mishaps pair a failure with its consequence
(a failed commit and a dead client, an expiry and a restart).

Fairness: a live client goes on with its request or its transaction, statements
return, the watchdog passes, and the deadline of a client that died comes.
`WritesAnswered` asks nothing of failures.

### 2.7 ExecutorPool: slots, containers, and the reaper

In the cloud each user has one container, behind a broker; backend and workers
both drive runs in it.  Each process admits its own runs; the reaper runs in the
backend and stops the containers of users it saw go idle.

| Variables | Code |
|---|---|
| `at` | where a run is: waiting or woken in `acquire`, admitted, recorded, asked, ensured, looping, closing, closed |
| `row` | its `events` row as `run_is_live` sees it |
| `may` | the verdict it carries to the broker, `allow_stale_replace` |
| `total active stamp` | `_global`, `_per_user`, by process; `_idle_since` of the backend: young, or past the TTL |
| `pass cand same clear todo cur` | `claim_idle_users` between its two looks and the loop of `reap_once` between recheck and stop |
| `cont low` | the container (none, on the new image, on an old one) and the free memory: external |
| `mishaps` | bound |
| `memHeld late owed` | history variables |

A run waits for its slot (`Acquire`), writes its running row (`Record`), asks
whether another run of its user is live (`Ask`), has the broker ensure the
container, replacing a stale one if the answer was no (`Ensure`), opens the stream
of its loop (`Connect`), gives the slot back (`Release`, which wakes every waiter
of its process and leaves a stamp when its user went idle), and writes its terminal
row (`Finalize`).  A pass of the reaper reads the stamps that are due
(`ClaimStarts`), asks the events table about each user outside the lock (`Judge`),
takes those whose stamp has not changed (`ClaimEnds`), and for one after the other
asks again (`Recheck`) and calls the broker (`Stop`), which refuses while a loop
streams.  A check that fails or is not started says busy; a user that was claimed
and not stopped is stamped again.  Idle stamps of the workers are kept by nobody
and read by nobody, so they are left out.

Mishaps are failing calls and writes, a refusal for a holder without a run (a
watch session), a restart of either process, a new image, low memory.  Left out:
the length of budgets, tallies and audit rows, the kill switch of run recording
(with it every check fails), a waiter that is cancelled, the executor-less modes.
`/health` and the stop that follows it are one step of the broker: what lies
between them is code of another repository's process.

Run `pool`: 3 runs, 2 of one user in either process and 1 of another in the
backend; one user admitted at a time, one loop per user; one mishap; `FairSpec`.
It shows `CapsKept`, `OneReplacer`, `CutOnlyUnseen` and, under fairness,
`QueuedAdmitted` and `IdleReclaimed`.  Two runs of a user in two processes are what
a race for its container takes; the third waits behind the first, for the cap or
for the memory.  A run starts once, so a second life of a user is its other run's.
Two mishaps give the same verdicts (308,223 states), in more time than a run has.

Fairness: a process goes on with the runs it has, a loop ends, the reaper passes at
its interval and its calls return, time goes by, memory that is low recovers.  A run
need not start.  Refusals for a holder without a run count as mishaps, so
`IdleReclaimed` is about finitely many of them: a document left open in a browser
refuses for as long as it is open, and the code says so (executor_service.py:212-219).
`QueuedAdmitted` excepts a run last refused for memory alone and
`IdleReclaimed` speaks of users the backend saw go idle; section 4 says why.

## 3. Proofs

`BusLaneProofs` proves, for every number of messages and senders, every batch
limit, scrollback length, threshold, cap, and any number of faults, crashes,
retries, breaker trips and hooks:

* `TypeCorrect`: `Spec => []TypeOK`;
* `NoMessageLost`: `Spec => []NoSilentLoss`;
* `Inductive`: `Spec => []IInv`, from which both follow.

The only assumption is `ConstantsAssumption` of `BusLane` (types of the
constants, limits at least one).

Why `NoSilentLoss` is not inductive.  A cursor write is computed from what was
read some awaits earlier: from the batch (`RateLimited`, `SkipUnaddressed`), the
trigger (`AckTrigger`), a report (`AckConsumed`), or the chatter of a steer
cycle (`RouteAckChatter`).  `IInv` states for each of these what it has promised.
`Settled(ts, S)` says that every addressed row up to `ts` is accounted for or
in `S`; then

* `BatchInv`: the batch was complete below each of its members;
* `RenderedInv`: once the prompt is built, everything up to the watermark is
  settled;
* `PushedInv`: the queue has no holes: what lies below a pushed message is
  settled or was pushed earlier, so an ack of the first n taken skips nothing;
* `RoutedInv`: what a steer cycle read is complete below its newest member;
* `ParkedInv`: the poison filter hides only parked messages;
* `Exclusion`: a steer cycle never overlaps the preparation of a turn, because
  one poll loop starts both.

The proof has one lemma per part of `IInv`, and under it one step per action
that can disturb the part; frame lemmas (`CursorFrame`, `RunFrame`, ...) dispose
of the other actions.  The subtle cases are a late insert (the row is in
`late` at once, or is above everything read) and the poison filter (a row
missing from a read is parked).

`IInv` was checked with TLC on `lane_faults` before it was proved.

`BusLaneRunProofs` adds, on top of `IInv`:

* `InjectedOnce`: `Spec => []NoDoubleInjection`.  `QueueInv` adds that what was
  pushed stays under a dedup key of the inbox (unconsumed, being reported, or
  consumed), and that a steer cycle holds only messages newer than the prompt of the
  run it steers: a new prompt cannot be built under it (`Exclusion`);
* `RowsFollowRun`: `Spec => []RowsReclaimed`, by `RowsInv`;
* `DmRetries`: `Spec => [](~IsTeam => RetriedUntilParked)`.  In a DM nothing is
  steered (`Unsteered`), so the cursor stands still from the read of a batch to its
  settlement, and the batch holds every failed message below its newest one
  (`CarryInv`).  In a team room the property is false: the acks of what the
  failed run was steered pass its trigger;
* `FloorHolds`: `Spec => []UnconsumedStaysPending`.  `OrderInv`: the queue has no gap
  above the prompt and is in order, but for messages that landed late; `HeldInv`: a
  steer cycle holds its continuation, even when a report moves the cursor under
  it; `ReportInv`: a report covered all that was delivered before it.  What the
  poison filter could hide is never above a team prompt, which reaches up to the
  newest row (`FailedShown`).

Last, it proves the red line: `ReadHonest`, `Spec => [](MaxReplies = 0 =>
ReadOnlyIfShown)`.  `SightInv` strengthens the queue without gaps to chatter, as
long as `unsteeredGap` is clear; `SteeredInv` carries that to the newest reported
steer, past the end of the run; `PromptInv` says what the scrollback showed, and
`BelowInv` that the look at what is unread below it stays true until the ack.  The
hypothesis is needed: section 4 has the hook that breaks it.

And it proves the refinement: `LaneIsMailbox`, `Spec => KeepsMailbox`.  `MailInv` says
that there is a trigger only during a turn and that the batch waits, unparked, from
its read to the choice of the trigger: that choice is several awaits after the read,
and what could move the cursor or park a message meanwhile, a steer cycle or a report,
cannot overlap it (`Exclusion`).  Then every action is one of `Mailbox`: a dispatch is
`Serve`, a failure record `Fail`, every write of the cursor `Progress`, where
`NoSilentLoss` in the state after gives each passed message its reason, and a row that
lands behind the cursor an `Arrive` that is passed at once.

`CircuitBreakerProofs` proves, for any number of turns, any categories and any
threshold, from `BreakerAssumption` (types of the constants, a threshold of at
least one, category names that are not outcome names):

* `TypeCorrect`, `ClaimsIdentified`, `PausesEarned`: the invariants of
  `breaker_safe`;
* `LadderKept` and `ClaimsKept`: its action properties (`Ladder`, `ClaimKept`);
* `RowsSound`: `Spec => []IInv`, from which they follow.

A verdict is computed from a row read earlier and lands on another, so the
invariants must hold of the rows that turns have read as well as of the row
itself (`Sound`), and of what a turn knows in mid-claim or mid-report
(`Informed`): a turn about to write that holds the claim now held it when it
read, because nobody hands it a claim later; an exempt or cancelled turn that
writes holds the claim it read.  `Write` is then a case split on `Verdict`.  For the
action properties `Footprint` says which actions touch the row at all, and `Ties` what
a verdict computed from an older row still has to do with the one it lands on.  The
last disjunct of `ClaimKept` is the one a reviewer should look at: a report that had
read the row before the claim may overwrite it (section 4).

`JobScheduleProofs` proves, for any number of workers, failures, iterations and
both bounds, from `JobAssumption`: `TypeCorrect`, `OneRunAtATime`
(`AtMostOneRun`), `StopsHold` (`StopHolds`), `EdgeOnlyStays` (`EdgeOnlyWaits`),
`ReinstatementComplete` (`ReinstateRestores`) and `LeaksNothing` (`NothingLeaks`), all
from `JobInductive`.  `JobInv`
adds to them what the writers in mid-step promise: a claimed job is in the queue
or with one worker, never both, so the conditional acquire meets one snapshot
only (`Alone`); while a stop holds, nobody who read the row before it is still
about to write it (`StopInv`), likewise for a job only its owner can unblock
(`EdgeInv`); and a job paused for a suspension is one the reinstatement under way
has yet to see (`AccountInv`).

`RunTreeProofs` proves, for any number of runs, messages, stops and mishaps,
from `TreeAssumption`: `TypeCorrect`, `VerdictsTrue` (`VerdictStands`),
`StoppedTreesStay` (`TreeStaysStopped`), `FlightsDriven` (`FlightIsDriven`),
`RunsReachable` (`StopReachable`) and `RowsImplementLife`, the safety of
the refinement: initial states map to initial states of `RunLife` and every step
to one of its steps or a stutter.  `TreeInv` says where a
row can be for each place of its run (`EarlyInv`, `RowInv`), that a live run is
stale only if it stalled (`BeatInv`), that a sweep holds verdicts only on
runs that are over or dead, or that stalled (`SweepInv`), that an answered stop
rests on a flagged row of its tree (`StopInv`), that whoever a stop under way selects had
started when it drew its stamp or is in `raced` (`RaceInv`), and that messages in flight and
driven runs correspond one to one (`FlightInv`).  Liveness of the refinement
(`KeepsLife`) is checked by TLC only.

`TxnProxyProofs` proves, for any sets of clients, any length of a transaction
and any number of mishaps, from `ProxyAssumption`: `TypeCorrect`,
`ConnectionNeverStuck` (`FlagMatches`), `TransactionsAtomic` (`AllOrNothing`),
`GateHolds` (`FoldedWaited`),
`AnswersAreKept` (`AckedDurable`) and `SomeoneMoves` (`NoWaitCycle`).  None is inductive: between a statement and
the return of its caller the flag, the slot and the connection disagree.
`ProxyInv` says by how much: `Slots` for each statement under way and the order
callers resume in (a write that was issued before a BEGIN returns before it, so
it reads the flag still clear), `Positions` where each client can be, `Held` that
the active transaction has what it was answered for on the connection and nothing
of it ran elsewhere, and `Whole`, `Clean`, `Answers` where each write of a client
in mid-step is.  One lemma per part, one step per action.

`ExecutorPoolProofs` proves, for any runs, users and processes, any caps and any
number of mishaps, from `PoolAssumption`: `PassesAreWhole` (`TypeOK`),
`VerdictExcludes` (`OneReplacer`), `SeenIsSafe` (`CutOnlyUnseen`), `SlotsWithinCaps`
(`CapsKept`), `SleepersAreWoken` (`NoLostWakeup`) and `IdleContainersRemembered`
(`IdleRemembered`), all from `PoolInductive`.  `CapsKept` counts runs where the
controller counts numbers: the counters are the cardinalities of the sets of holders.
`CutOnlyUnseen` is an action property: what `Stop` may cut rests on
`Unseen`, that every run of the user on its way to the broker which holds a live row
got it after the recheck.  `OneReplacer` is inductive with the types alone: the row is written
before the question is asked, so of two runs the later one to ask sees the other.

Each of these invariants was checked with TLC on the run of its module before it
was proved.  Type correctness is proved in every module and is no property of a run;
neither are `StopReachable`, `NoLostWakeup` and `IdleRemembered`.

Every safety property of the passing runs is the subject of a theorem, two of them
(`RetriedUntilParked`, `ReadOnlyIfShown`) under the hypothesis given above.  Only
model-checked: everything that rests on fairness, which is out of the
prover's reach (`EventuallySettled`, `ReadConverges`,
`ClaimsEnd`, `PauseEnds`, `WaitEnds`, `RunningEnds`, `BlocksLift`, `StopLands`,
`OrphansSettle`, `WritesAnswered`, `QueuedAdmitted`, `IdleReclaimed`, and the
liveness in `KeepsLife`).
No module declares a RECURSIVE operator, and nothing is proved by induction over
data.

## 4. Findings

Each `violation` run refutes one sentence of the repository; the run's trace is
the argument.

* `claim_steering`: "never lost": a message between the batch and a short
  scrollback is below the watermark, is never steered, and is passed by the ack
  of the next consumed steer.
* `claim_stopped_job`: "will be marked as cancelled and will not be re-executed":
  a job paused in mid-run is written `paused_no_quota` by the finalizer of that
  run, resumed by the next scan and run again.
* `claim_fold`: "it can never be folded in": a write passes the gate, waits for
  the write lock, and runs inside the transaction that began meanwhile; it is
  answered, and undone if that transaction rolls back.

What holds in spite of them is what the passing runs check: `NoSilentLoss`,
whose disjuncts are all the ways there are to be passed unread (a row that lands
after a younger one was acked: `created_at` is taken before the INSERT; one
`hidden` between the batch and a short scrollback; a single trigger the
scrollback does not reach; one whose `/steer` POST failed while a later one was
consumed; one turned away by the inbox cap), `StopHolds` for stops nobody raced,
`FoldedWaited` for writes that met the transaction.  `lane_faults` reaches all
disjuncts of `NoSilentLoss` but the last: a steer cycle reads no more rows than
the inbox holds, and a row leaves it only when it is consumed.

Seen while modelling, in the code and, where nothing else is said, in the
behaviours of the model; they have no run of their own.

Lane:

* a run may be released between the look at the registry and the append of its
  steer rows (message_bus_trigger.py:1393): the rows stay unconsumed in the inbox
  and nothing reclaims them; `RowsReclaimed` excepts them (`orphaned`);
* when the first write of a report fails, its messages are forgotten with the
  cursor where it was: they run again, and no property forbids that;
* a trigger of a failed team turn may be passed by the steer acks of that turn:
  it is recorded as a failure and never offered again, although the failure
  record "never advances last_processed_at";
* the prompt of a turn with a single trigger does not quote it, and does not
  hold it either when the room has moved on by more than `TEAM_HISTORY_LIMIT`
  messages; its ack settles it all the same;
* the hook of a turn that spoke in the room is a second writer of the read
  cursor and has no gate; with it (`MaxReplies = 1`) `ReadConverges` fails:
  `mark_read` writes what it read earlier without a condition and pulls the
  cursor back;
* with `BatchLimit` parked messages at the head of a lane `EventuallySettled`
  fails: the poison filter runs after the LIMIT (local_bus.py:961) and nothing
  behind them is ever offered;
* the owner's retry of a message the cursor has passed clears its failure record
  and nothing else.

Breaker:

* the window between a claim and its run row contains the wait for an admission
  slot, which has no bound; a live claimant is then taken for dead and a second
  turn probes beside it;
* a failure or success that read the row before a claim overwrites the claim;
* `settle_probe` reads the row twice: a trigger that loses its claim in between
  reports an ordinary failure, which its docstring excludes;
* a claim can match the pause that replaced the one it read: the token is NULL
  in every pause.

Jobs:

* a stop of the owner that lands between the read and the write of a scan is
  overwritten by it; `StopHolds` excepts it (`exposed`);
* a finalizer or a failure handler that raises is swallowed, and the row stays
  "running" until the next start of the process (`stuck`);
* a ban read by the poller's account gate may be written after the account was
  reinstated, and a reinstatement that fails half-way is reported and not
  repeated: the job stays paused for a suspension that is over (`unlifted`);
* the failure count is the queued snapshot's plus one, whatever the row says by
  then (job_trigger.py, `_finalize_job_execution`);
* `/api/jobs/complex` passes job ids as `dependencies` (routes.py:595), and
  `InstanceHandler` compares instance ids (not modelled).

Cancellation:

* a stop can miss a run of its tree for good.  `cancel_run` draws `requested_at`
  before it selects the tree (runs.py:209, 212) and the watcher honours a stamp only
  if it is not older than `started_at` (cancel_watcher.py:164).  Run 1 sends a
  message and goes on, run 2 wakes on it; the owner stops run 1; the request
  draws its stamp; run 2 draws `started_at` and flips to running; the select finds
  it and flags it with the older stamp.  The watcher refuses that stamp for ever,
  every later click keeps it (runs.py:218-223), and the answer was "success"; run 2
  goes on to its own end.  runs.py:199 says "Stop the whole TREE, not just this run",
  and the recorder writes the label with the flip because "a cascade that raced the
  label would silently miss the branch it was aimed at" (run_recorder.py:594-597).
  With `flag[r]` in place of `StopApplies(r)`, `StopLands` is refuted by TLC on the
  instance of `tree` with one stop and no mishap, in 14 states;
* a stop whose run ends between the endpoint's read and its select of the tree
  (runs.py:178, 212) is answered with success and flags nothing; a follow-up
  already queued wakes as if nobody had asked;
* a chat run in a flagged tree is watched by nobody and goes on; what it sends
  wakes nobody;
* when the ack of a cancelled root turn fails, its message, which carries no
  label, wakes the root again.

Database:

* three instance updates of the job trigger (job_trigger.py:1097, 1122, 1142)
  and one of the artifact events (artifact_event_repository.py:52) are sent on
  the read path: they are not committed until somebody else's commit, a restart
  of the proxy before it loses them, and until then every BEGIN is refused;
* a COMMIT or a ROLLBACK that fails, the watchdog's too, releases the slot and
  leaves `_in_transaction` set: no later write is committed until the proxy restarts.

Admission and reaper:

* the memory guard "only ever DELAYS the start" (admission.py:10), but a waiter it
  refused looks again only when a run of its process releases its slot: with none
  under way it waits for ever, though memory has recovered (`Queued(r) ~> ~Queued(r)`
  fails in the model; the test of the guard, test_admission.py, notifies by hand);
* only the backend stamps users and only for its own runs: the container of a user
  driven from the workers alone, or cold-started by the workers after a cull, is
  never reclaimed, nor is any that was idle when the backend restarted;
* between the reaper's recheck and the broker's stop a run may go running and be
  handed the container that is then stopped: `CutOnlyUnseen` states the exact limit;
* the verdict on a stale container is as old as the question: a run that asked while
  it was alone may have its POST answered after another run of its user has connected,
  and the replacement breaks that run's loop ("replacing under a live run kills it").

## 5. Plan

Done: the lane with its steering, the breaker, the job scheduler, the run tree
with its sweep, stop and refinement of `RunLife`, the database proxy, and the
executor pool; the lane as a `Mailbox`; all checked, and every safety property of
their passing runs proved.

1. `JobChain`: the completion of an instance, the poller that sees it and the
   activation of the jobs that wait for it (`module_poller.py`,
   `instance_handler.py`), composed with `JobSchedule`.
2. `ExecutorPool` composed with `CircuitBreaker`: the wait for a slot is the window
   of an unbound claim.
3. `ChannelIngress`: four-layer dedup against redelivery, failures and restart.
4. `WakeSignal`: the poll sleep against a bump; patrol leases; multipart as pure
   operators against a reference definition, and the held lane.
5. `JobLife`, what the row of a job promises the panel and the agent, with `JobSchedule`
   shown to implement it.
6. `PluginLifecycle` if time allows.

## 6. Not modelled

* Prompt text, model conversations, memory retrieval, bundles, user interfaces
  and packaging are data or I/O: most of the repository's lines are of this kind.
* MySQL.  A statement is atomic in both dialects; what the proxy adds on SQLite
  is modelled, the MySQL pool and its isolation are not.
* Channel ingress, the wake signal, patrols, multipart, the job chain
  and the plugin kernel: planned (section 5).
* Two rows of equal timestamp, and a process that is suspended and comes back
  within a breaker's claim.
* Clocks are abstract everywhere: a deadline elapses at some time, and which of
  two deadlines comes first is left open.
