------------------------------- MODULE BusLane -------------------------------
(***************************************************************************)
(* One LANE of the message bus: the messages of one channel on their way   *)
(* to one agent (message_bus/local_bus.py, message_bus_trigger.py,         *)
(* agent_runtime/steer_channel.py, repository/steer_inbox_repository.py).  *)
(*                                                                         *)
(* Five kinds of process touch the lane's state, in different processes of *)
(* the deployment:                                                         *)
(*   - senders (API / MCP servers) stamp created_at, then insert the row;  *)
(*   - the poll loop of MessageBusTrigger dispatches a turn for the lane,  *)
(*     or routes new messages into the turn already running (steering);    *)
(*   - the turn task reads a batch, renders the prompt, runs the agent,    *)
(*     reports what the run consumed, and settles the cursors at its end;  *)
(*   - the transport of the run takes steered messages off the queue;      *)
(*   - the owner stops a trigger tree or retries a parked message.         *)
(*                                                                         *)
(* A message IS its created_at: a number, stamped in order.  What lies     *)
(* between two awaits of the code is one action.                           *)
(***************************************************************************)
EXTENDS Naturals, Sequences, FiniteSets, FiniteSetsExt

CONSTANTS
    MaxMsg,          \* bound: messages ever stamped
    Kinds,           \* subset of {"addressed", "chatter", "own"}
    InTree,          \* the messages that carry a root_run_id
    Writers,         \* senders that may be between stamp and insert at once
    IsTeam,          \* a team room (steerable, scrollback) or a peer DM
    BatchLimit,      \* PENDING_BATCH_LIMIT
    HistoryLimit,    \* TEAM_HISTORY_LIMIT
    PoisonThreshold, \* POISON_FAILURE_THRESHOLD
    InboxCap,        \* MAX_UNCONSUMED_PER_RUN
    RateMax,         \* RATE_LIMIT_MAX
    MaxCrashes,      \* bound: restarts of the trigger process
    MaxFaults,       \* bound: failed /steer POSTs and failed cursor writes
    MaxRetries,      \* bound: parked messages the owner retries
    MaxReplies,      \* bound: turns of the agent that write to this channel
    MaxBreaker       \* bound: times the agent's circuit breaker trips

Msgs == 1..MaxMsg

ASSUME ConstantsAssumption ==
    /\ MaxMsg \in Nat /\ Writers \in Nat \ {0}
    /\ Kinds \subseteq {"addressed", "chatter", "own"}
    /\ InTree \subseteq Msgs /\ IsTeam \in BOOLEAN
    /\ BatchLimit \in Nat \ {0} /\ HistoryLimit \in Nat \ {0}
    /\ PoisonThreshold \in Nat \ {0} /\ InboxCap \in Nat \ {0}
    /\ RateMax \in Nat \ {0}
    /\ MaxCrashes \in Nat /\ MaxFaults \in Nat
    /\ MaxRetries \in Nat /\ MaxBreaker \in Nat /\ MaxReplies \in Nat

VARIABLES
    \* bus_messages
    kind,       \* [Msgs -> Kinds \cup {"none"}]: what the row is to this agent
    writing,    \* stamped, not yet inserted
    log,        \* inserted rows
    stopped,    \* rows of a trigger tree the owner asked to stop
    \* bus_channel_members and bus_message_failures, this agent's row
    cursor,     \* last_processed_at (0 = NULL)
    readCursor, \* last_read_at
    fails,      \* [Msgs -> retry_count]
    \* steer_inbox, the rows of the current run
    rows,       \* appended, consumed_at IS NULL
    \* the turn task
    pc,         \* where the turn is between two awaits
    outcome,    \* how its run ended: ok, cancelled (by the owner), failed
    probe,      \* the breaker gate said half-open: a probe claim is needed
    batch,      \* what get_pending_messages returned
    trig,       \* trigger_message (0 = none yet)
    renderedFrom, \* oldest message of the scrollback (0 = none)
    \* _InFlight
    renderedThrough, steeredThrough, unsteeredGap,
    \* RunRegistry and the run's SteerChannel
    registered, \* live_run(agent, channel) finds the run
    pushed,     \* every message pushed to this run, in queue order
    taken,      \* how many the transport took off the queue
    acked,      \* how many of those the run's reports covered
    dropped,    \* of the taken ones, those whose /steer POST failed
    reporting,  \* of a report being written: its messages
    consumed,   \* reported consumed (pruned from SteerChannel._created_at)
    \* the poll loop inside _route_steer
    rpc, rmsgs, rtodo,
    \* _rate_counters, agent_circuit_breaker
    admitted, breaker,
    \* the after_turn hook of a turn that wrote to this channel, in the background
    hookMark,   \* newest unread message it saw (0 = no hook under way)
    \* bounds
    crashes, faults, retries, trips, replies,
    \* history variables: never read by the actions
    shown, handled, rateDropped, parked, late, hidden, unquoted, undelivered,
    overflow, orphaned

busVars   == <<kind, writing, log, stopped>>
ackVars   == <<cursor, readCursor, fails>>
turnVars  == <<pc, outcome, probe, batch, trig, renderedFrom>>
flightVars == <<renderedThrough, steeredThrough, unsteeredGap>>
runVars   == <<registered, pushed, taken, acked, dropped, reporting, consumed>>
routeVars == <<rpc, rmsgs, rtodo>>
gateVars  == <<admitted, breaker>>
boundVars == <<crashes, faults, retries, trips>>
ghostVars == <<shown, handled, rateDropped, parked, late, hidden, unquoted,
               undelivered, overflow, orphaned>>
hookVars  == <<hookMark, replies>>

vars == <<busVars, ackVars, rows, turnVars, flightVars, runVars, routeVars,
          gateVars, boundVars, ghostVars, hookVars>>

-----------------------------------------------------------------------------
(* Queries the code asks of the bus.                                        *)

\* ack_processed and ack_read only move a cursor forward.
Forward(c, ts) == IF c < ts THEN ts ELSE c

Addressed(S) == {m \in S : kind[m] = "addressed"}
Poisoned(m)  == fails[m] >= PoisonThreshold

\* SQL part of get_pending_messages, before its LIMIT.
Pending == {m \in log : m > cursor /\ kind[m] # "own" /\ m \notin stopped}

\* ORDER BY created_at ASC LIMIT n.
Oldest(S, n) == {m \in S : Cardinality({k \in S : k < m}) < n}
Newest(S, n) == {m \in S : Cardinality({k \in S : m < k}) < n}

\* The poison filter runs on the rows the LIMIT let through.
GetPending == {m \in Oldest(Pending, BatchLimit) : ~Poisoned(m)}

\* _lanes_with_pending: a candidate set, without the stop and poison filters.
HasCandidates == \E m \in log : m > cursor /\ kind[m] # "own"

\* Mutated HasUnreadBefore: created_at <= ts.
HasUnreadUpTo(ts) ==
    \E m \in log : readCursor < m /\ m <= ts /\ kind[m] # "own"

\* _unread_predicate: what the read cursor has not reached.
Unread == {m \in log : readCursor < m /\ kind[m] # "own"}

HasUnreadBefore(ts) == \E m \in Unread : m < ts

\* The run's rows in steer_inbox, consumed ones included: the dedup key.
Inboxed == rows \cup reporting \cup consumed

\* SteerChannel._created_at: pushed and not yet reported consumed.
Remembered == Range(pushed) \ consumed

\* steer_cycles_in_flight of this lane's _InFlight: one poll loop, so 0 or 1.
SteerCycles == IF rpc \in {"off", "candidate"} THEN 0 ELSE 1

InFlight == pc # "idle"

\* RunRegistry.live_run finds the run of this lane.
LiveRun == registered

-----------------------------------------------------------------------------
Init ==
    /\ kind = [m \in Msgs |-> "none"]
    /\ writing = {} /\ log = {} /\ stopped = {}
    /\ cursor = 0 /\ readCursor = 0 /\ fails = [m \in Msgs |-> 0]
    /\ rows = {}
    /\ pc = "idle" /\ outcome = "none" /\ probe = FALSE /\ batch = {} /\ trig = 0
    /\ renderedFrom = 0
    /\ renderedThrough = 0 /\ steeredThrough = 0 /\ unsteeredGap = FALSE
    /\ registered = FALSE /\ pushed = <<>> /\ taken = 0 /\ acked = 0
    /\ dropped = {} /\ reporting = {} /\ consumed = {}
    /\ rpc = "off" /\ rmsgs = {} /\ rtodo = {}
    /\ admitted = 0 /\ breaker = "closed"
    /\ crashes = 0 /\ faults = 0 /\ retries = 0 /\ trips = 0
    /\ shown = {} /\ handled = {} /\ rateDropped = {} /\ parked = {} /\ late = {}
    /\ hidden = {} /\ unquoted = {} /\ undelivered = {} /\ overflow = {}
    /\ orphaned = FALSE
    /\ hookMark = 0 /\ replies = 0

-----------------------------------------------------------------------------
(* Senders and the owner: other processes, writing to the shared database.  *)

\* send_message evaluates created_at, then awaits the INSERT.
StampMessage(k) ==
    /\ Cardinality(writing) < Writers
    /\ \E m \in Msgs :
         /\ kind[m] = "none"
         /\ \A j \in Msgs : j < m => kind[j] # "none"
         /\ kind' = [kind EXCEPT ![m] = k]
         /\ writing' = writing \cup {m}
    /\ UNCHANGED <<log, stopped, ackVars, rows, turnVars, flightVars, runVars,
                   routeVars, gateVars, boundVars, ghostVars, hookVars>>

\* The row lands.  It is late when a row stamped after it landed before it.
InsertMessage(m) ==
    /\ m \in writing
    /\ writing' = writing \ {m}
    /\ log' = log \cup {m}
    /\ late' = IF \E j \in log : m < j THEN late \cup {m} ELSE late
    /\ UNCHANGED <<kind, stopped, ackVars, rows, turnVars, flightVars, runVars,
                   routeVars, gateVars, boundVars, shown, handled, rateDropped,
                   parked, hidden, unquoted, undelivered, overflow, orphaned,
                   hookVars>>

\* The owner presses stop: the rows of the tree are filtered from now on.
StopTree(m) ==
    /\ m \in (log \cap InTree) \ stopped
    /\ stopped' = stopped \cup {m}
    /\ UNCHANGED <<kind, writing, log, ackVars, rows, turnVars, flightVars,
                   runVars, routeVars, gateVars, boundVars, ghostVars, hookVars>>

\* retry_bus_failure deletes the failure row; the cursor is not touched.
RetryFailure(m) ==
    /\ m \in log
    /\ fails[m] > 0
    /\ retries < MaxRetries
    /\ retries' = retries + 1
    /\ fails' = [fails EXCEPT ![m] = 0]
    /\ UNCHANGED <<busVars, cursor, readCursor, rows, turnVars, flightVars,
                   runVars, routeVars, gateVars, crashes, faults, trips,
                   ghostVars, hookVars>>

BreakerTrips(b) ==
    /\ breaker # b
    /\ trips < MaxBreaker
    /\ trips' = trips + 1
    /\ breaker' = b
    /\ UNCHANGED <<busVars, ackVars, rows, turnVars, flightVars, runVars,
                   routeVars, admitted, crashes, faults, retries, ghostVars,
                   hookVars>>

BreakerCloses ==
    /\ breaker # "closed"
    /\ breaker' = "closed"
    /\ UNCHANGED <<busVars, ackVars, rows, turnVars, flightVars, runVars,
                   routeVars, admitted, boundVars, ghostVars, hookVars>>

\* The sliding window of the rate limiter empties.
RateWindowSlides ==
    /\ admitted > 0
    /\ admitted' = 0
    /\ UNCHANGED <<busVars, ackVars, rows, turnVars, flightVars, runVars,
                   routeVars, breaker, boundVars, ghostVars, hookVars>>

-----------------------------------------------------------------------------
(* The turn task: _process_lane and _handle_channel_batch.                  *)

\* The fresh _InFlight of a dispatch, or none at all.
FreshFlight ==
    /\ outcome' = "none" /\ probe' = FALSE /\ batch' = {} /\ trig' = 0
    /\ renderedFrom' = 0
    /\ renderedThrough' = 0 /\ steeredThrough' = 0 /\ unsteeredGap' = FALSE

\* _poll_cycle, the lane found by the query and not in flight: a new turn.
Dispatch ==
    /\ rpc = "candidate"
    /\ rpc' = "off"
    /\ ~InFlight
    /\ pc' = "queued"
    /\ FreshFlight
    /\ UNCHANGED <<busVars, ackVars, rows, runVars, rmsgs, rtodo, gateVars,
                   boundVars, ghostVars, hookVars>>

\* _on_dispatch_done: the lane is free again; nothing was acked on this path.
LeaveLane ==
    /\ pc' = "idle"
    /\ FreshFlight

\* should_skip: a paused agent's messages stay queued.
BreakerGate ==
    /\ pc = "queued"
    /\ \/ /\ breaker = "open"
          /\ LeaveLane
       \/ /\ breaker # "open"
          /\ pc' = "admit"
          /\ probe' = (breaker = "half")
          /\ UNCHANGED <<outcome, batch, trig, renderedFrom, flightVars>>
    /\ UNCHANGED <<busVars, ackVars, rows, runVars, routeVars, gateVars,
                   boundVars, ghostVars, hookVars>>

\* Lane lock and worker slot taken: read one batch of this room.
FetchBatch ==
    /\ pc = "admit"
    /\ \/ /\ GetPending = {}
          /\ LeaveLane
       \/ /\ GetPending # {}
          /\ pc' = "decide"
          /\ batch' = GetPending
          /\ UNCHANGED <<outcome, probe, trig, renderedFrom, flightVars>>
    /\ UNCHANGED <<busVars, ackVars, rows, runVars, routeVars, gateVars,
                   boundVars, ghostVars, hookVars>>

\* No message is addressed to the agent: advance the cursor, run nothing.
SkipUnaddressed ==
    /\ pc = "decide"
    /\ Addressed(batch) = {}
    /\ cursor' = Forward(cursor, Max(batch))
    /\ LeaveLane
    /\ UNCHANGED <<busVars, readCursor, fails, rows, runVars, routeVars, gateVars,
                   boundVars, ghostVars, hookVars>>

\* RATE_LIMIT_MAX turns in the window: the relevant messages are dropped.
RateLimited ==
    /\ pc = "decide"
    /\ Addressed(batch) # {}
    /\ admitted >= RateMax
    /\ cursor' = Forward(cursor, Max(Addressed(batch)))
    /\ rateDropped' = rateDropped \cup Addressed(batch)
    /\ LeaveLane
    /\ UNCHANGED <<busVars, readCursor, fails, rows, runVars, routeVars, gateVars,
                   boundVars, shown, handled, parked, late, hidden, unquoted,
                   undelivered, overflow, orphaned, hookVars>>

\* try_begin_probe lost the half-open probe to another trigger: no ack.  The
\* rate limiter has already counted the turn.
ProbeRefused ==
    /\ pc = "decide"
    /\ Addressed(batch) # {}
    /\ admitted < RateMax
    /\ admitted' = admitted + 1
    /\ probe
    /\ breaker # "closed"
    /\ LeaveLane
    /\ UNCHANGED <<busVars, ackVars, rows, runVars, routeVars, breaker, boundVars,
                   ghostVars, hookVars>>

\* Reading the batch, or the cursor write of a batch that runs nothing, raises.
LaneError ==
    /\ pc \in {"admit", "decide"}
    /\ faults < MaxFaults
    /\ faults' = faults + 1
    /\ LeaveLane
    /\ UNCHANGED <<busVars, ackVars, rows, runVars, routeVars, gateVars, crashes,
                   retries, trips, ghostVars, hookVars>>

\* The turn is admitted: its trigger is the newest relevant message.
StartTurn ==
    /\ pc = "decide"
    /\ Addressed(batch) # {}
    /\ admitted < RateMax
    /\ admitted' = admitted + 1
    /\ pc' = "render"
    /\ trig' = Max(Addressed(batch))
    /\ renderedThrough' = Max(Addressed(batch))
    /\ UNCHANGED <<busVars, ackVars, rows, outcome, probe, batch, renderedFrom,
                   steeredThrough, unsteeredGap, runVars, routeVars, breaker,
                   boundVars, ghostVars, hookVars>>

\* The scrollback of a team prompt; a DM prompt carries the batch alone.
Scrollback == IF IsTeam THEN Newest(log, HistoryLimit) ELSE {}

\* The asks whose text the prompt quotes.  A team prompt that answers one message
\* names its sender only: the text is taken to stand in the scrollback.
Quoted == IF IsTeam /\ Addressed(batch) = {trig} THEN {} ELSE Addressed(batch)

\* Build the prompt.  The watermark rises to the newest message it shows.
\* hidden: pending messages between the trigger and the watermark that the
\* scrollback is too short to show; unquoted: a trigger it does not reach.
RenderPrompt ==
    /\ pc = "render"
    /\ pc' = "start"
    /\ renderedThrough' = Max({trig} \cup Scrollback)
    /\ renderedFrom' = IF IsTeam THEN Min(Scrollback) ELSE 0
    /\ shown' = shown \cup Quoted \cup Scrollback
    /\ unquoted' = unquoted \cup ({trig} \ shown')
    /\ hidden' = hidden \cup
         {m \in Addressed(Pending) :
            trig < m /\ m <= renderedThrough' /\ m \notin shown'}
    /\ UNCHANGED <<busVars, ackVars, rows, outcome, probe, batch, trig,
                   steeredThrough, unsteeredGap, runVars, routeVars, gateVars,
                   boundVars, handled, rateDropped, parked, late, undelivered,
                   overflow, orphaned, hookVars>>

\* on_event_id: the run has an id; a team run becomes steerable.  Its rows and
\* its SteerChannel are new.
BindRun ==
    /\ pc = "start"
    /\ pc' = "running"
    /\ registered' = IsTeam
    /\ rows' = {} /\ pushed' = <<>> /\ taken' = 0 /\ acked' = 0
    /\ dropped' = {} /\ reporting' = {} /\ consumed' = {}
    /\ UNCHANGED <<busVars, ackVars, outcome, probe, batch, trig, renderedFrom,
                   flightVars, routeVars, gateVars, boundVars, ghostVars,
                   hookVars>>

\* The transport takes the head of the queue and the loop drains it into its
\* context; or the POST to the executor fails and the message is only logged.
TakeSteered(ok) ==
    /\ pc = "running"
    /\ taken < Len(pushed)
    /\ taken' = taken + 1
    /\ \/ /\ ok
          /\ shown' = shown \cup {pushed[taken + 1]}
          /\ UNCHANGED <<dropped, undelivered, faults>>
       \/ /\ ~ok
          /\ faults < MaxFaults
          /\ faults' = faults + 1
          /\ dropped' = dropped \cup {pushed[taken + 1]}
          /\ undelivered' = undelivered \cup {pushed[taken + 1]}
          /\ UNCHANGED shown
    /\ UNCHANGED <<busVars, ackVars, rows, turnVars, flightVars, registered,
                   pushed, acked, reporting, consumed, routeVars, gateVars,
                   crashes, retries, trips, handled, rateDropped, parked, late,
                   hidden, unquoted, overflow, orphaned, hookVars>>

\* Mutated Reported: a report covers all that was pushed.
ReportedAll(j) == {pushed[i] : i \in (acked + 1)..Len(pushed)} \ dropped

\* What the reports up to queue position j cover and no earlier report did.
Reported(j) == {pushed[i] : i \in (acked + 1)..j} \ dropped

\* deliver_consumed: the reported rows are marked consumed.  When that write
\* fails the whole report is swallowed, and its messages are forgotten all the
\* same.
MarkConsumed(ok) ==
    /\ pc = "running"
    /\ \E j \in (acked + 1)..taken :
         /\ Reported(j) # {}
         /\ acked' = j
         /\ \/ /\ ok
               /\ rows' = rows \ Reported(j)
               /\ reporting' = Reported(j)
               /\ pc' = "acking"
               /\ UNCHANGED <<consumed, faults>>
            \/ /\ ~ok
               /\ faults < MaxFaults
               /\ faults' = faults + 1
               /\ consumed' = consumed \cup Reported(j)
               /\ UNCHANGED <<rows, reporting, pc>>
    /\ UNCHANGED <<busVars, ackVars, outcome, probe, batch, trig, renderedFrom,
                   flightVars, registered, pushed, taken, dropped, routeVars,
                   gateVars, crashes, retries, trips, ghostVars, hookVars>>

\* _ack_steer_consumed goes on: advance the processing cursor and raise
\* steered_through (unless that write fails), then prune the map.
AckConsumed(ok) ==
    /\ pc = "acking"
    /\ pc' = "running"
    /\ consumed' = consumed \cup reporting
    /\ reporting' = {}
    /\ \/ /\ ok
          /\ cursor' = Forward(cursor, Max(reporting))
          /\ steeredThrough' = Forward(steeredThrough, Max(reporting))
          /\ UNCHANGED faults
       \/ /\ ~ok
          /\ faults < MaxFaults
          /\ faults' = faults + 1
          /\ UNCHANGED <<cursor, steeredThrough>>
    /\ UNCHANGED <<busVars, readCursor, fails, rows, outcome, probe, batch, trig,
                   renderedFrom, renderedThrough, unsteeredGap, registered,
                   pushed, taken, acked, dropped, routeVars, gateVars, crashes,
                   retries, trips, ghostVars, hookVars>>

\* How _invoke_runtime ends: it returns, the owner cancels it, or it raises.
Outcomes == {"ok", "cancelled", "failed"}

\* _invoke_runtime returns, is cancelled by the owner, or raises; a turn may
\* also raise before the run is bound.  The exit stack releases the run first.
EndRun(o) ==
    /\ \/ pc = "running"
       \/ pc \in {"render", "start"} /\ o = "failed"
    /\ o = "ok" => Reported(taken) = {}
    /\ pc' = IF pc = "running" THEN "ended" ELSE "record"
    /\ outcome' = o
    /\ registered' = FALSE
    /\ UNCHANGED <<busVars, ackVars, rows, probe, batch, trig, renderedFrom,
                   flightVars, pushed, taken, acked, dropped, reporting, consumed,
                   routeVars, gateVars, boundVars, ghostVars, hookVars>>

\* Mutated Epilogue: a failed turn is not recorded.
EpilogueForgets(o) == IF o = "failed" THEN "seen" ELSE "settle"

\* What follows the run: an ack of its trigger, or a failure record.
Epilogue(o) == IF o = "failed" THEN "record" ELSE "settle"

\* Mutated DiscardOrphans: teardown leaves the rows.
KeepOrphans(ok) ==
    /\ pc = "ended"
    /\ ok
    /\ pc' = Epilogue(outcome)
    /\ UNCHANGED <<busVars, ackVars, rows, outcome, probe, batch, trig,
                   renderedFrom, flightVars, runVars, routeVars, gateVars,
                   boundVars, ghostVars, hookVars>>

\* _discard_steer_orphans, best effort, then the outcome's own epilogue.
DiscardOrphans(ok) ==
    /\ pc = "ended"
    /\ pc' = Epilogue(outcome)
    /\ \/ /\ ok
          /\ rows' = {}
          /\ UNCHANGED <<faults, orphaned>>
       \/ /\ ~ok
          /\ faults < MaxFaults
          /\ faults' = faults + 1
          /\ orphaned' = TRUE
          /\ UNCHANGED rows
    /\ UNCHANGED <<busVars, ackVars, outcome, probe, batch, trig, renderedFrom,
                   flightVars, runVars, routeVars, gateVars, crashes, retries,
                   trips, shown, handled, rateDropped, parked, late, hidden,
                   unquoted, undelivered, overflow, hookVars>>

\* ack_processed(trigger) after a run that ended well or was stopped.
AckTrigger ==
    /\ pc = "settle"
    /\ cursor' = Forward(cursor, trig)
    /\ handled' = handled \cup {m \in batch : m <= trig}
    /\ pc' = "seen"
    /\ UNCHANGED <<busVars, readCursor, fails, rows, outcome, probe, batch, trig,
                   renderedFrom, flightVars, runVars, routeVars, gateVars,
                   boundVars, shown, rateDropped, parked, late, hidden, unquoted,
                   undelivered, overflow, orphaned, hookVars>>

\* That write, or the delivery notices and receipts that follow the acks, raise:
\* a run that ended well is recorded as a failure, a stopped one swallows it.
EpilogueRaises ==
    /\ faults < MaxFaults
    /\ faults' = faults + 1
    /\ \/ /\ pc \in {"settle", "deliver"}
          /\ outcome = "ok"
          /\ pc' = "record"
          /\ UNCHANGED <<outcome, probe, batch, trig, renderedFrom, flightVars>>
       \/ /\ pc = "settle"
          /\ outcome = "cancelled"
          /\ LeaveLane
    /\ UNCHANGED <<busVars, ackVars, rows, runVars, routeVars, gateVars, crashes,
                   retries, trips, ghostVars, hookVars>>

\* _ack_room_seen, first half: is anything unread below the scrollback?
CheckUnread ==
    /\ pc = "seen"
    /\ pc' = IF IsTeam /\ ~HasUnreadBefore(renderedFrom) THEN "ackRead" ELSE "deliver"
    /\ UNCHANGED <<busVars, ackVars, rows, outcome, probe, batch, trig,
                   renderedFrom, flightVars, runVars, routeVars, gateVars,
                   boundVars, ghostVars, hookVars>>

\* Mutated ReadHighWater: the gap is not looked at.
ReadHighWaterUngated == Forward(trig, steeredThrough)

\* Its second half: up to the trigger, or to the newest consumed steer when
\* no gap is known and no steer cycle is in flight.
ReadHighWater ==
    IF ~unsteeredGap /\ SteerCycles = 0 THEN Forward(trig, steeredThrough) ELSE trig

AckRoomSeen(ok) ==
    /\ pc = "ackRead"
    /\ pc' = "deliver"
    /\ \/ /\ ok
          /\ readCursor' = Forward(readCursor, ReadHighWater)
          /\ UNCHANGED faults
       \/ /\ ~ok
          /\ faults < MaxFaults
          /\ faults' = faults + 1
          /\ UNCHANGED readCursor
    /\ UNCHANGED <<busVars, cursor, fails, rows, outcome, probe, batch, trig,
                   renderedFrom, flightVars, runVars, routeVars, gateVars,
                   crashes, retries, trips, ghostVars, hookVars>>

\* Notices and receipts are out: the turn is over.
Deliver ==
    /\ pc = "deliver"
    /\ LeaveLane
    /\ UNCHANGED <<busVars, ackVars, rows, runVars, routeVars, gateVars,
                   boundVars, ghostVars, hookVars>>

\* LocalMessageBus.record_failure: one more failed turn of this trigger.
CountFailure(m) == fails' = [fails EXCEPT ![m] = @ + 1]

\* Mutated RecordFailure: a failed turn is acked as well.
RecordFailureAcks(ok) ==
    /\ pc = "record"
    /\ ok
    /\ CountFailure(trig)
    /\ parked' =
         IF fails'[trig] >= PoisonThreshold THEN parked \cup {trig} ELSE parked
    /\ cursor' = Forward(cursor, trig)
    /\ LeaveLane
    /\ UNCHANGED <<busVars, readCursor, rows, runVars, routeVars, gateVars,
                   boundVars, shown, handled, rateDropped, late, hidden, unquoted,
                   undelivered, overflow, orphaned, hookVars>>

\* The except branch: record_failure on the trigger message.
RecordFailure(ok) ==
    /\ pc = "record"
    /\ \/ /\ ok
          /\ CountFailure(trig)
          /\ parked' =
               IF fails'[trig] >= PoisonThreshold THEN parked \cup {trig} ELSE parked
          /\ UNCHANGED faults
       \/ /\ ~ok
          /\ faults < MaxFaults
          /\ faults' = faults + 1
          /\ UNCHANGED <<fails, parked>>
    /\ LeaveLane
    /\ UNCHANGED <<busVars, cursor, readCursor, rows, runVars, routeVars,
                   gateVars, crashes, retries, trips, shown, handled, rateDropped,
                   late, hidden, unquoted, undelivered, overflow, orphaned,
                   hookVars>>

-----------------------------------------------------------------------------
(* The poll loop inside _route_steer.                                       *)

\* _poll_cycle reads the candidate lanes; it comes to this lane later.
PollQuery ==
    /\ rpc = "off"
    /\ HasCandidates
    /\ rpc' = "candidate"
    /\ UNCHANGED <<busVars, ackVars, rows, turnVars, flightVars, runVars, rmsgs,
                   rtodo, gateVars, boundVars, ghostVars, hookVars>>

\* The lane is in flight: steer when its run is registered, else leave it.
RouteStart ==
    /\ rpc = "candidate"
    /\ InFlight
    /\ rpc' = IF LiveRun /\ renderedThrough # 0 THEN "fetch" ELSE "off"
    /\ UNCHANGED <<busVars, ackVars, rows, turnVars, flightVars, runVars, rmsgs,
                   rtodo, gateVars, boundVars, ghostVars, hookVars>>

\* Mutated RouteFetch: the watermark is not applied.
RouteFetchAll ==
    /\ rpc = "fetch"
    /\ rmsgs' = GetPending
    /\ rpc' = IF rmsgs' = {} THEN "off" ELSE "recheck"
    /\ UNCHANGED <<busVars, ackVars, rows, turnVars, flightVars, runVars, rtodo,
                   gateVars, boundVars, ghostVars, hookVars>>

\* Pending messages newer than the prompt.  (When the turn left meanwhile the
\* watermark reads 0 here; RouteRecheck then refuses the whole batch.)
RouteFetch ==
    /\ rpc = "fetch"
    /\ rmsgs' = {m \in GetPending : m > renderedThrough}
    /\ rpc' = IF rmsgs' = {} THEN "off" ELSE "recheck"
    /\ UNCHANGED <<busVars, ackVars, rows, turnVars, flightVars, runVars, rtodo,
                   gateVars, boundVars, ghostVars, hookVars>>

Chatter == rmsgs \ Addressed(rmsgs)

\* Raise the gap flag, then re-confirm that the run is still the same handle.
RouteRecheck ==
    /\ rpc = "recheck"
    /\ unsteeredGap' = (unsteeredGap \/ Chatter # {})
    /\ \/ /\ LiveRun
          /\ rpc' = "append"
          /\ rtodo' = Addressed(rmsgs)
          /\ UNCHANGED rmsgs
       \/ /\ ~LiveRun
          /\ rpc' = "off"
          /\ rmsgs' = {}
          /\ UNCHANGED rtodo
    /\ UNCHANGED <<busVars, ackVars, rows, turnVars, renderedThrough,
                   steeredThrough, runVars, gateVars, boundVars, ghostVars,
                   hookVars>>

\* inbox.append of the next relevant message: back-pressure at the cap, a
\* duplicate row is skipped, a new row is pushed and remembered.
RouteAppend ==
    /\ rpc = "append"
    /\ rtodo # {}
    /\ LET m == Min(rtodo) IN
         \/ /\ Cardinality(rows) >= InboxCap
            /\ rtodo' = {}
            /\ overflow' = overflow \cup (rtodo \ Inboxed)
            /\ UNCHANGED <<rows, pushed, orphaned>>
         \/ /\ Cardinality(rows) < InboxCap
            /\ m \in Inboxed
            /\ rtodo' = rtodo \ {m}
            /\ UNCHANGED <<rows, pushed, overflow, orphaned>>
         \/ /\ Cardinality(rows) < InboxCap
            /\ m \notin Inboxed
            /\ rtodo' = rtodo \ {m}
            /\ rows' = rows \cup {m}
            /\ pushed' = Append(pushed, m)
            /\ orphaned' = (orphaned \/ ~registered)
            /\ UNCHANGED overflow
    /\ UNCHANGED <<busVars, ackVars, turnVars, flightVars, registered, taken,
                   acked, dropped, reporting, consumed, rpc, rmsgs, gateVars,
                   boundVars, shown, handled, rateDropped, parked, late, hidden,
                   unquoted, undelivered, hookVars>>

\* Mutated BelowFloor: there is no floor.
NoFloor == Chatter

\* Chatter below the oldest unconsumed steer: the floor of the ack.
BelowFloor == {m \in Chatter : \A r \in Remembered : m < r}

RouteAckChatter ==
    /\ rpc = "append"
    /\ rtodo = {}
    /\ cursor' = IF BelowFloor = {} THEN cursor ELSE Forward(cursor, Max(BelowFloor))
    /\ rpc' = "off"
    /\ rmsgs' = {}
    /\ UNCHANGED <<busVars, readCursor, fails, rows, turnVars, flightVars,
                   runVars, rtodo, gateVars, boundVars, ghostVars, hookVars>>

\* A database call of the cycle raises: the rest of it is left out.
RouteFails ==
    /\ rpc \in {"fetch", "recheck", "append"}
    /\ faults < MaxFaults
    /\ faults' = faults + 1
    /\ rpc' = "off" /\ rmsgs' = {} /\ rtodo' = {}
    /\ UNCHANGED <<busVars, ackVars, rows, turnVars, flightVars, runVars,
                   gateVars, crashes, retries, trips, ghostVars, hookVars>>

-----------------------------------------------------------------------------
\* The trigger process restarts: what it holds in memory is gone.
Crash ==
    /\ crashes < MaxCrashes
    /\ InFlight \/ rpc # "off"
    /\ crashes' = crashes + 1
    /\ LeaveLane
    /\ registered' = FALSE /\ pushed' = <<>> /\ taken' = 0 /\ acked' = 0
    /\ dropped' = {} /\ reporting' = {} /\ consumed' = {}
    /\ rpc' = "off" /\ rmsgs' = {} /\ rtodo' = {}
    /\ admitted' = 0
    /\ UNCHANGED <<busVars, ackVars, rows, breaker, faults, retries, trips,
                   ghostVars, hookVars>>

-----------------------------------------------------------------------------
(* Any turn of the agent that wrote to this channel, an owner chat included, *)
(* leaves a hook in the background (MessageBusModule.after_turn).            *)

\* get_unread without a limit: whatever is unread by now.
AfterTurnReads ==
    /\ hookMark = 0
    /\ replies < MaxReplies
    /\ replies' = replies + 1
    /\ Unread # {}
    /\ hookMark' = Max(Unread)
    /\ UNCHANGED <<busVars, ackVars, rows, turnVars, flightVars, runVars,
                   routeVars, gateVars, boundVars, ghostVars>>

\* mark_read: last_read_at becomes the newest of them, without a condition.
AfterTurnMarks ==
    /\ hookMark # 0
    /\ hookMark' = 0
    /\ readCursor' = hookMark
    /\ UNCHANGED <<replies, busVars, cursor, fails, rows, turnVars, flightVars,
                   runVars, routeVars, gateVars, boundVars, ghostVars>>

Hook == AfterTurnReads \/ AfterTurnMarks

Senders ==
    \/ \E k \in Kinds : StampMessage(k)
    \/ \E m \in Msgs : InsertMessage(m)

Owner == \E m \in Msgs : StopTree(m) \/ RetryFailure(m)

Gates ==
    \/ \E b \in {"open", "half"} : BreakerTrips(b)
    \/ BreakerCloses
    \/ RateWindowSlides

Turn ==
    \/ BreakerGate \/ FetchBatch \/ SkipUnaddressed \/ RateLimited
    \/ ProbeRefused \/ StartTurn \/ RenderPrompt \/ BindRun
    \/ \E ok \in BOOLEAN : TakeSteered(ok) \/ MarkConsumed(ok) \/ AckConsumed(ok)
    \/ \E o \in Outcomes : EndRun(o)
    \/ \E ok \in BOOLEAN : DiscardOrphans(ok) \/ AckRoomSeen(ok) \/ RecordFailure(ok)
    \/ AckTrigger \/ EpilogueRaises \/ CheckUnread \/ Deliver \/ LaneError

Poll ==
    \/ PollQuery \/ Dispatch \/ RouteStart \/ RouteFetch \/ RouteRecheck
    \/ RouteAppend \/ RouteAckChatter \/ RouteFails

Next == Senders \/ Owner \/ Gates \/ Turn \/ Poll \/ Crash \/ Hook

Spec == Init /\ [][Next]_vars

-----------------------------------------------------------------------------
(* Properties.                                                              *)

PCs == {"idle", "queued", "admit", "decide", "render", "start", "running",
        "acking", "ended", "settle", "seen", "ackRead", "deliver", "record"}

BusType ==
    /\ kind \in [Msgs -> Kinds \cup {"none"}]
    /\ writing \subseteq Msgs /\ log \subseteq Msgs /\ stopped \subseteq Msgs
    /\ fails \in [Msgs -> Nat]
CursorType == cursor \in 0..MaxMsg /\ readCursor \in 0..MaxMsg
TurnType ==
    /\ pc \in PCs /\ outcome \in {"none", "ok", "cancelled", "failed"}
    /\ probe \in BOOLEAN /\ batch \subseteq Msgs
    /\ trig \in 0..MaxMsg /\ renderedFrom \in 0..MaxMsg
    /\ renderedThrough \in 0..MaxMsg /\ steeredThrough \in 0..MaxMsg
    /\ unsteeredGap \in BOOLEAN
RunType ==
    /\ rows \subseteq Msgs /\ registered \in BOOLEAN /\ pushed \in Seq(Msgs)
    /\ taken \in 0..Len(pushed) /\ acked \in 0..taken
    /\ dropped \subseteq Msgs /\ reporting \subseteq Msgs /\ consumed \subseteq Msgs
RouteType ==
    /\ rpc \in {"off", "candidate", "fetch", "recheck", "append"}
    /\ rmsgs \subseteq Msgs /\ rtodo \subseteq Msgs
CountType ==
    /\ admitted \in Nat /\ breaker \in {"closed", "open", "half"}
    /\ crashes \in Nat /\ faults \in Nat /\ retries \in Nat /\ trips \in Nat
GhostType ==
    /\ shown \subseteq Msgs /\ handled \subseteq Msgs /\ rateDropped \subseteq Msgs
    /\ parked \subseteq Msgs /\ late \subseteq Msgs /\ hidden \subseteq Msgs
    /\ unquoted \subseteq Msgs
    /\ undelivered \subseteq Msgs /\ overflow \subseteq Msgs /\ orphaned \in BOOLEAN

HookType == hookMark \in 0..MaxMsg /\ replies \in Nat

\* Every variable keeps its type.
TypeOK ==
    /\ BusType /\ CursorType /\ TurnType /\ RunType /\ RouteType
    /\ CountType /\ GhostType /\ HookType

\* A message addressed to the agent that the processing cursor has passed was
\* put in front of a turn, or left out by a rule of the code (the rate limiter, a
\* stopped tree, POISON_FAILURE_THRESHOLD failed turns), or is of one of five
\* kinds the cursor design cannot see: it landed out of order, it fell between a
\* turn's batch and its scrollback, it was a trigger older than the scrollback,
\* its POST to the run was lost, or the inbox was full.  No cursor write of a
\* turn, of a steer cycle or of a consumption report skips anything else.
Accounted ==
    shown \cup rateDropped \cup stopped \cup parked
        \cup late \cup hidden \cup unquoted \cup undelivered \cup overflow
NoSilentLoss == \A m \in Addressed(log) : m <= cursor => m \in Accounted

\* "The red line": the read cursor never passes a message that no prompt and no
\* steer ever showed, save those of a stopped tree, those that landed out of order
\* and those whose POST was lost (has_unread_before, unsteered_gap and
\* steer_cycles_in_flight together).  It is a promise of the trigger alone: an
\* after_turn hook breaks it.
ReadOnlyIfShown ==
    \A m \in log : m <= readCursor /\ kind[m] # "own" =>
        m \in shown \cup stopped \cup late \cup undelivered

\* A run is never steered a message twice, nor one its prompt already carries.
NoDoubleInjection ==
    registered =>
        /\ \A i \in DOMAIN pushed : pushed[i] > renderedThrough
        /\ \A i, j \in DOMAIN pushed : i # j => pushed[i] # pushed[j]

\* The floor: while the run lives, what was pushed and not yet reported is still
\* pending, so a run that dies now loses nothing it was only handed.
UnconsumedStaysPending ==
    registered => \A m \in Remembered : m > cursor \/ m \in late \cup undelivered

\* A steer row survives its run only when the process died, an append crossed the
\* release of the run, or the DELETE of the reclaim failed.
RowsReclaimed == pc = "idle" /\ rows # {} => orphaned \/ crashes > 0

\* A message whose turn failed fewer times than the threshold is retried: it is
\* still past the cursor until a turn that carried it ends well, or a rule of
\* the code drops it.
RetriedUntilParked ==
    \A m \in log : 0 < fails[m] /\ m <= cursor =>
        m \in handled \cup rateDropped \cup stopped \cup parked

\* Where a message stands with this agent, and the messages a rule of the lane, or
\* one of its known gaps, leaves out.
Stage(m) ==
    IF m \notin Addressed(log) THEN "absent"
    ELSE IF m > cursor THEN "waiting" ELSE "passed"
LeftOut ==
    rateDropped \cup stopped \cup late \cup hidden \cup unquoted \cup undelivered
        \cup overflow

\* To its senders the lane is a mailbox: one turn at a time answers a message that
\* still waits and is not parked, a message is passed once and with a reason, and a
\* turn that fails passes nothing.
Mail == INSTANCE Mailbox WITH
    Letters <- Msgs,
    Threshold <- PoisonThreshold,
    stage <- [m \in Msgs |-> Stage(m)],
    given <- shown,
    excused <- LeftOut,
    serving <- trig,
    tries <- fails

KeepsMailbox == Mail!Spec

-----------------------------------------------------------------------------
(* Liveness.  Every await of the poll loop and of a turn completes, a turn   *)
(* ends (the run layer's watchdogs), an INSERT that began lands, and a       *)
(* tripped breaker is re-armed sooner or later.                              *)

Fairness ==
    /\ WF_vars(Poll) /\ WF_vars(Turn) /\ WF_vars(BreakerCloses)
    /\ \A m \in Msgs : WF_vars(InsertMessage(m))

FairSpec == Spec /\ Fairness

\* No addressed message waits for ever: the cursor passes it, or it is parked,
\* or its tree is stopped.
EventuallySettled ==
    \A m \in Msgs : (m \in Addressed(log)) ~>
        (m <= cursor \/ Poisoned(m) \/ m \in stopped)

\* A team room converges: once a turn carried a message and ended well, the
\* read cursor reaches it, when the scrollback reaches back to the cursor, unless
\* the trigger process dies between the two.  Another promise of the trigger
\* alone: an after_turn hook writes what it read earlier and may pull it back.
ReadConverges ==
    \A m \in Msgs : (m \in handled) ~> (m <= readCursor \/ crashes > 0)

=============================================================================
