------------------------------ MODULE RunTree ------------------------------
(***************************************************************************)
(* The runs of trigger trees and their rows in the events table.  A run of *)
(* an agent writes to another agent; the message wakes a run of that one,  *)
(* which inherits the label of the tree (events.root_run_id).  The actors: *)
(*   - the workers process: lanes that fetch messages and drive runs       *)
(*     (message_bus_trigger.py, client.py), RunRecorder, CancelWatcher;    *)
(*   - the backend process: the cancel endpoint (runs.py), the sweep of    *)
(*     stale rows (main.py), and a chat run that may be the first root     *)
(*     (background_run.py).                                                *)
(* They share the database only.  A restart of a process kills its runs,   *)
(* its watcher and its requests.  Time is abstract: a heartbeat is fresh   *)
(* or stale.                                                               *)
(***************************************************************************)
EXTENDS Naturals, FiniteSets

CONSTANTS
    MaxRuns,    \* bound: runs that start
    MaxMsgs,    \* bound: messages, the root's own included
    MaxActs,    \* bound: stop requests
    MaxMishaps  \* bound: restarts, stalls and failing database calls, together

ASSUME TreeAssumption ==
    /\ MaxRuns \in Nat \ {0} /\ MaxMsgs \in Nat \ {0}
    /\ MaxActs \in Nat /\ MaxMishaps \in Nat

Runs == 1 .. MaxRuns
Msgs == 1 .. MaxMsgs
Trees == 0 .. MaxRuns    \* 0: no label

VARIABLES
    chat,      \* run 1 is a chat run, driven by the backend
    \* the bus: messages of the trees, with the label they carry
    msg, lab,
    \* the runs
    proc,      \* where the process that drives the run is
    woke,      \* the message that woke it, 0 for the chat run
    out,       \* how it ended
    token,     \* its CancellationToken is set
    watched,   \* its token is in the watcher's registry
    \* the events rows: state, root_run_id, cancel_requested_at, last_event_at
    state, label, flag, beat,
    void,      \* rows whose cancel_requested_at is older than their started_at
    \* the backend
    stopper,   \* the cancel request under way
    sweep,     \* the verdicts a sweep has yet to write
    \* bounds
    acts, mishaps,
    \* history variables: never read by the actions
    stalled,   \* runs whose heartbeat went stale while they were alive
    lost,      \* runs whose terminal write was lost
    raced,     \* runs that started between the stamp of a stop of their tree and its select
    answered   \* trees whose stop was answered, with a row flagged

busVars  == <<msg, lab>>
runVars  == <<proc, woke, out, token, watched>>
rowVars  == <<state, label, flag, beat, void>>
backVars == <<stopper, sweep>>
histVars == <<stalled, lost, raced, answered>>
vars == <<chat, busVars, runVars, rowVars, backVars, acts, mishaps, histVars>>

Terminal == {"completed", "cancelled", "failed"}
NoStop   == [pc |-> "idle", root |-> 0, seen |-> {}, todo |-> {}, hit |-> FALSE]
NoSweep  == [fail |-> {}, cancel |-> {}]

Init ==
    /\ chat \in BOOLEAN
    /\ msg = [m \in Msgs |-> IF m = 1 /\ ~chat THEN "pending" ELSE "none"]
    /\ lab = [m \in Msgs |-> 0]
    /\ proc = [r \in Runs |-> IF r = 1 /\ chat THEN "starting" ELSE "none"]
    /\ woke = [r \in Runs |-> 0]
    /\ out = [r \in Runs |-> "none"]
    /\ token = [r \in Runs |-> FALSE] /\ watched = [r \in Runs |-> FALSE]
    /\ state = [r \in Runs |-> "early"] /\ label = [r \in Runs |-> 0]
    /\ flag = [r \in Runs |-> FALSE] /\ beat = [r \in Runs |-> "fresh"]
    /\ stopper = NoStop /\ sweep = NoSweep
    /\ acts = 0 /\ mishaps = 0
    /\ void = {} /\ stalled = {} /\ lost = {} /\ raced = {} /\ answered = {}

Mishap == mishaps < MaxMishaps /\ mishaps' = mishaps + 1

IsChat(r) == chat /\ r = 1
At(r, p) == proc[r] = p
Goto(r, p) == proc' = [proc EXCEPT ![r] = p]
Put(r, s) == state' = [state EXCEPT ![r] = s]

-----------------------------------------------------------------------------
(* A lane takes a message and drives a run.                                  *)

\* Mutated TreeStopped: rows that settled are not asked.
RunningStopped(t) == t # 0 /\ \E r \in Runs : label[r] = t /\ flag[r] /\ state[r] = "running"

\* get_pending_messages: somebody in the tree was asked to stop; a message without
\* a label belongs to no tree.
TreeStopped(t) == t # 0 /\ \E r \in Runs : label[r] = t /\ flag[r]

Fetch(m, r) ==
    /\ msg[m] = "pending" /\ ~TreeStopped(lab[m])
    /\ At(r, "none") /\ \A q \in 1 .. r - 1 : ~At(q, "none")
    /\ msg' = [msg EXCEPT ![m] = "flight"]
    /\ woke' = [woke EXCEPT ![r] = m]
    /\ Goto(r, "starting")
    /\ UNCHANGED <<chat, lab, out, token, watched, rowVars, backVars, acts, mishaps, histVars>>

\* The label its messages carry: the one it inherited, or its own id.
TreeOf(r) == IF woke[r] = 0 \/ lab[woke[r]] = 0 THEN r ELSE lab[woke[r]]

\* root_run_id, written with the running flip
Stamped(r) == TreeOf(r)

\* Mutated Registered: runs that woke on a message of a tree only.
RegisteredChildren(r) == ~IsChat(r) /\ lab[woke[r]] # 0
\* on_event_id: every run of the bus is watched, a chat run is not.
Registered(r) == ~IsChat(r)

\* _bind_run_id, then on_event_id.  The flip may be lost: the row keeps the state
\* its INSERT gave it, which is not running.  started_at is drawn with the flip: a run
\* that drew it long before a late flip is one that flips early.
Bind(r) ==
    /\ At(r, "starting")
    /\ \/ /\ Put(r, "running") /\ label' = [label EXCEPT ![r] = Stamped(r)]
          /\ raced' = IF stopper.pc = "stamped" /\ stopper.root = Stamped(r)
                      THEN raced \cup {r} ELSE raced
          /\ UNCHANGED mishaps
       \/ Mishap /\ UNCHANGED <<state, label, raced>>
    /\ watched' = [watched EXCEPT ![r] = Registered(r)]
    /\ Goto(r, "alive")
    /\ UNCHANGED <<chat, busVars, woke, out, token, flag, beat, void, backVars, acts,
                   stalled, lost, answered>>

\* message_agent, message_team: the tool stamps the tree of the calling turn.
Send(r, m) ==
    /\ At(r, "alive")
    /\ msg[m] = "none" /\ \A n \in 2 .. m - 1 : msg[n] # "none"
    /\ m > 1
    /\ msg' = [msg EXCEPT ![m] = "pending"]
    /\ lab' = [lab EXCEPT ![m] = TreeOf(r)]
    /\ UNCHANGED <<chat, runVars, rowVars, backVars, acts, mishaps, histVars>>

\* _stop_applies: the request was stamped when the run had started.
StopApplies(r) == flag[r] /\ r \notin void

\* poll_once: one batched read; a token that fired is no longer watched.
WatchFires(r) ==
    /\ At(r, "alive") /\ watched[r] /\ StopApplies(r)
    /\ token' = [token EXCEPT ![r] = TRUE]
    /\ watched' = [watched EXCEPT ![r] = FALSE]
    /\ UNCHANGED <<chat, busVars, proc, woke, out, rowVars, backVars, acts, mishaps, histVars>>

\* The chat's own stop button, over its socket.
ChatStop ==
    /\ At(1, "alive") /\ chat /\ ~token[1] /\ acts < MaxActs
    /\ acts' = acts + 1 /\ token' = [token EXCEPT ![1] = TRUE]
    /\ UNCHANGED <<chat, busVars, proc, woke, out, watched, rowVars, backVars, mishaps, histVars>>

\* The turn ends, or raises CancelledByUser at its next checkpoint.
RunEnds(r, o) ==
    /\ At(r, "alive")
    /\ o = "cancelled" => token[r]
    /\ out' = [out EXCEPT ![r] = o]
    /\ watched' = [watched EXCEPT ![r] = FALSE]
    /\ Goto(r, "ended")
    /\ UNCHANGED <<chat, busVars, woke, token, rowVars, backVars, acts, mishaps, histVars>>

\* finalize: the terminal write, whatever the row says by now; it may be lost.
Finalize(r) ==
    /\ At(r, "ended")
    /\ \/ Put(r, out[r]) /\ UNCHANGED <<mishaps, lost>>
       \/ Mishap /\ lost' = lost \cup {r} /\ UNCHANGED state
    /\ Goto(r, IF IsChat(r) THEN "over" ELSE "acking")
    /\ UNCHANGED <<chat, busVars, woke, out, token, watched, label, flag, beat, void, backVars,
                   acts, stalled, raced, answered>>

\* A turn that ended is acked, a stopped one too; one that raised is recorded as a
\* failure and offered again, and so is one whose ack fails.
Ack(r) ==
    /\ At(r, "acking")
    /\ \/ msg' = [msg EXCEPT ![woke[r]] = "done"] /\ UNCHANGED mishaps
       \/ /\ msg' = [msg EXCEPT ![woke[r]] = "pending"]
          /\ IF out[r] = "failed" THEN UNCHANGED mishaps ELSE Mishap
    /\ Goto(r, "over")
    /\ UNCHANGED <<chat, lab, woke, out, token, watched, rowVars, backVars, acts, histVars>>

-----------------------------------------------------------------------------
(* Heartbeats, and the sweep.                                               *)

\* The host sleeps, or the heartbeat's writes fail, for three beats.
Stall(r) ==
    /\ proc[r] \in {"alive", "ended"} /\ state[r] = "running" /\ beat[r] = "fresh"
    /\ Mishap
    /\ beat' = [beat EXCEPT ![r] = "stale"] /\ stalled' = stalled \cup {r}
    /\ UNCHANGED <<chat, busVars, runVars, state, label, flag, void, backVars, acts, lost,
                   raced, answered>>

Beat(r) ==
    /\ proc[r] \in {"alive", "ended"} /\ beat[r] = "stale"
    /\ beat' = [beat EXCEPT ![r] = "fresh"]
    /\ UNCHANGED <<chat, busVars, runVars, state, label, flag, void, backVars, acts, mishaps,
                   histVars>>

\* Nobody beats any more.
GoesStale(r) ==
    /\ proc[r] \notin {"alive", "ended"} /\ state[r] = "running" /\ beat[r] = "fresh"
    /\ beat' = [beat EXCEPT ![r] = "stale"]
    /\ UNCHANGED <<chat, busVars, runVars, state, label, flag, void, backVars, acts, mishaps,
                   histVars>>

\* Mutated Stale: the backend restarted, so every running row is.
EveryRunning(r) == state[r] = "running"
\* ~run_is_live
Stale(r) == state[r] = "running" /\ beat[r] = "stale"

\* Mutated Swept: a row with a stop pending is left to the watcher.
SweptUnasked(S) == [fail |-> {r \in S : ~flag[r]}, cancel |-> {}]
\* Mutated Swept: every lost run counts as stopped.
SweptStopped(S) == [fail |-> {}, cancel |-> S]
\* A row settles as cancelled if a stop was pending when it was read.
Swept(S) == [fail |-> {r \in S : ~flag[r]}, cancel |-> {r \in S : flag[r]}]

SweepReads ==
    /\ sweep = NoSweep /\ \E r \in Runs : Stale(r)
    /\ sweep' = Swept({r \in Runs : Stale(r)})
    /\ UNCHANGED <<chat, busVars, runVars, rowVars, stopper, acts, mishaps, histVars>>

\* One row at a time, without a condition; a write that fails is left for the next.
SweepWrites(r) ==
    /\ r \in sweep.fail \cup sweep.cancel
    /\ \A q \in sweep.fail \cup sweep.cancel : r <= q
    /\ sweep' = [fail |-> sweep.fail \ {r}, cancel |-> sweep.cancel \ {r}]
    /\ \/ Put(r, IF r \in sweep.cancel THEN "cancelled" ELSE "failed") /\ UNCHANGED mishaps
       \/ Mishap /\ UNCHANGED state
    /\ UNCHANGED <<chat, busVars, runVars, label, flag, beat, void, stopper, acts, histVars>>

-----------------------------------------------------------------------------
(* cancel_run.                                                              *)

\* The row is read; one that is not running is answered as settled.
StopReads(r) ==
    /\ stopper.pc = "idle" /\ acts < MaxActs /\ state[r] = "running"
    /\ acts' = acts + 1
    /\ stopper' = [NoStop EXCEPT !.pc = "read", !.root = label[r]]
    /\ UNCHANGED <<chat, busVars, runVars, rowVars, sweep, mishaps, histVars>>

Started == {r \in Runs : ~At(r, "none") /\ ~At(r, "starting")}

\* requested_at is drawn here, before the select: whoever starts from now on is younger.
StopStamps ==
    /\ stopper.pc = "read"
    /\ stopper' = [stopper EXCEPT !.pc = "stamped", !.seen = Started]
    /\ UNCHANGED <<chat, busVars, runVars, rowVars, sweep, acts, mishaps, histVars>>

\* The running rows of its tree; the flagged ones keep the stamp they have.
StopSelects ==
    /\ stopper.pc = "stamped"
    /\ LET tree == {r \in Runs : label[r] = stopper.root /\ state[r] = "running"} IN
         stopper' = [stopper EXCEPT !.pc = "flagging", !.todo = {r \in tree : ~flag[r]},
                                    !.hit = \E r \in tree : flag[r]]
    /\ UNCHANGED <<chat, busVars, runVars, rowVars, sweep, acts, mishaps, histVars>>

StopFlags(r) ==
    /\ r \in stopper.todo /\ \A q \in stopper.todo : r <= q
    /\ \/ /\ flag' = [flag EXCEPT ![r] = TRUE]
          /\ void' = IF r \in stopper.seen THEN void ELSE void \cup {r}
          /\ stopper' = [stopper EXCEPT !.todo = @ \ {r}, !.hit = TRUE]
          /\ UNCHANGED mishaps
       \/ /\ Mishap
          /\ stopper' = [stopper EXCEPT !.todo = @ \ {r}]
          /\ UNCHANGED <<flag, void>>
    /\ UNCHANGED <<chat, busVars, runVars, state, label, beat, sweep, acts, histVars>>

\* "success", however many rows were flagged.
StopAnswers ==
    /\ stopper.pc = "flagging" /\ stopper.todo = {}
    /\ stopper' = NoStop
    /\ answered' = IF stopper.hit THEN answered \cup {stopper.root} ELSE answered
    /\ UNCHANGED <<chat, busVars, runVars, rowVars, sweep, acts, mishaps, stalled, lost,
                   raced>>

-----------------------------------------------------------------------------
(* Restarts.                                                                *)

Driven == {"starting", "alive", "ended", "acking"}

\* Mutated Requeued: what a lane had in flight stays with it.
LeftInFlight == msg
\* No cursor has passed what was in flight: it is offered again.
Requeued == [m \in Msgs |-> IF msg[m] = "flight" THEN "pending" ELSE msg[m]]

\* The workers process: what its lanes had in flight is pending again.  A graceful
\* one lets its runs fail and settle first (RunEnds, Finalize).
WorkersRestart ==
    /\ Mishap
    /\ \E r \in Runs : proc[r] \in Driven /\ ~IsChat(r)
    /\ proc' = [r \in Runs |-> IF proc[r] \in Driven /\ ~IsChat(r) THEN "dead" ELSE proc[r]]
    /\ msg' = Requeued
    /\ watched' = [r \in Runs |-> FALSE]
    /\ UNCHANGED <<chat, lab, woke, out, token, rowVars, backVars, acts, histVars>>

BackendRestart ==
    /\ Mishap
    /\ proc' = [r \in Runs |-> IF proc[r] \in Driven /\ IsChat(r) THEN "dead" ELSE proc[r]]
    /\ stopper' = NoStop /\ sweep' = NoSweep
    /\ UNCHANGED <<chat, busVars, woke, out, token, watched, rowVars, acts, histVars>>

-----------------------------------------------------------------------------
Drive(r) ==
    \/ \E m \in Msgs : Fetch(m, r) \/ Send(r, m)
    \/ Bind(r) \/ WatchFires(r) \/ Finalize(r) \/ Ack(r)
    \/ \E o \in Terminal : RunEnds(r, o)

Next ==
    \/ \E r \in Runs :
          \/ Drive(r) \/ Stall(r) \/ Beat(r) \/ GoesStale(r)
          \/ SweepWrites(r) \/ StopReads(r) \/ StopFlags(r)
    \/ ChatStop \/ SweepReads \/ StopStamps \/ StopSelects \/ StopAnswers
    \/ WorkersRestart \/ BackendRestart

Spec == Init /\ [][Next]_vars

\* The watcher polls every second, a run meets its next checkpoint, the sweep repeats
\* and a request is served.  No turn is assumed to end by itself, and nothing of the
\* owner, of stalls or of restarts.
Fairness ==
    /\ \A r \in Runs :
          /\ WF_vars(Bind(r)) /\ WF_vars(Finalize(r)) /\ WF_vars(Ack(r))
          /\ WF_vars(WatchFires(r)) /\ WF_vars(RunEnds(r, "cancelled"))
          /\ WF_vars(Beat(r)) /\ WF_vars(GoesStale(r)) /\ WF_vars(SweepWrites(r))
          /\ WF_vars(StopFlags(r))
    /\ WF_vars(SweepReads)
    /\ WF_vars(StopStamps) /\ WF_vars(StopSelects) /\ WF_vars(StopAnswers)

FairSpec == Spec /\ Fairness

-----------------------------------------------------------------------------
(* Properties.                                                              *)

\* Types; and a running row carries the label of its tree, which is what a stop of
\* the tree selects it by.
TypeOK ==
    /\ chat \in BOOLEAN
    /\ msg \in [Msgs -> {"none", "pending", "flight", "done"}] /\ lab \in [Msgs -> Trees]
    /\ proc \in [Runs -> Driven \cup {"none", "over", "dead"}]
    /\ woke \in [Runs -> 0 .. MaxMsgs] /\ out \in [Runs -> Terminal \cup {"none"}]
    /\ token \in [Runs -> BOOLEAN] /\ watched \in [Runs -> BOOLEAN]
    /\ state \in [Runs -> Terminal \cup {"early", "running"}] /\ label \in [Runs -> Trees]
    /\ flag \in [Runs -> BOOLEAN] /\ beat \in [Runs -> {"fresh", "stale"}]
    /\ stopper.pc \in {"idle", "read", "stamped", "flagging"} /\ stopper.root \in Trees
    /\ stopper.seen \subseteq Runs /\ stopper.todo \subseteq Runs /\ stopper.hit \in BOOLEAN
    /\ sweep.fail \subseteq Runs /\ sweep.cancel \subseteq Runs
    /\ \A r \in Runs : state[r] = "running" => label[r] # 0
    /\ acts \in 0 .. MaxActs /\ mishaps \in 0 .. MaxMishaps
    /\ stalled \subseteq Runs /\ lost \subseteq Runs
    /\ void \subseteq Runs /\ raced \subseteq Runs
    /\ answered \subseteq Trees

\* A message is with one run at a time, and with one that is still driven: whatever
\* restarts, failing acks and retries do, none is handed to two runs, and none is left
\* to a run that is gone, where nobody would offer it again (_process_lane).
Carries(r, m) == proc[r] \in Driven /\ woke[r] = m
FlightIsDriven ==
    /\ \A m \in Msgs : msg[m] = "flight" => \E r \in Runs : Carries(r, m)
    /\ \A m \in Msgs, q, r \in Runs : Carries(q, m) /\ Carries(r, m) => q = r

\* Whoever can no longer be stopped started between the stamp of a stop of its tree and
\* that stop's select.  Any other live run of the bus has its token set, or is watched
\* and its row holds no stamp the watcher would refuse for ever, so that a click on it,
\* now or later, is honoured (cancel_run, _stop_applies).
StopReachable ==
    \A r \in Runs \ raced :
        At(r, "alive") /\ ~IsChat(r) => token[r] \/ (watched[r] /\ r \notin void)

\* A tree whose stop was answered with a row flagged wakes no further run, although
\* its root may have settled before, its runs go on sending until they are reached,
\* and restarts put messages back (get_pending_messages).
TreeStaysStopped ==
    [][\A m \in Msgs :
          msg[m] = "pending" /\ msg'[m] = "flight" => lab[m] \notin answered]_vars

\* The sweep judges the dead only: a run that goes on is not settled, and the row of
\* one that finished says what the run did, unless its heartbeat had stalled while it
\* lived; if its terminal write was lost, the sweep's guess stands in for it
\* (sweep_stale_runs, run_is_live, finalize).
VerdictStands ==
    \A r \in Runs \ stalled :
        /\ proc[r] \in {"alive", "ended"} => state[r] \in {"early", "running"}
        /\ state[r] \in Terminal /\ proc[r] \in {"acking", "over"} =>
              IF r \in lost THEN state[r] = "failed" \/ (state[r] = "cancelled" /\ flag[r])
                            ELSE state[r] = out[r]

\* A run that was asked to stop does not go on: the request travels through the row
\* to the process that holds the token (CancelWatcher).  A chat run in a flagged tree
\* is watched by nobody, and a stamp older than the run's start is not honoured: only a
\* run that started within the window of StopReachable holds one.
StopLands ==
    \A r \in Runs :
        StopApplies(r) /\ At(r, "alive") /\ state[r] = "running" /\ ~IsChat(r)
            ~> ~At(r, "alive")

\* No row runs for ever after its run is gone, with or without a stop pending.
OrphansSettle ==
    \A r \in Runs :
        state[r] = "running" /\ proc[r] \notin {"alive", "ended"} ~> state[r] # "running"

\* The rows keep the promises of RunLife, liveness included.
Life == INSTANCE RunLife WITH
    NRuns <- MaxRuns,
    life <- [r \in Runs |-> IF state[r] = "early" THEN "unseen" ELSE state[r]],
    asked <- [r \in Runs |-> flag[r] \/ token[r]],
    deaf <- (IF chat THEN {1} ELSE {}) \cup void,
    suspect <- stalled

KeepsLife == Life!LifeSpec
\* The same without its fairness.
KeepsLifeSafely == Life!LifeInit /\ [][Life!LifeNext]_(Life!lifeVars)
=============================================================================
