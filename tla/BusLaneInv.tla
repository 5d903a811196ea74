----------------------------- MODULE BusLaneInv -----------------------------
(***************************************************************************)
(* The inductive invariant of a lane.  It strengthens NoSilentLoss by what *)
(* each process in mid-step has promised: every cursor write that a batch, *)
(* a trigger, a consumption report or a chatter ack will make later skips  *)
(* only messages that are accounted for.                                   *)
(***************************************************************************)
EXTENDS BusLane

Routing   == rpc \in {"fetch", "recheck", "append"}
Preparing == pc \in {"queued", "admit", "decide", "render", "start"}
Rendered  == pc \in {"start", "running", "acking", "ended", "settle"}
HasTrigger == pc \in {"render", "start", "running", "acking", "ended", "settle",
                      "seen", "ackRead", "deliver", "record"}

\* Every row that is an addressed message up to ts is accounted for, or in S.
Settled(ts, S) == \A k \in Addressed(log) : k <= ts => k \in Accounted \cup S

\* A cursor is a row of the log, and a row has a kind.
LogShape ==
    /\ \A m \in log \cup writing : kind[m] # "none"
    /\ cursor \in log \cup {0}

\* What the turn holds.
TurnShape ==
    /\ batch \subseteq log
    /\ renderedThrough \in log \cup {0}
    /\ pc = "decide" => batch # {}
    /\ HasTrigger => trig \in Addressed(batch) /\ trig <= renderedThrough
    /\ pc = "acking" => reporting # {}
    /\ pc = "ended" => outcome \in {"ok", "cancelled", "failed"}
    /\ ~InFlight => renderedThrough = 0

\* What the poll loop and the queue of the run hold.
RouteShape ==
    /\ rmsgs \subseteq log
    /\ rtodo \subseteq Addressed(rmsgs)
    /\ rpc # "append" => rtodo = {}
    /\ \A i \in DOMAIN pushed : pushed[i] \in log

Shape == LogShape /\ TurnShape /\ RouteShape

\* A run is registered only while it runs, and no steer cycle is under way while
\* a turn prepares its run: one poll loop does both.
Exclusion ==
    /\ registered => pc \in {"running", "acking"}
    /\ Routing => ~Preparing

\* The poison filter hides only parked messages.
ParkedInv == \A m \in Msgs : Poisoned(m) => m \in parked

\* The batch was complete up to its newest message when it was read.
BatchInv == pc \in {"decide", "render"} => \A b \in batch : Settled(b, batch)

\* The prompt showed all that is pending below the watermark, save `hidden'.
RenderedInv == Rendered \/ Routing => Settled(renderedThrough, {})

\* The steered messages that came before position i of the queue.
Before(i) == {pushed[j] : j \in {n \in DOMAIN pushed : n < i}}

\* Messages are pushed in order, none is jumped, and what the run's transport
\* took has been shown or is known to be lost.
PushedInv ==
    /\ \A i \in DOMAIN pushed : Settled(pushed[i] - 1, Before(i))
    /\ \A i \in 1..taken : pushed[i] \in shown \cup undelivered
    /\ reporting \subseteq {pushed[i] : i \in 1..acked}
    /\ consumed \subseteq {pushed[i] : i \in 1..acked}
    /\ registered \/ Routing => rows \subseteq Range(pushed)

\* What a steer cycle read is complete up to its newest message.
RoutedInv ==
    /\ rpc = "recheck" => \A r \in rmsgs : Settled(r, rmsgs)
    /\ rpc = "append" => \A r \in rmsgs : Settled(r, rtodo \cup Range(pushed))

IInv ==
    /\ TypeOK /\ Shape /\ Exclusion /\ ParkedInv /\ BatchInv /\ RenderedInv
    /\ PushedInv /\ RoutedInv /\ NoSilentLoss
=============================================================================
