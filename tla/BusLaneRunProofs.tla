--------------------------- MODULE BusLaneRunProofs ---------------------------
(***************************************************************************)
(* Theorems about the run of a lane: what is pushed to it is pushed once   *)
(* and is new to it, no row of its inbox outlives it without a reason, the *)
(* cursors pass neither what it has yet to read nor, in a DM, what has yet *)
(* to be retried, and a room is read only as far as it was shown.  All     *)
(* rest on the inductive invariant of BusLaneInv.                          *)
(***************************************************************************)
EXTENDS BusLaneProofs

\* A row of steer_inbox belongs to the registered run, to a run that ended and
\* has not been torn down yet, or has a reason to be left over.
RowsInv == rows # {} => orphaned \/ crashes > 0 \/ registered \/ pc = "ended"

\* What a registered run was pushed is newer than its prompt, is still under a
\* dedup key of its inbox, and so is what the steer cycle under way holds.
QueueInv ==
    /\ registered =>
         /\ \A i \in DOMAIN pushed : pushed[i] > renderedThrough
         /\ \A i, j \in DOMAIN pushed : i # j => pushed[i] # pushed[j]
         /\ \A i \in DOMAIN pushed : pushed[i] \in Inboxed
         /\ rpc \in {"recheck", "append"} => \A m \in rmsgs : m > renderedThrough
    /\ pc = "running" => reporting = {}

-----------------------------------------------------------------------------
(* Rows.                                                                     *)

LEMMA RowsStep == IInv /\ RowsInv /\ Next => RowsInv'
<1> SUFFICES ASSUME IInv, RowsInv, Next, rows' # {}
             PROVE  orphaned' \/ crashes' > 0 \/ registered' \/ pc' = "ended"
  BY DEF RowsInv
<1> USE DEF IInv, RowsInv, Exclusion
<1>1. crashes \in Nat /\ orphaned \in BOOLEAN
  BY DEF TypeOK, CountType, GhostType
<1>2. crashes > 0 => crashes' > 0
  <2>1. crashes' = crashes \/ crashes' = crashes + 1
    BY DEF Next, Senders, StampMessage, InsertMessage, Owner, StopTree, RetryFailure,
       Gates, BreakerTrips, BreakerCloses, RateWindowSlides, Hook, AfterTurnReads,
       AfterTurnMarks, Poll, PollQuery, Dispatch, RouteStart, RouteFetch, RouteRecheck,
       RouteAppend, RouteAckChatter, RouteFails, Crash, boundVars, Turn, BreakerGate,
       FetchBatch, SkipUnaddressed, RateLimited, ProbeRefused, StartTurn, RenderPrompt,
       BindRun, TakeSteered, MarkConsumed, AckConsumed, EndRun, DiscardOrphans,
       AckTrigger, AckRoomSeen, RecordFailure, EpilogueRaises, CheckUnread, Deliver, LaneError
  <2> QED BY <1>1, <2>1
<1>3. orphaned => orphaned'
  BY GhostFrame DEF GhostSteps, ghostVars, InsertMessage, RateLimited, RenderPrompt,
     AckTrigger, RouteAppend, TakeSteered, DiscardOrphans, RecordFailure
<1>4. CASE BindRun
  BY <1>4 DEF BindRun
<1>5. CASE Crash
  BY <1>5, <1>1 DEF Crash
<1>6. CASE RouteAppend
  <2>1. UNCHANGED <<registered, pc>> /\ (rows' = rows \/ orphaned' \/ registered)
    BY <1>6 DEF RouteAppend, turnVars
  <2> QED BY <2>1, <1>2, <1>3
<1>7. ASSUME NEW o \in Outcomes, EndRun(o)
      PROVE  orphaned' \/ crashes' > 0 \/ registered' \/ pc' = "ended"
  BY <1>7, <1>2, <1>3 DEF EndRun
<1>8. ASSUME NEW ok \in BOOLEAN, DiscardOrphans(ok)
      PROVE  orphaned' \/ crashes' > 0 \/ registered' \/ pc' = "ended"
  BY <1>8 DEF DiscardOrphans
<1>9. ASSUME NEW ok \in BOOLEAN, TakeSteered(ok) \/ MarkConsumed(ok) \/ AckConsumed(ok)
      PROVE  orphaned' \/ crashes' > 0 \/ registered' \/ pc' = "ended"
  <2>1. rows' \subseteq rows /\ registered' = registered /\ pc \in {"running", "acking"}
    BY <1>9 DEF TakeSteered, MarkConsumed, AckConsumed
  <2> QED BY <2>1, <1>2, <1>3
<1>10. CASE UNCHANGED <<runVars, rows>>
  <2>1. CASE pc = "ended" /\ pc' # "ended"
    BY <2>1, <1>10, <1>5, <1>8, TurnFrame DEF Turn, Dispatch, RouteRecheck, turnVars, BreakerGate,
     FetchBatch, SkipUnaddressed, RateLimited, ProbeRefused, StartTurn, RenderPrompt,
     BindRun, TakeSteered, MarkConsumed, AckConsumed, EndRun, InFlight,
     AckTrigger, AckRoomSeen, RecordFailure, EpilogueRaises, CheckUnread, Deliver, LaneError
  <2>2. CASE ~(pc = "ended" /\ pc' # "ended")
    BY <2>2, <1>10, <1>2, <1>3 DEF runVars
  <2> QED BY <2>1, <2>2
<1> QED BY <1>4, <1>5, <1>6, <1>7, <1>8, <1>9, <1>10, RunFrame DEF RunSteps

-----------------------------------------------------------------------------
(* The queue of a registered run.                                            *)

\* While a run stays registered its prompt stays as it was.
LEMMA RunStays ==
    ASSUME IInv, Next, registered', ~BindRun
    PROVE  /\ registered /\ pc \in {"running", "acking"} /\ renderedThrough' = renderedThrough
           /\ \/ RouteAppend
              \/ \E ok \in BOOLEAN : TakeSteered(ok) \/ MarkConsumed(ok) \/ AckConsumed(ok)
              \/ UNCHANGED <<runVars, rows>>
<1>1. ~Crash /\ \A o \in Outcomes : ~EndRun(o)
  BY DEF Crash, EndRun
<1>2. registered
  BY <1>1, RunFrame DEF RunSteps, RouteAppend, TakeSteered, MarkConsumed, AckConsumed,
     DiscardOrphans, runVars
<1>3. pc \in {"running", "acking"}
  BY <1>2 DEF IInv, Exclusion
<1>4. renderedThrough' = renderedThrough
  <2>1. CASE Turn
    BY <2>1, <1>1, <1>3 DEF Turn, BreakerGate, FetchBatch, SkipUnaddressed, RateLimited,
       ProbeRefused, StartTurn, RenderPrompt, BindRun, TakeSteered, MarkConsumed,
       AckConsumed, DiscardOrphans, AckTrigger, AckRoomSeen, RecordFailure,
       EpilogueRaises, CheckUnread, Deliver, LaneError, flightVars
  <2>2. CASE Dispatch \/ RouteRecheck
    BY <2>2, <1>3 DEF Dispatch, InFlight, RouteRecheck
  <2> QED BY <2>1, <2>2, <1>1, TurnFrame DEF flightVars
<1>5. \A ok \in BOOLEAN : ~DiscardOrphans(ok)
  BY <1>3 DEF DiscardOrphans
<1> QED BY <1>1, <1>2, <1>3, <1>4, <1>5, RunFrame DEF RunSteps

\* Between two reports none is being written.
LEMMA ReportingStep == IInv /\ QueueInv /\ Next => (pc' = "running" => reporting' = {})
<1> SUFFICES ASSUME IInv, QueueInv, Next, pc' = "running" PROVE reporting' = {}
  OBVIOUS
<1>1. CASE Turn
  BY <1>1 DEF QueueInv, Turn, BreakerGate, FetchBatch, SkipUnaddressed, RateLimited,
     ProbeRefused, StartTurn, RenderPrompt, BindRun, TakeSteered, MarkConsumed, turnVars,
     AckConsumed, EndRun, DiscardOrphans, Epilogue, AckTrigger, AckRoomSeen, RecordFailure,
     EpilogueRaises, CheckUnread, Deliver, LaneError, LeaveLane
<1>2. CASE ~Turn /\ ~Crash /\ ~Dispatch
  <2>1. pc' = pc
    BY <1>2, TurnFrame DEF RouteRecheck, turnVars
  <2>2. reporting' = reporting
    BY <1>2, RunFrame DEF RunSteps, Turn, RouteAppend, runVars
  <2> QED BY <2>1, <2>2 DEF QueueInv
<1> QED BY <1>1, <1>2 DEF Crash, LeaveLane, Dispatch

\* A message that was pushed stays under a dedup key of the inbox.
LEMMA InboxedStep ==
    ASSUME IInv, QueueInv, Next, registered', ~BindRun,
           NEW m \in Inboxed
    PROVE  m \in Inboxed'
<1>1. CASE RouteAppend
  BY <1>1 DEF RouteAppend, Inboxed
<1>2. ASSUME NEW ok \in BOOLEAN, TakeSteered(ok) PROVE m \in Inboxed'
  BY <1>2 DEF TakeSteered, Inboxed
<1>3. ASSUME NEW ok \in BOOLEAN, MarkConsumed(ok) PROVE m \in Inboxed'
  BY <1>3 DEF MarkConsumed, Inboxed, QueueInv
<1>4. ASSUME NEW ok \in BOOLEAN, AckConsumed(ok) PROVE m \in Inboxed'
  BY <1>4 DEF AckConsumed, Inboxed
<1>5. CASE UNCHANGED <<runVars, rows>>
  BY <1>5 DEF Inboxed, runVars
<1> QED BY <1>1, <1>2, <1>3, <1>4, <1>5, RunStays

\* What a steer cycle holds is newer than the prompt of the run it steers.
LEMMA HeldNewer ==
    ASSUME IInv, QueueInv, Next, registered', ~BindRun,
           rpc' \in {"recheck", "append"}
    PROVE  \A m \in rmsgs' : m > renderedThrough'
<1>1. registered /\ renderedThrough' = renderedThrough
  BY RunStays
<1>2. CASE RouteFetch
  BY <1>1, <1>2 DEF RouteFetch
<1>3. CASE RouteRecheck \/ RouteAppend
  BY <1>1, <1>3 DEF RouteRecheck, RouteAppend, QueueInv
<1>4. CASE Poll /\ ~RouteFetch /\ ~RouteRecheck /\ ~RouteAppend
  BY <1>4 DEF Poll, PollQuery, Dispatch, RouteStart, RouteAckChatter, RouteFails
<1>5. CASE UNCHANGED routeVars
  BY <1>1, <1>5 DEF routeVars, QueueInv
<1> QED BY <1>2, <1>3, <1>4, <1>5, RouteFrame DEF Crash

LEMMA PushStep ==
    ASSUME IInv, QueueInv, Next, registered', ~BindRun
    PROVE  /\ \A i \in DOMAIN pushed' : pushed'[i] > renderedThrough'
           /\ \A i, j \in DOMAIN pushed' : i # j => pushed'[i] # pushed'[j]
           /\ \A i \in DOMAIN pushed' : pushed'[i] \in Inboxed'
<1> USE DEF QueueInv
<1>1. registered /\ renderedThrough' = renderedThrough /\ ~Crash
  BY RunStays DEF Crash
<1>2. CASE pushed' = pushed
  BY <1>1, <1>2, InboxedStep
<1>3. CASE RouteAppend /\ pushed' # pushed
  <2> DEFINE m == Min(rtodo)
  <2>1. rtodo # {} /\ m \in rtodo /\ rtodo \subseteq rmsgs /\ m \in Msgs
    <3>1. rtodo # {} /\ rtodo \subseteq Msgs /\ rtodo \subseteq rmsgs
      BY <1>3 DEF RouteAppend, IInv, TypeOK, RouteType, Shape, RouteShape, Addressed
    <3> QED BY <3>1, MinIn
  <2>2. m \notin Inboxed /\ pushed' = Append(pushed, m) /\ m \in Inboxed'
    BY <1>3 DEF RouteAppend, Inboxed
  <2>3. m > renderedThrough
    BY <1>1, <1>3, <2>1 DEF RouteAppend
  <2>4. pushed \in Seq(Msgs)
    BY DEF IInv, TypeOK, RunType
  <2>5. /\ DOMAIN pushed' = DOMAIN pushed \cup {Len(pushed) + 1}
        /\ \A i \in DOMAIN pushed : pushed'[i] = pushed[i]
        /\ pushed'[Len(pushed) + 1] = m
    BY <2>1, <2>2, <2>4
  <2>6. \A i \in DOMAIN pushed : pushed[i] # m
    BY <1>1, <2>2
  <2> HIDE DEF m
  <2> QED BY <1>1, <2>2, <2>3, <2>5, <2>6, InboxedStep
<1> QED BY <1>1, <1>2, <1>3, PushedFrame

LEMMA QueueInvStep == IInv /\ QueueInv /\ Next => QueueInv'
<1> SUFFICES ASSUME IInv, QueueInv, Next PROVE QueueInv'
  OBVIOUS
<1>1. CASE BindRun
  <2>1. pushed' = <<>> /\ reporting' = {} /\ rpc' = rpc
    BY <1>1 DEF BindRun, routeVars
  <2>2. rpc \notin {"recheck", "append"}
    BY <1>1 DEF BindRun, IInv, Exclusion, Routing, Preparing
  <2>3. DOMAIN pushed' = {}
    BY <2>1
  <2> QED BY <2>1, <2>2, <2>3 DEF QueueInv
<1>2. CASE ~BindRun
  BY <1>2, PushStep, HeldNewer, ReportingStep DEF QueueInv
<1> QED BY <1>1, <1>2

-----------------------------------------------------------------------------
(* Peer DMs.  No run is steered there, so the cursor moves only at the end   *)
(* of a turn: between the read of a batch and its settlement it stands still.*)

Excused == handled \cup rateDropped \cup stopped \cup parked

\* The turn holds a batch that has not been settled.
Carrying == pc \in {"decide", "render", "start", "running", "ended", "settle"}

\* No run of a DM is registered, so nothing is ever pushed, reported or steered.
Unsteered ==
    /\ ~registered /\ pushed = <<>> /\ pc # "acking"
    /\ rpc \in {"off", "candidate"}

\* A failure is counted against a row that is addressed to the agent.
FailedAddressed == \A m \in Msgs : fails[m] > 0 => m \in log /\ kind[m] = "addressed"

\* The batch lies past the cursor and holds every message below its newest one
\* that failed and has no excuse.
CarryInv ==
    Carrying => \A b \in batch :
        /\ b > cursor
        /\ \A k \in log : fails[k] > 0 /\ k <= b => k \in batch \cup Excused

\* A trigger the cursor has passed was handled, also when it is recorded as a
\* failure after all.
DoneInv ==
    /\ pc \in {"seen", "ackRead", "deliver"} => trig \in handled
    /\ pc = "record" => trig > cursor \/ trig \in handled

DmInv == Unsteered /\ FailedAddressed /\ CarryInv /\ DoneInv /\ RetriedUntilParked

LEMMA UnsteeredStep ==
    ASSUME ~IsTeam, IInv, Unsteered, Next
    PROVE  Unsteered'
<1> USE DEF Unsteered
<1>1. ~registered' /\ pushed' = <<>>
  <2>1. ~RouteAppend
    BY DEF RouteAppend
  <2>2. ASSUME NEW ok \in BOOLEAN,
               TakeSteered(ok) \/ MarkConsumed(ok) \/ AckConsumed(ok) \/ DiscardOrphans(ok)
        PROVE  ~registered' /\ pushed' = <<>>
    BY <2>2 DEF TakeSteered, MarkConsumed, AckConsumed, DiscardOrphans, runVars
  <2> QED BY <2>1, <2>2, RunFrame DEF RunSteps, BindRun, Crash, EndRun, runVars
<1>2. rpc' \in {"off", "candidate"}
  BY RouteFrame DEF Poll, PollQuery, Dispatch, RouteStart, LiveRun, RouteFetch, RouteRecheck,
     RouteAppend, RouteAckChatter, RouteFails, Crash, routeVars
<1>3. pc' # "acking"
  <2>1. ASSUME NEW ok \in BOOLEAN, MarkConsumed(ok) PROVE FALSE
    <3>1. taken = 0 /\ acked \in Nat
      BY DEF IInv, TypeOK, RunType
    <3>2. (acked + 1)..taken = {}
      BY <3>1
    <3> QED BY <2>1, <3>2 DEF MarkConsumed
  <2>2. CASE Turn
    BY <2>1, <2>2 DEF Turn, BreakerGate, FetchBatch, SkipUnaddressed, RateLimited,
       ProbeRefused, StartTurn, RenderPrompt, BindRun, TakeSteered, turnVars,
       AckConsumed, EndRun, DiscardOrphans, Epilogue, AckTrigger, AckRoomSeen, RecordFailure,
       EpilogueRaises, CheckUnread, Deliver, LaneError, LeaveLane
  <2>3. CASE Dispatch \/ RouteRecheck \/ Crash
    BY <2>3 DEF Dispatch, RouteRecheck, Crash, LeaveLane, turnVars
  <2> QED BY <2>2, <2>3, TurnFrame DEF turnVars
<1> QED BY <1>1, <1>2, <1>3

\* Reasons are never taken back.
LEMMA ExcusedGrows == Next => Excused \subseteq Excused' /\ handled \subseteq handled'
<1> SUFFICES ASSUME Next PROVE Excused \subseteq Excused' /\ handled \subseteq handled'
  OBVIOUS
<1>1. /\ handled \subseteq handled' /\ rateDropped \subseteq rateDropped'
      /\ parked \subseteq parked'
  BY GhostFrame DEF GhostSteps, ghostVars, InsertMessage, RateLimited, RenderPrompt,
     AckTrigger, RouteAppend, TakeSteered, DiscardOrphans, RecordFailure
<1>2. stopped \subseteq stopped'
  BY BusFrame DEF BusSteps, Senders, StampMessage, InsertMessage, Owner, StopTree,
     RetryFailure, RecordFailure, busVars
<1> QED BY <1>1, <1>2 DEF Excused

\* What a step does to the failure counts: only the trigger of a turn gains one.
LEMMA FailsStep ==
    ASSUME IInv, Next
    PROVE  \A m \in Msgs : fails'[m] > 0 =>
              \/ fails[m] > 0
              \/ pc = "record" /\ m = trig /\ pc' = "idle" /\ UNCHANGED <<log, kind, cursor>>
<1> USE DEF IInv, TypeOK, BusType
<1>1. CASE Senders
  BY <1>1 DEF Senders, StampMessage, InsertMessage, ackVars
<1>2. CASE Owner
  BY <1>2 DEF Owner, StopTree, RetryFailure, ackVars
<1>3. ASSUME NEW ok \in BOOLEAN, RecordFailure(ok), NEW m \in Msgs, fails'[m] > 0, m # trig
      PROVE  fails[m] > 0
  BY <1>3 DEF RecordFailure, CountFailure
<1>4. ASSUME NEW ok \in BOOLEAN, RecordFailure(ok)
      PROVE  pc = "record" /\ pc' = "idle" /\ UNCHANGED <<log, kind, cursor>>
  BY <1>4 DEF RecordFailure, LeaveLane, busVars
<1> QED BY <1>1, <1>2, <1>3, <1>4, BusFrame DEF BusSteps

LEMMA FailedAddressedStep == ASSUME IInv, FailedAddressed, Next PROVE FailedAddressed'
<1> SUFFICES ASSUME NEW m \in Msgs, fails'[m] > 0
             PROVE  m \in log' /\ kind'[m] = "addressed"
  BY DEF FailedAddressed
<1>1. log \subseteq log' /\ \A k \in log : kind'[k] = kind[k]
  BY LogGrows DEF IInv
<1>2. CASE fails[m] > 0
  BY <1>1, <1>2 DEF FailedAddressed
<1>3. CASE pc = "record" /\ m = trig
  BY <1>1, <1>3 DEF IInv, Shape, TurnShape, HasTrigger, Addressed
<1> QED BY <1>2, <1>3, FailsStep

LEMMA DmCursor ==
    ASSUME Unsteered, Next
    PROVE  SkipUnaddressed \/ RateLimited \/ AckTrigger \/ UNCHANGED cursor
BY CursorFrame DEF CursorSteps, Unsteered, RouteAckChatter, AckConsumed

\* A read holds every failed message below its newest one that has no excuse.
LEMMA FailedPending ==
    ASSUME IInv, FailedAddressed, RetriedUntilParked,
           NEW b \in GetPending, NEW k \in log, fails[k] > 0, k <= b
    PROVE  k \in GetPending \cup Excused
<1> USE DEF IInv
<1>1. log \subseteq Msgs /\ log \subseteq Nat /\ cursor \in Nat /\ fails[k] \in Nat
  BY MsgsNumbers DEF TypeOK, BusType, CursorType
<1>2. CASE k <= cursor
  <2>1. 0 < fails[k]
    BY <1>1
  <2> QED BY <1>2, <2>1 DEF RetriedUntilParked, Excused
<1>3. CASE k \in stopped \/ k \in parked
  BY <1>3 DEF Excused
<1>4. CASE ~(k <= cursor) /\ k \notin stopped /\ k \notin parked
  <2>1. k \in Pending
    <3>1. k > cursor
      BY <1>1, <1>4
    <3>2. kind[k] = "addressed"
      BY <1>1 DEF FailedAddressed
    <3> QED BY <1>4, <3>1, <3>2 DEF Pending
  <2>2. Pending \in SUBSET Msgs /\ BatchLimit \in Nat /\ b \in Oldest(Pending, BatchLimit)
    BY <1>1, ConstantsAssumption DEF Pending, GetPending
  <2>3. k \in Oldest(Pending, BatchLimit)
    BY <2>1, <2>2, OldestIsPrefix
  <2>4. ~Poisoned(k)
    BY <1>1, <1>4 DEF ParkedInv
  <2> QED BY <2>3, <2>4 DEF GetPending
<1> QED BY <1>2, <1>3, <1>4

LEMMA CarryStep ==
    ASSUME ~IsTeam, IInv, DmInv, Next
    PROVE  CarryInv'
<1> USE DEF DmInv
<1> SUFFICES ASSUME Carrying', NEW b \in batch'
             PROVE  /\ b > cursor'
                    /\ \A k \in log' : fails'[k] > 0 /\ k <= b => k \in batch' \cup Excused'
  BY DEF CarryInv
<1>1. cursor' = cursor
  BY DmCursor DEF Carrying, SkipUnaddressed, RateLimited, AckTrigger, LeaveLane
<1>2. \A k \in log' : fails'[k] > 0 => k \in log /\ fails[k] > 0
  <2>1. pc' # "idle" /\ log' \subseteq Msgs
    BY TypeStep DEF Carrying, IInv, TypeOK, BusType
  <2> QED BY <2>1, FailsStep DEF FailedAddressed
<1>3. CASE FetchBatch
  <2>1. batch' = GetPending
    BY <1>3 DEF FetchBatch, LeaveLane, Carrying
  <2>2. b > cursor
    BY <2>1 DEF GetPending, Oldest, Pending
  <2> QED BY <1>1, <1>2, <2>1, <2>2, FailedPending, ExcusedGrows
<1>4. CASE ~FetchBatch
  <2>1. Carrying /\ batch' = batch
    <3>1. CASE Turn
      BY <1>4, <3>1 DEF Turn, Carrying, Unsteered, BreakerGate, SkipUnaddressed, RateLimited,
         ProbeRefused, StartTurn, RenderPrompt, BindRun, TakeSteered, turnVars,
         MarkConsumed, AckConsumed, EndRun, DiscardOrphans, Epilogue, AckTrigger, AckRoomSeen,
         RecordFailure, EpilogueRaises, CheckUnread, Deliver, LaneError, LeaveLane
    <3>2. CASE Dispatch \/ RouteRecheck \/ Crash
      BY <3>2 DEF Dispatch, RouteRecheck, Crash, LeaveLane, turnVars, Carrying
    <3> QED BY <3>1, <3>2, TurnFrame DEF turnVars, Carrying
  <2> QED BY <1>1, <1>2, <2>1, ExcusedGrows DEF CarryInv
<1> QED BY <1>3, <1>4

LEMMA DoneStep ==
    ASSUME ~IsTeam, IInv, DmInv, Next
    PROVE  DoneInv'
<1> USE DEF DmInv
<1>1. HasTrigger => trig \in batch
  BY DEF IInv, Shape, TurnShape, Addressed
<1>2. pc' \in {"seen", "ackRead", "deliver"} => trig' \in handled'
  <2>1. CASE AckTrigger
    <3>1. trig \in Nat
      BY MsgsNumbers DEF IInv, TypeOK, TurnType
    <3> QED BY <1>1, <2>1, <3>1 DEF AckTrigger, HasTrigger
  <2>2. CASE Turn /\ ~AckTrigger /\ pc' \in {"seen", "ackRead", "deliver"}
    <3>1. pc \in {"seen", "ackRead", "deliver"} /\ trig' = trig
      BY <2>2 DEF Turn, BreakerGate, FetchBatch, SkipUnaddressed, RateLimited,
         ProbeRefused, StartTurn, RenderPrompt, BindRun, TakeSteered, turnVars,
         MarkConsumed, AckConsumed, EndRun, DiscardOrphans, Epilogue, AckRoomSeen,
         RecordFailure, EpilogueRaises, CheckUnread, Deliver, LaneError, LeaveLane
    <3> QED BY <3>1, ExcusedGrows DEF DoneInv
  <2>3. CASE Dispatch \/ RouteRecheck \/ Crash \/ UNCHANGED <<turnVars, flightVars>>
    BY <2>3, ExcusedGrows DEF Dispatch, RouteRecheck, Crash, LeaveLane, turnVars, DoneInv
  <2> QED BY <2>1, <2>2, <2>3, TurnFrame
<1>3. pc' = "record" => trig' > cursor' \/ trig' \in handled'
  <2> SUFFICES ASSUME pc' = "record" PROVE trig' > cursor' \/ trig' \in handled'
    OBVIOUS
  <2>1. cursor' = cursor
    BY DmCursor DEF SkipUnaddressed, RateLimited, AckTrigger, LeaveLane
  <2>2. trig' = trig /\ ((Carrying /\ HasTrigger) \/ pc \in {"deliver", "record"})
    <3>1. CASE Turn
      BY <3>1 DEF Turn, Carrying, HasTrigger, BreakerGate, FetchBatch, SkipUnaddressed,
         RateLimited, ProbeRefused, StartTurn, RenderPrompt, BindRun, TakeSteered, turnVars,
         MarkConsumed, AckConsumed, EndRun, DiscardOrphans, Epilogue, AckTrigger, AckRoomSeen,
         RecordFailure, EpilogueRaises, CheckUnread, Deliver, LaneError, LeaveLane
    <3>2. CASE Dispatch \/ RouteRecheck \/ Crash
      BY <3>2 DEF Dispatch, RouteRecheck, Crash, LeaveLane, turnVars
    <3> QED BY <3>1, <3>2, TurnFrame DEF turnVars
  <2>3. trig > cursor \/ trig \in handled
    BY <1>1, <2>2 DEF CarryInv, DoneInv
  <2> QED BY <2>1, <2>2, <2>3, ExcusedGrows
<1> QED BY <1>2, <1>3 DEF DoneInv

LEMMA RetriedStep ==
    ASSUME ~IsTeam, IInv, DmInv, Next
    PROVE  RetriedUntilParked'
<1> USE DEF DmInv
<1> SUFFICES ASSUME NEW m \in log', 0 < fails'[m], m <= cursor'
             PROVE  m \in Excused'
  BY DEF RetriedUntilParked, Excused
<1>1. m \in Msgs /\ m \in Nat /\ fails'[m] > 0 /\ cursor \in Nat /\ trig \in Nat
  <2>1. m \in Msgs /\ m \in Nat /\ fails'[m] \in Nat /\ cursor \in Nat /\ trig \in Nat
    BY TypeStep, MsgsNumbers DEF IInv, TypeOK, BusType, CursorType, TurnType
  <2> QED BY <2>1
<1>2. CASE ~(fails[m] > 0)
  <2>1. pc = "record" /\ m = trig /\ cursor' = cursor
    BY <1>1, <1>2, FailsStep
  <2>2. ~(trig > cursor)
    BY <1>1, <2>1
  <2> QED BY <2>1, <2>2, ExcusedGrows DEF DoneInv, Excused
<1>3. CASE fails[m] > 0
  <2>1. m \in log /\ kind[m] = "addressed" /\ 0 < fails[m]
    BY <1>1, <1>3 DEF FailedAddressed
  <2>2. CASE m <= cursor
    BY <2>1, <2>2, ExcusedGrows DEF RetriedUntilParked, Excused
  <2>3. ASSUME Carrying, NEW b \in batch, m <= b PROVE m \in batch \cup Excused'
    BY <1>3, <2>1, <2>3, ExcusedGrows DEF CarryInv
  <2>4. CASE SkipUnaddressed /\ ~(m <= cursor)
    <3>1. Max(batch) \in batch /\ m <= Max(batch) /\ Carrying
      BY <2>4, NewestOf DEF SkipUnaddressed, Forward, Carrying, IInv
    <3> QED BY <2>1, <2>3, <2>4, <3>1 DEF SkipUnaddressed, Addressed
  <2>5. CASE RateLimited /\ ~(m <= cursor)
    <3>1. Max(Addressed(batch)) \in batch /\ m <= Max(Addressed(batch)) /\ Carrying
      BY <2>5, NewestOf DEF RateLimited, Forward, Carrying, IInv, Addressed
    <3> QED BY <2>1, <2>3, <2>5, <3>1 DEF RateLimited, Addressed, Excused
  <2>6. CASE AckTrigger /\ ~(m <= cursor)
    <3>1. trig \in batch /\ m <= trig /\ Carrying
      BY <2>6 DEF AckTrigger, Forward, Carrying, IInv, Shape, TurnShape, HasTrigger, Addressed
    <3> QED BY <2>3, <2>6, <3>1 DEF AckTrigger, Excused
  <2> QED BY <2>2, <2>4, <2>5, <2>6, DmCursor
<1> QED BY <1>2, <1>3

LEMMA DmInvStep == ~IsTeam /\ IInv /\ DmInv /\ [Next]_vars => DmInv'
<1> SUFFICES ASSUME ~IsTeam, IInv, DmInv, [Next]_vars PROVE DmInv'
  OBVIOUS
<1>1. CASE Next
  BY <1>1, UnsteeredStep, FailedAddressedStep, CarryStep, DoneStep, RetriedStep DEF DmInv
<1>2. CASE UNCHANGED vars
  BY <1>2 DEF DmInv, Unsteered, FailedAddressed, CarryInv, Carrying, DoneInv, Excused,
     RetriedUntilParked, vars, busVars, ackVars, turnVars, runVars, routeVars, ghostVars
<1> QED BY <1>1, <1>2

-----------------------------------------------------------------------------
(* The floor of a steered run.  Messages reach the queue in order: only one  *)
(* that landed late can be pushed behind a newer one.                        *)

\* A message that failed once was a row when the prompt was built, and a team
\* prompt reaches up to the newest row: the poison filter hides nothing above it.
FailedShown ==
    IsTeam /\ pc \in {"start", "running", "acking"} =>
        \A m \in Msgs : fails[m] > 0 => m <= renderedThrough

\* What the steer cycle under way has yet to push.
Held == IF rpc = "recheck" THEN rmsgs ELSE rtodo

\* k is not missing from the queue: it was pushed, or it could not be seen.
Passed(k) == k \in Range(pushed) \cup late \cup stopped \/ k <= cursor

\* Every message between the prompt and ts was passed, or is in S.
NoGap(ts, S) ==
    \A k \in Addressed(log) : renderedThrough < k /\ k < ts => k \in S \/ Passed(k)

\* The queue has no gap, and is in order but for late messages.
OrderInv ==
    registered =>
        /\ IsTeam
        /\ \A i \in DOMAIN pushed : NoGap(pushed[i], {})
        /\ \A i, j \in DOMAIN pushed :
             i < j /\ pushed[j] < pushed[i] => pushed[j] \in late

\* What a steer cycle holds continues the queue.
HeldInv ==
    registered => \A m \in Held :
        /\ NoGap(m, Held)
        /\ kind[m] = "addressed" =>
             /\ m > cursor \/ m \in Range(pushed) \cup late
             /\ \A i \in DOMAIN pushed : m < pushed[i] => m \in Range(pushed) \cup late

\* A report that was written covered everything before it that was delivered.
ReportInv ==
    registered =>
        /\ dropped \subseteq undelivered
        /\ \A i \in 1..acked : pushed[i] \in dropped \cup reporting \cup consumed

FloorInv == FailedShown /\ OrderInv /\ HeldInv /\ ReportInv /\ UnconsumedStaysPending

\* Max of a scrollback is the newest row of all.
LEMMA NewestReachesUp ==
    ASSUME NEW S \in SUBSET Msgs, NEW n \in Nat \ {0}, NEW k \in S
    PROVE  \E j \in Newest(S, n) : k <= j
<1>1. Max(S) \in S /\ \A y \in S : y <= Max(S)
  BY MaxIn
<1>2. {y \in S : Max(S) < y} = {}
  <2>1. \A y \in S : ~(Max(S) < y)
    <3> TAKE y \in S
    <3>1. y \in Nat /\ Max(S) \in Nat
      BY <1>1, MsgsNumbers
    <3> QED BY <1>1, <3>1
  <2> QED BY <2>1
<1>3. Cardinality({y \in S : Max(S) < y}) < n
  BY <1>2, FS_EmptySet
<1> QED BY <1>1, <1>3 DEF Newest

LEMMA FailedShownStep ==
    ASSUME IInv, FailedAddressed, FailedShown, Next
    PROVE  FailedShown'
<1> SUFFICES ASSUME IsTeam, pc' \in {"start", "running", "acking"},
                    NEW m \in Msgs, fails'[m] > 0
             PROVE  m <= renderedThrough'
  BY DEF FailedShown
<1>1. fails[m] > 0
  BY FailsStep
<1>2. CASE RenderPrompt
  <2>1. m \in log /\ log \in SUBSET Msgs /\ trig \in Msgs
    BY <1>1, <1>2, MsgsNumbers DEF FailedAddressed, IInv, TypeOK, BusType, RenderPrompt,
       Shape, TurnShape, HasTrigger, Addressed
  <2>2. PICK j \in Newest(log, HistoryLimit) : m <= j
    BY <2>1, NewestReachesUp, ConstantsAssumption
  <2>3. {trig} \cup Scrollback \in SUBSET Msgs /\ j \in {trig} \cup Scrollback
    BY <2>1, <2>2 DEF Scrollback, Newest
  <2>4. j <= renderedThrough' /\ renderedThrough' \in Msgs
    BY <1>2, <2>3, MaxIn DEF RenderPrompt
  <2>5. m \in Nat /\ j \in Nat /\ renderedThrough' \in Nat
    BY <2>3, <2>4, MsgsNumbers
  <2> QED BY <2>2, <2>4, <2>5
<1>3. CASE ~RenderPrompt
  <2>1. pc \in {"start", "running", "acking"} /\ renderedThrough' = renderedThrough
    <3>1. CASE Turn
      BY <1>3, <3>1 DEF Turn, BreakerGate, FetchBatch, SkipUnaddressed, RateLimited,
         ProbeRefused, StartTurn, BindRun, TakeSteered, turnVars, flightVars,
         MarkConsumed, AckConsumed, EndRun, DiscardOrphans, Epilogue, AckTrigger, AckRoomSeen,
         RecordFailure, EpilogueRaises, CheckUnread, Deliver, LaneError, LeaveLane
    <3>2. CASE Dispatch \/ RouteRecheck \/ Crash
      BY <3>2 DEF Dispatch, RouteRecheck, Crash, LeaveLane, turnVars
    <3> QED BY <3>1, <3>2, TurnFrame DEF turnVars, flightVars
  <2> QED BY <1>1, <2>1 DEF FailedShown
<1> QED BY <1>2, <1>3

\* What a step of a registered run keeps.
LEMMA RunKeeps ==
    ASSUME IInv, Next, registered', ~BindRun
    PROVE  /\ Range(pushed) \subseteq Range(pushed')
           /\ \A i \in DOMAIN pushed : i \in DOMAIN pushed' /\ pushed'[i] = pushed[i]
           /\ late \subseteq late' /\ undelivered \subseteq undelivered'
           /\ stopped \subseteq stopped'
           /\ AckConsumed(TRUE) \/ RouteAckChatter \/ UNCHANGED cursor
           /\ \A k \in Nat : k <= cursor => k <= cursor'
<1>1. pc \in {"running", "acking"} /\ ~Crash
  BY RunStays DEF Crash
<1>2. late \subseteq late' /\ undelivered \subseteq undelivered'
  BY GhostFrame DEF GhostSteps, ghostVars, InsertMessage, RateLimited, RenderPrompt,
     AckTrigger, RouteAppend, TakeSteered, DiscardOrphans, RecordFailure
<1>3. stopped \subseteq stopped'
  BY BusFrame DEF BusSteps, Senders, StampMessage, InsertMessage, Owner, StopTree,
     RetryFailure, RecordFailure, busVars
<1>4. \A i \in DOMAIN pushed : i \in DOMAIN pushed' /\ pushed'[i] = pushed[i]
  <2>1. CASE pushed' = pushed
    BY <2>1
  <2>2. CASE RouteAppend /\ pushed' # pushed
    <3>1. pushed' = Append(pushed, Min(rtodo))
      BY <2>2 DEF RouteAppend
    <3>2. pushed \in Seq(Msgs)
      BY DEF IInv, TypeOK, RunType
    <3>3. Min(rtodo) \in Msgs
      BY <2>2, MinIn DEF RouteAppend, IInv, TypeOK, RouteType
    <3> QED BY <3>1, <3>2, <3>3
  <2> QED BY <1>1, <2>1, <2>2, PushedFrame
<1>5. Range(pushed) \subseteq Range(pushed')
  BY <1>4 DEF Range
<1>6. AckConsumed(TRUE) \/ RouteAckChatter \/ UNCHANGED cursor
  <2>1. ASSUME NEW ok \in BOOLEAN, AckConsumed(ok)
        PROVE  AckConsumed(TRUE) \/ UNCHANGED cursor
    BY <2>1 DEF AckConsumed
  <2> QED BY <1>1, <2>1, CursorFrame DEF CursorSteps, SkipUnaddressed, RateLimited, AckTrigger
<1>7. \A k \in Nat : k <= cursor => k <= cursor'
  <2>1. cursor \in Nat /\ cursor' \in Nat
    BY TypeStep, MsgsNumbers DEF IInv, TypeOK, CursorType
  <2>2. cursor' = cursor \/ (cursor < cursor')
    BY <1>6 DEF AckConsumed, RouteAckChatter, Forward
  <2> QED BY <2>1, <2>2
<1> QED BY <1>2, <1>3, <1>4, <1>5, <1>6, <1>7

\* What had no gap below it has none after a step, unless the queue's end moved
\* up to it: a row that lands in between is late.
LEMMA NoGapKept ==
    ASSUME IInv, Next, registered', ~BindRun, NEW ts \in log, NEW S,
           \A k \in log : kind[k] = "addressed" /\ renderedThrough < k /\ k < ts
                            => k \in S \/ Passed(k)
    PROVE  \A k \in log' : kind'[k] = "addressed" /\ renderedThrough' < k /\ k < ts
                            => k \in S \/ Passed(k)'
<1> SUFFICES ASSUME NEW k \in log', kind'[k] = "addressed", renderedThrough' < k, k < ts
             PROVE  k \in S \/ Passed(k)'
  OBVIOUS
<1>1. k \in Nat /\ k \in Msgs
  BY TypeStep, MsgsNumbers DEF IInv, TypeOK, BusType
<1>2. CASE k \in log
  <2>1. kind[k] = "addressed" /\ renderedThrough < k
    BY <1>2, LogGrows, RunStays DEF IInv
  <2>2. k \in S \/ Passed(k)
    BY <1>2, <2>1
  <2> QED BY <1>1, <2>2, RunKeeps DEF Passed
<1>3. CASE k \notin log
  <2>1. ASSUME NEW m \in Msgs, InsertMessage(m) PROVE k \in late'
    <3>1. k = m /\ \E j \in log : m < j
      BY <1>3, <2>1 DEF InsertMessage
    <3> QED BY <2>1, <3>1 DEF InsertMessage
  <2>2. \E m \in Msgs : InsertMessage(m)
    BY <1>3, BusFrame DEF BusSteps, Senders, StampMessage, Owner, StopTree, RetryFailure,
       RecordFailure, busVars
  <2> QED BY <2>1, <2>2 DEF Passed
<1> QED BY <1>2, <1>3

\* The next message a steer cycle pushes.
LEMMA PushedNext ==
    ASSUME IInv, QueueInv, RouteAppend, registered, pushed' # pushed
    PROVE  /\ Min(rtodo) \in rtodo /\ Min(rtodo) \in Msgs /\ \A y \in rtodo : Min(rtodo) <= y
           /\ Min(rtodo) \notin Range(pushed) /\ kind[Min(rtodo)] = "addressed"
           /\ Min(rtodo) \in Held /\ Held = rtodo /\ Min(rtodo) \in log
           /\ DOMAIN pushed = 1..Len(pushed) /\ Len(pushed) \in Nat
           /\ DOMAIN pushed' = DOMAIN pushed \cup {Len(pushed) + 1}
           /\ pushed'[Len(pushed) + 1] = Min(rtodo)
           /\ \A i \in DOMAIN pushed : pushed'[i] = pushed[i]
           /\ Range(pushed') = Range(pushed) \cup {Min(rtodo)}
<1>1. rtodo # {} /\ rtodo \subseteq Msgs /\ rtodo \subseteq Addressed(rmsgs) /\ rmsgs \subseteq log
  BY DEF RouteAppend, IInv, TypeOK, RouteType, Shape, RouteShape
<1>2. Min(rtodo) \in rtodo /\ Min(rtodo) \in Msgs /\ \A y \in rtodo : Min(rtodo) <= y
  BY <1>1, MinIn
<1> DEFINE m == Min(rtodo)
<1>3. m \notin Inboxed /\ pushed' = Append(pushed, m)
  BY DEF RouteAppend
<1>4. pushed \in Seq(Msgs)
  BY DEF IInv, TypeOK, RunType
<1>5. m \notin Range(pushed)
  BY <1>3 DEF QueueInv, Range
<1>6. m \in Held /\ Held = rtodo /\ kind[m] = "addressed" /\ m \in log
  BY <1>1, <1>2 DEF Held, RouteAppend, Addressed
<1>7. /\ DOMAIN pushed = 1..Len(pushed) /\ Len(pushed) \in Nat
      /\ DOMAIN pushed' = DOMAIN pushed \cup {Len(pushed) + 1}
      /\ pushed'[Len(pushed) + 1] = m
      /\ \A i \in DOMAIN pushed : pushed'[i] = pushed[i]
  <2> HIDE DEF m
  <2>1. m \in Msgs
    BY <1>2 DEF m
  <2> QED BY <1>3, <1>4, <2>1
<1>8. Range(pushed') = Range(pushed) \cup {m}
  <2> HIDE DEF m
  <2> QED BY <1>7 DEF Range
<1> QED BY <1>2, <1>5, <1>6, <1>7, <1>8

LEMMA OrderStep ==
    ASSUME IInv, QueueInv, OrderInv, HeldInv, Next
    PROVE  OrderInv'
<1> SUFFICES ASSUME registered' PROVE OrderInv'
  BY DEF OrderInv
<1>1. CASE BindRun
  <2>1. IsTeam /\ DOMAIN pushed' = {}
    BY <1>1 DEF BindRun
  <2> QED BY <2>1 DEF OrderInv
<1>2. CASE ~BindRun
  <2>1. registered
    BY <1>2, RunStays
  <2>2. \A i \in DOMAIN pushed : pushed[i] \in log /\ pushed[i] \in Msgs
    BY DEF IInv, TypeOK, BusType, Shape, RouteShape
  <2>3. ASSUME NEW i \in DOMAIN pushed, NEW k \in log', kind'[k] = "addressed",
               renderedThrough' < k, k < pushed[i]
        PROVE  Passed(k)'
    <3>1. \A j \in log : kind[j] = "addressed" /\ renderedThrough < j /\ j < pushed[i]
                           => j \in Range(pushed) \/ Passed(j)
      BY <2>1, <2>3 DEF OrderInv, NoGap, Addressed
    <3>2. pushed[i] \in log
      BY <2>2
    <3>3. k \in Range(pushed) \/ Passed(k)'
      BY <1>2, <2>3, <3>1, <3>2, NoGapKept
    <3> QED BY <1>2, <3>3, RunKeeps DEF Passed
  <2>4. \A i, j \in DOMAIN pushed : i < j /\ pushed[j] < pushed[i] => pushed[j] \in late'
    BY <1>2, <2>1, RunKeeps DEF OrderInv
  <2>5. CASE pushed' = pushed
    BY <2>1, <2>3, <2>4, <2>5 DEF OrderInv, NoGap, Addressed
  <2>6. CASE RouteAppend /\ pushed' # pushed
    <3> DEFINE m == Min(rtodo)
               n == Len(pushed) + 1
    <3>1. /\ m \in Held /\ Held = rtodo /\ m \in log /\ kind[m] = "addressed"
          /\ m \notin Range(pushed) /\ m \in Msgs /\ \A y \in rtodo : m <= y
      BY <2>1, <2>6, PushedNext
    <3>2. /\ DOMAIN pushed = 1..Len(pushed) /\ Len(pushed) \in Nat
          /\ DOMAIN pushed' = DOMAIN pushed \cup {n}
          /\ pushed'[n] = m /\ \A i \in DOMAIN pushed : pushed'[i] = pushed[i]
      BY <2>1, <2>6, PushedNext
    <3>3. \A y \in rtodo : y \in Nat
      BY MsgsNumbers DEF IInv, TypeOK, RouteType
    <3> HIDE DEF m, n
    <3>4. ASSUME NEW k \in log', kind'[k] = "addressed", renderedThrough' < k, k < m
          PROVE  Passed(k)'
      <4>1. k \notin rtodo
        <5>1. k \in Nat /\ m \in Nat
          BY <3>1, <3>4, TypeStep, MsgsNumbers DEF IInv, TypeOK, BusType
        <5> QED BY <3>1, <3>4, <5>1
      <4>2. \A j \in log : kind[j] = "addressed" /\ renderedThrough < j /\ j < m
                             => j \in rtodo \/ Passed(j)
        BY <2>1, <3>1 DEF HeldInv, NoGap, Addressed
      <4>3. k \in rtodo \/ Passed(k)'
        BY <1>2, <3>1, <3>4, <4>2, NoGapKept
      <4> QED BY <4>1, <4>3
    <3>5. \A i \in DOMAIN pushed : m < pushed[i] => m \in late'
      BY <1>2, <2>1, <3>1, RunKeeps DEF HeldInv
    <3>6. \A i \in DOMAIN pushed' : NoGap(pushed[i], {})'
      BY <3>2, <3>4, <2>3 DEF NoGap, Addressed
    <3>7. \A i, j \in DOMAIN pushed' : i < j /\ pushed'[j] < pushed'[i] => pushed'[j] \in late'
      <4> SUFFICES ASSUME NEW i \in DOMAIN pushed', NEW j \in DOMAIN pushed',
                          i < j, pushed'[j] < pushed'[i]
                   PROVE  pushed'[j] \in late'
        OBVIOUS
      <4>1. i \in DOMAIN pushed
        <5>1. n = Len(pushed) + 1
          BY DEF n
        <5> QED BY <3>2, <5>1
      <4> QED BY <3>2, <3>5, <4>1, <2>4
    <3> QED BY <2>1, <3>6, <3>7 DEF OrderInv
  <2> QED BY <1>2, <2>5, <2>6, PushedFrame DEF Crash
<1> QED BY <1>1, <1>2

\* A fresh read of a steer cycle continues the queue.
LEMMA FetchContinues ==
    ASSUME IInv, FailedShown, OrderInv, registered, RouteFetch,
           NEW m \in GetPending, m > renderedThrough
    PROVE  /\ m > cursor
           /\ \A k \in log : kind[k] = "addressed" /\ renderedThrough < k /\ k < m
                => k \in {x \in GetPending : x > renderedThrough} \/ Passed(k)
           /\ kind[m] = "addressed" =>
                \A i \in DOMAIN pushed : m < pushed[i] => m \in Range(pushed) \cup late
<1> USE DEF IInv
<1>1. log \in SUBSET Msgs /\ log \subseteq Nat /\ cursor \in Nat /\ renderedThrough \in Nat
  BY MsgsNumbers DEF TypeOK, BusType, CursorType, TurnType
<1>2. m \in Pending /\ m \in log /\ m > cursor /\ m \notin stopped /\ m \in Oldest(Pending, BatchLimit)
  BY DEF GetPending, Oldest, Pending
<1>3. ASSUME NEW k \in log, kind[k] = "addressed", renderedThrough < k, k < m, ~Passed(k)
      PROVE  k \in GetPending /\ k > renderedThrough
  <2>1. k \in Nat /\ m \in Nat /\ k \in Msgs
    BY <1>1, <1>2
  <2>2. k > cursor /\ k > renderedThrough /\ k <= m
    BY <1>1, <1>3, <2>1 DEF Passed
  <2>3. k \in Pending
    BY <1>3, <2>2 DEF Passed, Pending
  <2>4. k \in Oldest(Pending, BatchLimit)
    <3>1. Pending \in SUBSET Msgs /\ BatchLimit \in Nat
      BY <1>1, ConstantsAssumption DEF Pending
    <3> QED BY <1>2, <2>2, <2>3, <3>1, OldestIsPrefix
  <2>5. ~Poisoned(k)
    <3>1. ~(k <= renderedThrough)
      BY <1>1, <2>1, <2>2
    <3>2. ~(fails[k] > 0)
      BY <2>1, <3>1 DEF FailedShown, OrderInv, Exclusion
    <3>3. fails[k] \in Nat
      BY <2>1 DEF TypeOK, BusType
    <3> QED BY <3>2, <3>3, ConstantsAssumption DEF Poisoned
  <2> QED BY <2>2, <2>4, <2>5 DEF GetPending
<1>4. ASSUME kind[m] = "addressed", NEW i \in DOMAIN pushed, m < pushed[i]
      PROVE  m \in Range(pushed) \cup late
  <2>1. renderedThrough < m
    BY <1>1, <1>2
  <2>2. Passed(m)
    BY <1>2, <1>4, <2>1 DEF OrderInv, NoGap, Addressed
  <2>3. ~(m <= cursor)
    BY <1>1, <1>2
  <2> QED BY <1>2, <2>2, <2>3 DEF Passed
<1> QED BY <1>2, <1>3, <1>4

\* The dedup key of a row was pushed to this run.
LEMMA InboxedPushed == IInv /\ registered => Inboxed \subseteq Range(pushed)
<1> SUFFICES ASSUME IInv, registered PROVE Inboxed \subseteq Range(pushed)
  OBVIOUS
<1>1. 1..acked \subseteq DOMAIN pushed
  <2>1. pushed \in Seq(Msgs) /\ acked \in 0..taken /\ taken \in 0..Len(pushed)
    BY DEF IInv, TypeOK, RunType
  <2> QED BY <2>1
<1>2. {pushed[i] : i \in 1..acked} \subseteq Range(pushed)
  BY <1>1 DEF Range
<1> QED BY <1>2 DEF IInv, PushedInv, Inboxed

\* The newest message of a report stands in the reported part of the queue.
LEMMA ReportTop ==
    ASSUME IInv, AckConsumed(TRUE)
    PROVE  \E q \in 1..acked : Max(reporting) = pushed[q] /\ q \in DOMAIN pushed
<1>1. Max(reporting) \in reporting
  BY NewestOf DEF AckConsumed, IInv
<1>2. pushed \in Seq(Msgs) /\ acked \in 0..taken /\ taken \in 0..Len(pushed)
  BY DEF IInv, TypeOK, RunType
<1>3. \A q \in 1..acked : q \in DOMAIN pushed
  BY <1>2
<1> QED BY <1>1, <1>3 DEF IInv, PushedInv

LEMMA HeldStep ==
    ASSUME IInv, IInv', QueueInv, FailedShown, OrderInv, HeldInv, Next
    PROVE  HeldInv'
<1> SUFFICES ASSUME registered', NEW m \in Held'
             PROVE  /\ \A k \in log' : kind'[k] = "addressed" /\ renderedThrough' < k /\ k < m
                         => k \in Held' \/ Passed(k)'
                    /\ kind'[m] = "addressed" =>
                         /\ m > cursor' \/ m \in Range(pushed') \cup late'
                         /\ \A i \in DOMAIN pushed' : m < pushed'[i] => m \in Range(pushed') \cup late'
  BY DEF HeldInv, NoGap, Addressed
<1>1. rpc' \in {"recheck", "append"}
  BY DEF Held, IInv, Shape, RouteShape
<1>2. ~BindRun
  BY <1>1 DEF BindRun, IInv, Exclusion, Routing, Preparing, routeVars
<1>3. registered /\ renderedThrough' = renderedThrough /\ ~Crash
  BY <1>2, RunStays DEF Crash
<1>4. CASE RouteFetch
  <2>1. Held' = {x \in GetPending : x > renderedThrough}
    BY <1>1, <1>4 DEF RouteFetch, Held
  <2>2. UNCHANGED <<log, kind, cursor, pushed, late, stopped>>
    BY <1>4 DEF RouteFetch, busVars, ackVars, runVars, ghostVars
  <2>3. \A k \in log : Passed(k)' = Passed(k)
    BY <2>2 DEF Passed
  <2>4. m \in GetPending /\ m > renderedThrough
    BY <2>1
  <2> QED BY <1>3, <1>4, <2>1, <2>2, <2>3, <2>4, FetchContinues
<1>5. CASE RouteRecheck
  <2>1. rpc = "recheck" /\ rpc' = "append" /\ rtodo' = Addressed(rmsgs)
    BY <1>1, <1>5 DEF RouteRecheck
  <2>2. UNCHANGED <<log, kind, cursor, pushed, late, stopped>>
    BY <1>5 DEF RouteRecheck, busVars, ackVars, runVars, ghostVars
  <2>3. Held = rmsgs /\ Held' = Addressed(Held) /\ m \in Held
    BY <2>1 DEF Held, Addressed
  <2>4. \A k \in log : Passed(k)' = Passed(k)
    BY <2>2 DEF Passed
  <2> QED BY <1>3, <2>2, <2>3, <2>4 DEF HeldInv, NoGap, Addressed
<1>6. CASE RouteAppend
  <2> DEFINE x == Min(rtodo)
  <2>1. rpc = "append" /\ Held = rtodo /\ Held' = rtodo' /\ rtodo \subseteq Nat /\ rtodo # {}
    BY <1>6, MsgsNumbers DEF RouteAppend, Held, IInv, TypeOK, RouteType
  <2>2. UNCHANGED <<log, kind, cursor, late, stopped>> /\ Range(pushed) \subseteq Range(pushed')
    BY <1>2, <1>6, RunKeeps DEF RouteAppend, busVars, ackVars, ghostVars
  <2>3. rtodo' = rtodo \ {x} /\ x \in Range(pushed') /\ m \in rtodo
    <3>1. CASE x \in Inboxed
      BY <1>3, <1>6, <2>1, <2>2, <3>1, InboxedPushed DEF RouteAppend
    <3>2. CASE x \notin Inboxed
      <4>1. rtodo' = rtodo \ {x} /\ pushed' = Append(pushed, x)
        BY <1>6, <2>1, <3>2 DEF RouteAppend
      <4>2. x \in rtodo /\ x \in Msgs /\ pushed \in Seq(Msgs)
        BY <2>1, MinIn DEF IInv, TypeOK, RouteType, RunType
      <4> HIDE DEF x
      <4>3. Len(pushed) + 1 \in DOMAIN pushed' /\ pushed'[Len(pushed) + 1] = x
        BY <4>1, <4>2
      <4>4. x \in Range(pushed')
        BY <4>3 DEF Range
      <4> QED BY <2>1, <4>1, <4>4
    <3> QED BY <3>1, <3>2
  <2>4. x <= m
    <3>1. rtodo \in SUBSET Msgs
      BY DEF IInv, TypeOK, RouteType
    <3> QED BY <2>1, <2>3, <3>1, MinIn
  <2> HIDE DEF x
  <2>5. \A k \in log : Passed(k) => Passed(k)'
    BY <2>2 DEF Passed
  <2>6. \A k \in log : k \in rtodo => k \in rtodo' \/ Passed(k)'
    BY <2>3 DEF Passed
  <2>7. \A i \in DOMAIN pushed' : m < pushed'[i] => i \in DOMAIN pushed /\ pushed'[i] = pushed[i]
    <3>1. CASE pushed' = pushed
      BY <3>1
    <3>2. CASE pushed' # pushed
      <4>1. /\ DOMAIN pushed' = DOMAIN pushed \cup {Len(pushed) + 1}
            /\ pushed'[Len(pushed) + 1] = x /\ x \in Msgs
            /\ \A i \in DOMAIN pushed : pushed'[i] = pushed[i]
        BY <1>3, <1>6, <3>2, PushedNext DEF x
      <4>2. ~(m < x)
        <5>1. m \in Nat /\ x \in Nat
          BY <2>1, <2>3, <4>1, MsgsNumbers
        <5> QED BY <2>4, <5>1
      <4> QED BY <4>1, <4>2
    <3> QED BY <3>1, <3>2
  <2>8. /\ \A k \in log : kind[k] = "addressed" /\ renderedThrough < k /\ k < m
                            => k \in rtodo \/ Passed(k)
        /\ kind[m] = "addressed" =>
             /\ m > cursor \/ m \in Range(pushed) \cup late
             /\ \A i \in DOMAIN pushed : m < pushed[i] => m \in Range(pushed) \cup late
    BY <1>3, <2>1, <2>3 DEF HeldInv, NoGap, Addressed
  <2> QED BY <1>3, <2>1, <2>2, <2>5, <2>6, <2>7, <2>8
<1>7. CASE Poll /\ ~RouteFetch /\ ~RouteRecheck /\ ~RouteAppend
  BY <1>1, <1>7 DEF Poll, PollQuery, Dispatch, RouteStart, RouteAckChatter, RouteFails
<1>8. CASE UNCHANGED routeVars /\ ~RouteAppend
  <2>1. Held' = Held /\ m \in Held /\ rpc \in {"recheck", "append"}
    BY <1>1, <1>8 DEF Held, routeVars
  <2>2. m \in log /\ m \in Nat /\ kind'[m] = kind[m]
    <3>1. m \in log
      BY <2>1 DEF Held, IInv, Shape, RouteShape, Addressed
    <3> QED BY <3>1, LogGrows, MsgsNumbers DEF IInv, TypeOK, BusType
  <2>3. \A k \in log' : kind'[k] = "addressed" /\ renderedThrough' < k /\ k < m
          => k \in Held \/ Passed(k)'
    <3>1. \A k \in log : kind[k] = "addressed" /\ renderedThrough < k /\ k < m
            => k \in Held \/ Passed(k)
      BY <1>3, <2>1 DEF HeldInv, NoGap, Addressed
    <3> QED BY <1>2, <2>2, <3>1, NoGapKept
  <2>4. pushed' = pushed
    BY <1>2, <1>3, <1>8, PushedFrame
  <2>5. kind[m] = "addressed" =>
          \A i \in DOMAIN pushed : m < pushed[i] => m \in Range(pushed) \cup late
    BY <1>3, <2>1 DEF HeldInv
  <2>6. kind[m] = "addressed" => m > cursor' \/ m \in Range(pushed) \cup late
    <3> SUFFICES ASSUME kind[m] = "addressed", ~(m > cursor')
                 PROVE  m \in Range(pushed) \cup late
      OBVIOUS
    <3>1. m > cursor \/ m \in Range(pushed) \cup late
      BY <1>3, <2>1 DEF HeldInv
    <3>2. CASE UNCHANGED cursor
      BY <3>1, <3>2
    <3>3. CASE AckConsumed(TRUE)
      <4>1. PICK q \in 1..acked : Max(reporting) = pushed[q] /\ q \in DOMAIN pushed
        BY <3>3, ReportTop
      <4>2. cursor' = cursor \/ cursor' = pushed[q]
        BY <3>3, <4>1 DEF AckConsumed, Forward
      <4>3. pushed[q] \in Nat /\ pushed[q] \in Range(pushed)
        BY <4>1, MsgsNumbers DEF Range, IInv, TypeOK, BusType, Shape, RouteShape
      <4>4. cursor' = pushed[q] => m = pushed[q] \/ m < pushed[q]
        BY <2>2, <4>3
      <4> QED BY <2>5, <3>1, <4>1, <4>2, <4>3, <4>4
    <3>4. ~RouteAckChatter
      BY <1>1 DEF RouteAckChatter
    <3> QED BY <1>2, <3>2, <3>3, <3>4, RunKeeps
  <2>7. late \subseteq late'
    BY <1>2, RunKeeps
  <2> QED BY <2>1, <2>2, <2>3, <2>4, <2>5, <2>6, <2>7
<1> QED BY <1>3, <1>4, <1>5, <1>6, <1>7, <1>8, RouteFrame

LEMMA ReportStep ==
    ASSUME IInv, QueueInv, ReportInv, Next
    PROVE  ReportInv'
<1> SUFFICES ASSUME registered'
             PROVE  /\ dropped' \subseteq undelivered'
                    /\ \A i \in 1..acked' : pushed'[i] \in dropped' \cup reporting' \cup consumed'
  BY DEF ReportInv
<1>1. CASE BindRun
  BY <1>1, ConstantsAssumption DEF BindRun
<1>2. CASE ~BindRun
  <2>1. registered /\ undelivered \subseteq undelivered'
    BY <1>2, RunStays, RunKeeps
  <2>2. dropped \subseteq undelivered'
    BY <2>1 DEF ReportInv
  <2>3. \A i \in 1..acked : i \in DOMAIN pushed
    <3>1. pushed \in Seq(Msgs) /\ acked \in 0..taken /\ taken \in 0..Len(pushed)
      BY DEF IInv, TypeOK, RunType
    <3> QED BY <3>1
  <2>4. \A i \in 1..acked : pushed'[i] = pushed[i]
    BY <1>2, <2>3, RunKeeps
  <2>5. \A i \in 1..acked : pushed[i] \in dropped \cup reporting \cup consumed
    BY <2>1 DEF ReportInv
  <2>6. CASE RouteAppend
    BY <2>2, <2>4, <2>5, <2>6 DEF RouteAppend
  <2>7. ASSUME NEW ok \in BOOLEAN, TakeSteered(ok)
        PROVE  /\ dropped' \subseteq undelivered'
               /\ \A i \in 1..acked' : pushed'[i] \in dropped' \cup reporting' \cup consumed'
    <3>1. dropped' \subseteq dropped \cup {pushed[taken + 1]}
      BY <2>7 DEF TakeSteered
    <3>2. dropped' = dropped \/ pushed[taken + 1] \in undelivered'
      <4> DEFINE x == pushed[taken + 1]
      <4>1. dropped' = dropped \/ undelivered' = undelivered \cup {x}
        BY <2>7 DEF TakeSteered
      <4> HIDE DEF x
      <4>2. dropped' = dropped \/ x \in undelivered'
        BY <4>1
      <4> QED BY <4>2 DEF x
    <3>3. dropped \subseteq dropped'
      BY <2>7 DEF TakeSteered
    <3>4. UNCHANGED <<pushed, acked, reporting, consumed>>
      BY <2>7 DEF TakeSteered
    <3> QED BY <2>2, <2>5, <3>1, <3>2, <3>3, <3>4
  <2>8. ASSUME NEW ok \in BOOLEAN, MarkConsumed(ok)
        PROVE  /\ dropped' \subseteq undelivered'
               /\ \A i \in 1..acked' : pushed'[i] \in dropped' \cup reporting' \cup consumed'
    <3>1. PICK j \in (acked + 1)..taken :
            /\ acked' = j
            /\ reporting' = Reported(j) \/ consumed' = consumed \cup Reported(j)
      BY <2>8 DEF MarkConsumed
    <3>2. reporting = {} /\ consumed \subseteq consumed' /\ UNCHANGED <<pushed, dropped>>
      BY <2>8 DEF MarkConsumed, QueueInv
    <3>3. \A i \in 1..j : i \in 1..acked \/ i \in (acked + 1)..j
      <4>1. acked \in Nat /\ j \in Nat
        BY DEF IInv, TypeOK, RunType
      <4> QED BY <4>1
    <3>4. \A i \in (acked + 1)..j : pushed[i] \in Reported(j) \cup dropped
      BY DEF Reported
    <3> QED BY <2>2, <2>5, <3>1, <3>2, <3>3, <3>4
  <2>9. ASSUME NEW ok \in BOOLEAN, AckConsumed(ok)
        PROVE  /\ dropped' \subseteq undelivered'
               /\ \A i \in 1..acked' : pushed'[i] \in dropped' \cup reporting' \cup consumed'
    BY <2>2, <2>5, <2>9 DEF AckConsumed
  <2>10. CASE UNCHANGED <<runVars, rows>>
    BY <2>2, <2>5, <2>10 DEF runVars
  <2> QED BY <1>2, <2>6, <2>7, <2>8, <2>9, <2>10, RunStays
<1> QED BY <1>1, <1>2

LEMMA UnconsumedStep ==
    ASSUME IInv, QueueInv, FloorInv, Next
    PROVE  UnconsumedStaysPending'
<1> USE DEF FloorInv
<1> SUFFICES ASSUME registered', NEW m \in Remembered'
             PROVE  m > cursor' \/ m \in late' \cup undelivered'
  BY DEF UnconsumedStaysPending
<1>1. ~BindRun
  <2> SUFFICES ASSUME BindRun PROVE FALSE
    OBVIOUS
  <2>1. DOMAIN pushed' = {}
    BY DEF BindRun
  <2> QED BY <2>1 DEF Remembered, Range
<1>2. registered /\ late \subseteq late' /\ undelivered \subseteq undelivered'
  BY <1>1, RunStays, RunKeeps
<1>3. \A k \in log : k \in Nat
  BY MsgsNumbers DEF IInv, TypeOK, BusType
<1>4. CASE m \in Remembered
  <2>1. (m \in log /\ m > cursor) \/ m \in late' \cup undelivered'
    <3>1. m \in log
      BY <1>4 DEF Remembered, Range, IInv, Shape, RouteShape
    <3> QED BY <1>2, <1>4, <3>1 DEF UnconsumedStaysPending
  <2>2. CASE UNCHANGED cursor
    BY <2>1, <2>2
  <2>3. CASE RouteAckChatter
    <3>1. CASE BelowFloor # {}
      <4>1. Max(BelowFloor) < m
        BY <1>4, <3>1, NewestOf DEF IInv, BelowFloor
      <4>2. cursor' = cursor \/ cursor' = Max(BelowFloor)
        BY <2>3, <3>1 DEF RouteAckChatter, Forward
      <4>3. Max(BelowFloor) \in Nat
        BY <3>1, NewestOf, MsgsNumbers DEF IInv
      <4> QED BY <1>3, <2>1, <4>1, <4>2, <4>3
    <3>2. CASE BelowFloor = {}
      BY <2>1, <2>3, <3>2 DEF RouteAckChatter
    <3> QED BY <3>1, <3>2
  <2>4. CASE AckConsumed(TRUE)
    <3>1. PICK q \in 1..acked : Max(reporting) = pushed[q] /\ q \in DOMAIN pushed
      BY <2>4, ReportTop
    <3>2. cursor' = cursor \/ cursor' = pushed[q]
      BY <2>4, <3>1 DEF AckConsumed, Forward
    <3>3. UNCHANGED <<pushed, dropped>> /\ consumed' = consumed \cup reporting
      BY <2>4 DEF AckConsumed
    <3>4. PICK i \in DOMAIN pushed : m = pushed[i]
      BY <1>4 DEF Remembered, Range
    <3>5. CASE i \in 1..acked
      <4>1. m \notin consumed /\ m \notin reporting
        BY <3>3 DEF Remembered
      <4> QED BY <1>2, <3>4, <3>5, <4>1 DEF ReportInv
    <3>6. CASE i \notin 1..acked
      <4>1. q < i
        <5>1. acked \in Nat /\ i \in Nat /\ i >= 1
          BY DEF IInv, TypeOK, RunType
        <5> QED BY <3>6, <5>1
      <4>2. pushed[i] # pushed[q]
        BY <1>2, <3>1, <4>1 DEF QueueInv
      <4>3. pushed[i] < pushed[q] => pushed[i] \in late
        BY <1>2, <3>1, <4>1 DEF OrderInv
      <4>4. pushed[q] \in Nat /\ m \in Nat
        BY <1>3, <3>1, <3>4 DEF IInv, Shape, RouteShape
      <4>5. pushed[i] < pushed[q] \/ m > pushed[q]
        BY <3>4, <4>2, <4>4
      <4> QED BY <1>2, <2>1, <3>2, <3>4, <4>3, <4>5
    <3> QED BY <3>5, <3>6
  <2> QED BY <1>1, <2>2, <2>3, <2>4, RunKeeps
<1>5. CASE m \notin Remembered
  <2>1. RouteAppend /\ pushed' # pushed
    <3>1. consumed \subseteq consumed'
      <4>1. ASSUME NEW ok \in BOOLEAN, TakeSteered(ok) \/ MarkConsumed(ok) \/ AckConsumed(ok)
            PROVE  consumed \subseteq consumed'
        BY <4>1 DEF TakeSteered, MarkConsumed, AckConsumed
      <4> QED BY <1>1, <4>1, RunStays DEF RouteAppend, runVars
    <3>2. pushed' # pushed
      BY <1>5, <3>1 DEF Remembered
    <3> QED BY <1>1, <3>2, PushedFrame DEF Crash
  <2>2. /\ Min(rtodo) \in Held /\ Min(rtodo) \notin Range(pushed)
        /\ kind[Min(rtodo)] = "addressed" /\ Range(pushed') = Range(pushed) \cup {Min(rtodo)}
    BY <1>2, <2>1, PushedNext
  <2>3. UNCHANGED <<cursor, late, consumed>>
    BY <2>1 DEF RouteAppend, ackVars
  <2>4. m = Min(rtodo)
    BY <1>5, <2>2, <2>3 DEF Remembered
  <2> QED BY <1>2, <2>2, <2>3, <2>4 DEF HeldInv
<1> QED BY <1>4, <1>5

LEMMA FloorStep ==
    IInv /\ IInv' /\ QueueInv /\ FailedAddressed /\ FloorInv /\ [Next]_vars
        => FloorInv' /\ FailedAddressed'
<1> SUFFICES ASSUME IInv, IInv', QueueInv, FailedAddressed, FloorInv, [Next]_vars
             PROVE  FloorInv' /\ FailedAddressed'
  OBVIOUS
<1>1. CASE Next
  BY <1>1, FailedAddressedStep, FailedShownStep, OrderStep, HeldStep, ReportStep,
     UnconsumedStep DEF FloorInv
<1>2. CASE UNCHANGED vars
  <2> USE <1>2 DEF vars, busVars, ackVars, turnVars, flightVars, runVars, routeVars, ghostVars
  <2>1. FailedAddressed' /\ FailedShown' /\ ReportInv' /\ UnconsumedStaysPending'
    BY DEF FloorInv, FailedAddressed, FailedShown, ReportInv, UnconsumedStaysPending, Remembered,
       Range
  <2>2. OrderInv' /\ HeldInv'
    BY DEF FloorInv, OrderInv, HeldInv, NoGap, Passed, Held, Addressed, Range
  <2> QED BY <2>1, <2>2 DEF FloorInv
<1> QED BY <1>1, <1>2

-----------------------------------------------------------------------------
(* The theorems.                                                             *)

LEMMA RunInvStep == IInv /\ RowsInv /\ QueueInv /\ [Next]_vars => RowsInv' /\ QueueInv'
<1> SUFFICES ASSUME IInv, RowsInv, QueueInv, [Next]_vars PROVE RowsInv' /\ QueueInv'
  OBVIOUS
<1>1. CASE UNCHANGED vars
  BY <1>1 DEF RowsInv, QueueInv, Inboxed, vars, turnVars, flightVars, runVars, routeVars,
     boundVars, ghostVars
<1> QED BY <1>1, RowsStep, QueueInvStep

LEMMA RunInvariant == Spec => [](RowsInv /\ QueueInv)
<1>1. Init => RowsInv /\ QueueInv
  BY DEF Init, RowsInv, QueueInv
<1> QED BY <1>1, RunInvStep, Inductive, PTL DEF Spec

LEMMA FloorInvariant == Spec => [](FloorInv /\ FailedAddressed)
<1>1. Init => FloorInv /\ FailedAddressed
  BY DEF Init, FloorInv, FailedAddressed, FailedShown, OrderInv, HeldInv, ReportInv,
     UnconsumedStaysPending
<1> QED BY <1>1, FloorStep, RunInvariant, Inductive, PTL DEF Spec

\* Whatever the caps, the number of messages and the order in which the poll
\* loop and the turn move, a run is never steered a message twice, nor one that
\* its prompt already carries.
THEOREM InjectedOnce == Spec => []NoDoubleInjection
<1>1. QueueInv => NoDoubleInjection
  BY DEF QueueInv, NoDoubleInjection
<1> QED BY <1>1, RunInvariant, PTL

\* A row of the steer inbox outlives its run only when the process died, an
\* append crossed the release of the run, or the DELETE of the teardown failed.
THEOREM RowsFollowRun == Spec => []RowsReclaimed
<1>1. IInv /\ RowsInv => RowsReclaimed
  BY DEF IInv, Exclusion, RowsInv, RowsReclaimed
<1> QED BY <1>1, RunInvariant, Inductive, PTL

\* In a peer DM, whatever the threshold, the batch limit and the number of
\* retries, crashes and failed calls: a message whose turn failed fewer times than
\* the threshold is still past the cursor, until a turn that carried it ends well
\* or a rule of the code drops it.  (In a team room the acks of what the failed
\* run was steered pass its trigger.)
THEOREM DmRetries == Spec => [](~IsTeam => RetriedUntilParked)
<1> DEFINE I == ~IsTeam => DmInv
<1>1. Init => I
  BY DEF Init, DmInv, Unsteered, FailedAddressed, CarryInv, Carrying, DoneInv,
     RetriedUntilParked
<1>2. IInv /\ I /\ [Next]_vars => I'
  BY DmInvStep
<1>3. I => (~IsTeam => RetriedUntilParked)
  BY DEF DmInv
<1> HIDE DEF I
<1> QED BY <1>1, <1>2, <1>3, Inductive, PTL DEF Spec

\* While a run lives, every message it was pushed and did not report is still
\* pending, unless it landed late or its POST failed: neither a consumption
\* report nor an ack of chatter moves the cursor past it, whatever the caps, the
\* messages, the owner's retries and stops, and the interleaving.
THEOREM FloorHolds == Spec => []UnconsumedStaysPending
<1>1. FloorInv => UnconsumedStaysPending
  BY DEF FloorInv
<1> QED BY <1>1, FloorInvariant, PTL

-----------------------------------------------------------------------------
(* The red line of a team room: as long as no background hook writes the     *)
(* read cursor, it passes only what a prompt or a steer showed.  The trigger *)
(* moves it to its trigger message, or to the newest steer the run reported; *)
(* the first is covered by the prompt and by the look at what is unread      *)
(* below it, the second by a queue without gaps, unless unsteered_gap says   *)
(* that chatter was left out of it.                                          *)

Met == shown \cup stopped \cup late \cup undelivered

\* k reached the run's queue, or could not be seen.
Sight(k) == k \in Range(pushed) \cup late \cup stopped

\* Rows above the prompt that lie below the cursor or below a pushed message
\* are in the queue themselves: no chatter is among them while no gap is known.
SightInv ==
    /\ registered /\ ~unsteeredGap =>
         /\ \A k \in log : kind[k] # "own" /\ renderedThrough < k
              /\ (k <= cursor \/ \E i \in DOMAIN pushed : k < pushed[i]) => Sight(k)
         /\ \A m \in Held, k \in log :
              kind[k] # "own" /\ renderedThrough < k /\ k < m => k \in Held \/ Sight(k)
         /\ rpc = "append" => Chatter = {}
    /\ IsTeam /\ pc = "start" => \A k \in log :
         kind[k] # "own" /\ renderedThrough < k /\ k <= cursor => k \in late \cup stopped

-----------------------------------------------------------------------------
(* The queue, chatter included.                                              *)

LEMMA NewestIsSuffix ==
    ASSUME NEW S \in SUBSET Msgs, NEW n \in Nat,
           NEW b \in Newest(S, n), NEW k \in S, b <= k
    PROVE  k \in Newest(S, n)
<1> DEFINE A == {j \in S : k < j}
           B == {j \in S : b < j}
<1>1. A \in SUBSET B
  <2>1. b \in S
    BY DEF Newest
  <2>2. \A j \in S : k < j => b < j
    <3> HIDE DEF A, B
    <3> QED BY <2>1, MsgsNumbers
  <2> QED BY <2>2
<1>2. IsFiniteSet(A) /\ IsFiniteSet(B)
  BY FinitePart
<1>3. Cardinality(A) <= Cardinality(B) /\ Cardinality(B) < n
  BY <1>1, <1>2, FS_Subset DEF Newest
<1>4. Cardinality(A) \in Nat /\ Cardinality(B) \in Nat
  BY <1>2, FS_CardinalityType
<1>5. Cardinality(A) < n
  BY <1>3, <1>4
<1> QED BY <1>5 DEF Newest

\* A row that lands below a row is late.
LEMMA LandsLate ==
    ASSUME IInv, Next, NEW k \in log' \ log
    PROVE  \A j \in log : k <= j => k \in late'
<1>1. ASSUME NEW m \in Msgs, InsertMessage(m), NEW j \in log, k <= j PROVE k \in late'
  <2>1. k = m /\ k # j
    BY <1>1 DEF InsertMessage
  <2>2. m < j
    <3>1. k \in Nat /\ j \in Nat
      BY <1>1, <2>1, MsgsNumbers DEF IInv, TypeOK, BusType
    <3> QED BY <1>1, <2>1, <3>1
  <2> QED BY <1>1, <2>1, <2>2 DEF InsertMessage
<1>2. \E m \in Msgs : InsertMessage(m)
  BY BusFrame DEF BusSteps, Senders, StampMessage, Owner, StopTree, RetryFailure,
     RecordFailure, busVars
<1> QED BY <1>1, <1>2

\* While a run stays registered, a known gap stays known.
LEMMA GapKept ==
    ASSUME IInv, Next, registered', ~BindRun, ~unsteeredGap'
    PROVE  ~unsteeredGap
<1>1. pc \in {"running", "acking"} /\ ~Crash
  BY RunStays DEF Crash
<1>2. CASE Turn
  BY <1>1, <1>2 DEF Turn, BreakerGate, FetchBatch, SkipUnaddressed, RateLimited,
     ProbeRefused, StartTurn, RenderPrompt, BindRun, TakeSteered, MarkConsumed,
     AckConsumed, EndRun, DiscardOrphans, AckTrigger, AckRoomSeen, RecordFailure,
     EpilogueRaises, CheckUnread, Deliver, LaneError, flightVars
<1>3. CASE Dispatch \/ RouteRecheck
  BY <1>1, <1>3 DEF Dispatch, InFlight, RouteRecheck
<1> QED BY <1>1, <1>2, <1>3, TurnFrame DEF flightVars

\* Above the prompt, what lies below the cursor or the queue's end is in sight.
LEMMA SightBelowStep ==
    ASSUME IInv, QueueInv, SightInv, Next, registered', ~BindRun, ~unsteeredGap',
           NEW k \in log', kind'[k] # "own", renderedThrough' < k,
           k <= cursor' \/ \E i \in DOMAIN pushed' : k < pushed'[i]
    PROVE  Sight(k)'
<1>1. registered /\ renderedThrough' = renderedThrough /\ ~unsteeredGap
  BY RunStays, GapKept
<1>2. k \in Nat /\ \A j \in log : j \in Nat
  BY TypeStep, MsgsNumbers DEF IInv, TypeOK, BusType
<1>3. Sight(k) => Sight(k)'
  BY RunKeeps DEF Sight
<1>4. CASE k \notin log
  <2>1. UNCHANGED <<cursor, pushed>>
    <3>1. \E m \in Msgs : InsertMessage(m)
      BY <1>4, BusFrame DEF BusSteps, Senders, StampMessage, Owner, StopTree, RetryFailure,
         RecordFailure, busVars
    <3> QED BY <3>1 DEF InsertMessage, ackVars, runVars
  <2>2. \E j \in log : k <= j
    <3>1. CASE k <= cursor
      <4>1. cursor \in log
        BY <1>2, <3>1, TypeStep, MsgsNumbers DEF IInv, TypeOK, BusType, Shape, LogShape
      <4> QED BY <3>1, <4>1
    <3>2. CASE \E i \in DOMAIN pushed : k < pushed[i]
      BY <1>2, <3>2 DEF IInv, Shape, RouteShape
    <3> QED BY <2>1, <3>1, <3>2
  <2> QED BY <1>4, <2>2, LandsLate DEF Sight
<1>5. CASE k \in log
  <2>1. kind[k] # "own" /\ renderedThrough < k
    BY <1>1, <1>5, LogGrows DEF IInv
  <2>2. k <= cursor \/ (\E i \in DOMAIN pushed : k < pushed[i]) => Sight(k)
    BY <1>1, <1>5, <2>1 DEF SightInv
  <2>3. CASE k <= cursor'
    <3>1. CASE AckConsumed(TRUE)
      <4>1. PICK q \in 1..acked : Max(reporting) = pushed[q] /\ q \in DOMAIN pushed
        BY <3>1, ReportTop
      <4>2. cursor' = cursor \/ cursor' = pushed[q]
        BY <3>1, <4>1 DEF AckConsumed, Forward
      <4>3. pushed[q] \in log /\ pushed[q] \in Range(pushed)
        BY <4>1 DEF Range, IInv, Shape, RouteShape
      <4>4. k <= cursor \/ k < pushed[q] \/ k = pushed[q]
        BY <1>2, <2>3, <4>2, <4>3
      <4> QED BY <1>3, <2>2, <4>1, <4>3, <4>4 DEF Sight
    <3>2. CASE RouteAckChatter
      <4>1. Chatter = {} /\ cursor' = cursor
        BY <1>1, <3>2 DEF RouteAckChatter, SightInv, BelowFloor
      <4> QED BY <1>3, <2>2, <2>3, <4>1
    <3> QED BY <1>3, <2>2, <2>3, <3>1, <3>2, RunKeeps
  <2>4. ASSUME NEW i \in DOMAIN pushed', k < pushed'[i] PROVE Sight(k)'
    <3>1. CASE pushed' = pushed
      BY <1>3, <2>2, <2>4, <3>1
    <3>2. CASE RouteAppend /\ pushed' # pushed
      <4>1. /\ Min(rtodo) \in Held /\ Held = rtodo /\ \A y \in rtodo : Min(rtodo) <= y
            /\ DOMAIN pushed' = DOMAIN pushed \cup {Len(pushed) + 1}
            /\ pushed'[Len(pushed) + 1] = Min(rtodo) /\ Min(rtodo) \in Msgs
            /\ \A j \in DOMAIN pushed : pushed'[j] = pushed[j]
        BY <1>1, <3>2, PushedNext
      <4>2. CASE i \in DOMAIN pushed
        BY <1>3, <2>2, <2>4, <4>1, <4>2
      <4>3. CASE i \notin DOMAIN pushed
        <5>1. k < Min(rtodo)
          BY <2>4, <4>1, <4>3
        <5>2. k \notin rtodo
          <6>1. Min(rtodo) \in Nat
            BY <4>1, MsgsNumbers
          <6>2. ~(Min(rtodo) <= k)
            BY <1>2, <5>1, <6>1
          <6> QED BY <4>1, <6>2
        <5>3. k \in Held \/ Sight(k)
          BY <1>1, <1>5, <2>1, <4>1, <5>1 DEF SightInv
        <5> QED BY <1>3, <4>1, <5>2, <5>3
      <4> QED BY <4>2, <4>3
    <3> QED BY <3>1, <3>2, PushedFrame DEF Crash
  <2> QED BY <2>3, <2>4
<1> QED BY <1>4, <1>5

\* What a fresh read of a steer cycle leaves out is in sight.
LEMMA FetchSees ==
    ASSUME IInv, FailedShown, OrderInv, SightInv, registered, ~unsteeredGap,
           NEW m \in GetPending, NEW k \in log,
           kind[k] # "own", renderedThrough < k, k < m, ~Sight(k)
    PROVE  k \in GetPending /\ k > renderedThrough
<1> USE DEF IInv
<1>1. log \in SUBSET Msgs /\ cursor \in Nat /\ renderedThrough \in Nat
  BY MsgsNumbers DEF TypeOK, BusType, CursorType, TurnType
<1>2. m \in Pending /\ m \in log /\ m \in Oldest(Pending, BatchLimit)
  BY DEF GetPending, Oldest, Pending
<1>3. k \in Nat /\ m \in Nat /\ k \in Msgs
  BY <1>1, <1>2, MsgsNumbers
<1>4. ~(k <= cursor)
  BY DEF SightInv
<1>5. k > cursor /\ k > renderedThrough /\ k <= m
  BY <1>1, <1>3, <1>4
<1>6. k \in Pending
  BY <1>5 DEF Sight, Pending
<1>7. k \in Oldest(Pending, BatchLimit)
  <2>1. Pending \in SUBSET Msgs /\ BatchLimit \in Nat
    BY <1>1, ConstantsAssumption DEF Pending
  <2> QED BY <1>2, <1>5, <1>6, <2>1, OldestIsPrefix
<1>8. ~Poisoned(k)
  <2>1. ~(k <= renderedThrough)
    BY <1>1, <1>3, <1>5
  <2>2. ~(fails[k] > 0)
    BY <1>3, <2>1 DEF FailedShown, OrderInv, Exclusion
  <2>3. fails[k] \in Nat
    BY <1>3 DEF TypeOK, BusType
  <2> QED BY <2>2, <2>3, ConstantsAssumption DEF Poisoned
<1> QED BY <1>5, <1>7, <1>8 DEF GetPending

\* What a steer cycle holds continues the queue, chatter included.
LEMMA SightHeldStep ==
    ASSUME IInv, IInv', QueueInv, FailedShown, OrderInv, SightInv, Next,
           registered', ~BindRun, ~unsteeredGap',
           NEW m \in Held', NEW k \in log', kind'[k] # "own", renderedThrough' < k, k < m
    PROVE  k \in Held' \/ Sight(k)'
<1>1. rpc' \in {"recheck", "append"}
  BY DEF Held, IInv, Shape, RouteShape
<1>2. registered /\ renderedThrough' = renderedThrough /\ ~unsteeredGap /\ ~Crash
  BY RunStays, GapKept DEF Crash
<1>3. Sight(k) => Sight(k)'
  BY RunKeeps DEF Sight
<1>4. CASE RouteFetch
  <2>1. Held' = {x \in GetPending : x > renderedThrough} /\ UNCHANGED <<log, kind>>
    BY <1>1, <1>4 DEF RouteFetch, Held, busVars
  <2> QED BY <1>2, <1>3, <2>1, FetchSees
<1>5. CASE RouteRecheck
  <2>1. rpc = "recheck" /\ rpc' = "append" /\ rtodo' = Addressed(rmsgs) /\ Chatter = {}
    BY <1>1, <1>5 DEF RouteRecheck
  <2>2. Held' = Held /\ UNCHANGED <<log, kind>>
    BY <1>5, <2>1 DEF Held, Chatter, RouteRecheck, busVars, Addressed
  <2> QED BY <1>2, <1>3, <2>2 DEF SightInv
<1>6. CASE RouteAppend
  <2> DEFINE x == Min(rtodo)
  <2>1. Held = rtodo /\ Held' = rtodo' /\ rtodo # {} /\ UNCHANGED <<log, kind>>
    BY <1>6 DEF RouteAppend, Held, busVars
  <2>2. rtodo' = rtodo \ {x} /\ m \in rtodo
    BY <1>6, <2>1 DEF RouteAppend
  <2>3. x \in Range(pushed')
    <3>1. CASE x \in Inboxed
      BY <1>2, <3>1, InboxedPushed, RunKeeps
    <3>2. CASE x \notin Inboxed
      <4>1. pushed' = Append(pushed, x)
        BY <1>6, <2>1, <3>2 DEF RouteAppend
      <4>2. x \in Msgs /\ pushed \in Seq(Msgs)
        BY <2>1, MinIn DEF IInv, TypeOK, RouteType, RunType
      <4> HIDE DEF x
      <4>3. Len(pushed) + 1 \in DOMAIN pushed' /\ pushed'[Len(pushed) + 1] = x
        BY <4>1, <4>2
      <4> QED BY <4>3 DEF Range
    <3> QED BY <3>1, <3>2
  <2> HIDE DEF x
  <2>4. k \in rtodo \/ Sight(k)
    BY <1>2, <2>1, <2>2 DEF SightInv
  <2> QED BY <1>3, <2>1, <2>2, <2>3, <2>4 DEF Sight
<1>7. CASE Poll /\ ~RouteFetch /\ ~RouteRecheck /\ ~RouteAppend
  BY <1>1, <1>7 DEF Poll, PollQuery, Dispatch, RouteStart, RouteAckChatter, RouteFails
<1>8. CASE UNCHANGED routeVars
  <2>1. Held' = Held /\ m \in log /\ m \in Nat
    <3>1. Held' = Held
      BY <1>8 DEF Held, routeVars
    <3>2. m \in log
      BY <3>1 DEF Held, IInv, Shape, RouteShape, Addressed
    <3> QED BY <3>1, <3>2, MsgsNumbers DEF IInv, TypeOK, BusType
  <2>2. CASE k \in log
    BY <1>2, <1>3, <2>1, <2>2, LogGrows DEF SightInv, IInv
  <2>3. CASE k \notin log
    <3>1. k <= m
      BY <2>1, MsgsNumbers DEF IInv, TypeOK, BusType
    <3> QED BY <2>1, <2>3, <3>1, LandsLate DEF Sight
  <2> QED BY <2>2, <2>3
<1> QED BY <1>2, <1>4, <1>5, <1>6, <1>7, <1>8, RouteFrame

LEMMA SightStep ==
    ASSUME IInv, IInv', QueueInv, FailedShown, OrderInv, SightInv, Next
    PROVE  SightInv'
<1>1. ASSUME registered', ~unsteeredGap', ~BindRun, rpc' = "append"
      PROVE  Chatter' = {}
  <2>1. registered /\ ~unsteeredGap /\ ~Crash
    BY <1>1, RunStays, GapKept DEF Crash
  <2>2. CASE RouteRecheck
    BY <1>1, <2>2 DEF RouteRecheck, Chatter, Addressed, busVars
  <2>3. CASE ~RouteRecheck
    <3>1. rpc = "append" /\ rmsgs' = rmsgs
      BY <1>1, <2>1, <2>3, RouteFrame DEF Poll, PollQuery, Dispatch, RouteStart, RouteFetch,
         RouteAppend, RouteAckChatter, RouteFails, routeVars
    <3>2. rmsgs \subseteq log /\ \A j \in log : kind'[j] = kind[j]
      BY LogGrows DEF IInv, Shape, RouteShape
    <3> QED BY <2>1, <3>1, <3>2 DEF SightInv, Chatter, Addressed
  <2> QED BY <2>2, <2>3
<1>2. ASSUME BindRun PROVE SightInv'
  <2>1. IInv /\ DOMAIN pushed' = {} /\ pc' = "running" /\ pc = "start"
    BY <1>2 DEF BindRun
  <2>2. UNCHANGED <<log, kind, cursor, renderedThrough, late, stopped, rpc, rtodo, rmsgs>>
    BY <1>2 DEF BindRun, busVars, ackVars, flightVars, routeVars, ghostVars
  <2>3. rpc \notin {"recheck", "append"} /\ rtodo = {}
    BY <2>1 DEF IInv, Exclusion, Routing, Preparing, Shape, RouteShape
  <2>4. Held' = {}
    BY <2>2, <2>3 DEF Held
  <2>5. registered' => IsTeam
    BY <1>2 DEF BindRun
  <2> QED BY <2>1, <2>2, <2>3, <2>4, <2>5 DEF SightInv, Sight
<1>3. ASSUME IsTeam, pc' = "start", NEW k \in log', kind'[k] # "own",
             renderedThrough' < k, k <= cursor'
      PROVE  k \in late' \cup stopped'
  <2>1. k \in Nat /\ cursor \in Nat
    BY TypeStep, MsgsNumbers DEF IInv, TypeOK, BusType, CursorType
  <2>2. CASE RenderPrompt
    <3>1. k \in log /\ log \in SUBSET Msgs /\ trig \in Msgs
      BY <2>2, MsgsNumbers, TypeStep DEF IInv, TypeOK, BusType, RenderPrompt,
         Shape, TurnShape, HasTrigger, Addressed, busVars
    <3>2. PICK j \in Newest(log, HistoryLimit) : k <= j
      BY <3>1, NewestReachesUp, ConstantsAssumption
    <3>3. {trig} \cup Scrollback \in SUBSET Msgs /\ j \in {trig} \cup Scrollback
      BY <1>3, <3>1, <3>2 DEF Scrollback, Newest
    <3>4. j <= renderedThrough' /\ renderedThrough' \in Msgs
      BY <2>2, <3>3, MaxIn DEF RenderPrompt
    <3>5. j \in Nat /\ renderedThrough' \in Nat
      BY <3>3, <3>4, MsgsNumbers
    <3> QED BY <1>3, <2>1, <3>2, <3>4, <3>5
  <2>3. CASE ~RenderPrompt
    <3>1. pc = "start" /\ renderedThrough' = renderedThrough
      <4>1. CASE Turn
        BY <1>3, <2>3, <4>1 DEF Turn, BreakerGate, FetchBatch, SkipUnaddressed, RateLimited,
           ProbeRefused, StartTurn, BindRun, TakeSteered, turnVars, flightVars,
           MarkConsumed, AckConsumed, EndRun, DiscardOrphans, Epilogue, AckTrigger, AckRoomSeen,
           RecordFailure, EpilogueRaises, CheckUnread, Deliver, LaneError, LeaveLane
      <4>2. CASE Dispatch \/ RouteRecheck \/ Crash
        BY <1>3, <4>2 DEF Dispatch, RouteRecheck, Crash, LeaveLane, turnVars
      <4> QED BY <1>3, <4>1, <4>2, TurnFrame DEF turnVars, flightVars
    <3>2. cursor' = cursor
      BY <3>1, CursorFrame DEF CursorSteps, SkipUnaddressed, RateLimited, AckTrigger,
         RouteAckChatter, AckConsumed, IInv, Exclusion, Routing, Preparing
    <3>3. late \subseteq late' /\ stopped \subseteq stopped'
      <4>1. late \subseteq late'
        BY GhostFrame DEF GhostSteps, ghostVars, InsertMessage, RateLimited, RenderPrompt,
           AckTrigger, RouteAppend, TakeSteered, DiscardOrphans, RecordFailure
      <4> QED BY <4>1, BusFrame DEF BusSteps, Senders, StampMessage, InsertMessage, Owner,
           StopTree, RetryFailure, RecordFailure, busVars
    <3>4. CASE k \in log
      BY <1>3, <3>1, <3>2, <3>3, <3>4, LogGrows DEF SightInv, IInv
    <3>5. CASE k \notin log
      <4>1. cursor \in log
        BY <1>3, <2>1, <3>2, TypeStep, MsgsNumbers DEF IInv, TypeOK, BusType, Shape, LogShape
      <4> QED BY <1>3, <3>2, <3>5, <4>1, LandsLate
    <3> QED BY <3>4, <3>5
  <2> QED BY <2>2, <2>3
<1>4. CASE ~BindRun
  BY <1>1, <1>3, <1>4, SightBelowStep, SightHeldStep DEF SightInv
<1> QED BY <1>2, <1>4

-----------------------------------------------------------------------------
(* The read cursor.                                                          *)

Prompted == pc \in {"start", "running", "acking", "ended", "settle", "seen", "ackRead"}

\* The prompt showed what lies between the ends of its scrollback.
PromptInv ==
    IsTeam /\ Prompted =>
        /\ renderedFrom \in log
        /\ \A k \in log :
             kind[k] # "own" /\ renderedFrom <= k /\ k <= renderedThrough => k \in Met

\* Unless a gap is known, the run met what lies between its prompt and the newest
\* steer it reported.
SteeredInv ==
    /\ steeredThrough \in log \cup {0}
    /\ pc \in {"idle", "queued", "admit", "decide", "render", "start"} => steeredThrough = 0
    /\ IsTeam /\ pc \in {"running", "acking"} => registered
    /\ IsTeam /\ ~unsteeredGap => \A k \in log :
         kind[k] # "own" /\ renderedThrough < k /\ k <= steeredThrough => k \in Met

\* The look at what is unread below the prompt stays true until the ack.
BelowInv ==
    pc = "ackRead" => IsTeam /\ \A k \in log :
        kind[k] # "own" /\ readCursor < k /\ k < renderedFrom => k \in Met

ReadInv ==
    /\ PromptInv /\ SteeredInv /\ BelowInv /\ ReadOnlyIfShown
    /\ hookMark = 0 /\ readCursor \in log \cup {0}

LEMMA MetGrows == Next => Met \subseteq Met'
<1> SUFFICES ASSUME Next PROVE Met \subseteq Met'
  OBVIOUS
<1>1. shown \subseteq shown' /\ late \subseteq late' /\ undelivered \subseteq undelivered'
  BY GhostFrame DEF GhostSteps, ghostVars, InsertMessage, RateLimited, RenderPrompt,
     AckTrigger, RouteAppend, TakeSteered, DiscardOrphans, RecordFailure
<1>2. stopped \subseteq stopped'
  BY BusFrame DEF BusSteps, Senders, StampMessage, InsertMessage, Owner, StopTree,
     RetryFailure, RecordFailure, busVars
<1> QED BY <1>1, <1>2 DEF Met

\* A row is an old one of the same kind, or it met its fate when it landed below
\* another row.
LEMMA RowOrLate ==
    ASSUME IInv, Next, NEW k \in log'
    PROVE  /\ k \in Nat /\ k # 0
           /\ \/ k \in log /\ kind'[k] = kind[k]
              \/ k \notin log /\ \A j \in log \cup {0} : k <= j => k \in Met'
<1>1. k \in Nat /\ k # 0 /\ ~(k <= 0)
  <2>1. k \in Nat /\ k # 0
    BY TypeStep, MsgsNumbers DEF IInv, TypeOK, BusType
  <2> QED BY <2>1
<1>2. CASE k \in log
  BY <1>1, <1>2, LogGrows DEF IInv
<1>3. CASE k \notin log
  BY <1>1, <1>3, LandsLate DEF Met
<1> QED BY <1>2, <1>3

\* Nothing but a render, and what a fresh lane resets, moves the ends of a prompt.
LEMMA PromptStays ==
    ASSUME Next, Prompted', ~RenderPrompt
    PROVE  Prompted /\ UNCHANGED <<renderedFrom, renderedThrough, trig>>
<1>1. CASE Turn
  BY <1>1 DEF Turn, Prompted, BreakerGate, FetchBatch, SkipUnaddressed, RateLimited,
     ProbeRefused, StartTurn, BindRun, TakeSteered, turnVars, flightVars,
     MarkConsumed, AckConsumed, EndRun, DiscardOrphans, Epilogue, AckTrigger, AckRoomSeen,
     RecordFailure, EpilogueRaises, CheckUnread, Deliver, LaneError, LeaveLane
<1>2. CASE Dispatch \/ RouteRecheck \/ Crash
  BY <1>2 DEF Prompted, Dispatch, RouteRecheck, Crash, LeaveLane, turnVars
<1> QED BY <1>1, <1>2, TurnFrame DEF turnVars, flightVars, Prompted

LEMMA PromptStep ==
    ASSUME IInv, PromptInv, Next
    PROVE  PromptInv'
<1> SUFFICES ASSUME IsTeam, Prompted'
             PROVE  /\ renderedFrom' \in log'
                    /\ \A k \in log' : kind'[k] # "own" /\ renderedFrom' <= k
                                         /\ k <= renderedThrough' => k \in Met'
  BY DEF PromptInv
<1>1. CASE RenderPrompt
  <2> DEFINE S == Newest(log, HistoryLimit)
  <2>1. Scrollback = S /\ log \in SUBSET Msgs /\ trig \in log
    BY <1>1 DEF Scrollback, IInv, TypeOK, BusType, RenderPrompt, Shape, TurnShape,
       HasTrigger, Addressed
  <2>2. S # {} /\ S \subseteq log
    BY <2>1, NewestNotEmpty, ConstantsAssumption DEF Newest
  <2>3. Min(S) \in S
    BY <2>1, <2>2, MinIn
  <2>4. renderedFrom' = Min(S) /\ log' = log /\ S \subseteq shown'
    BY <1>1, <2>1 DEF RenderPrompt, busVars
  <2>5. HistoryLimit \in Nat
    BY ConstantsAssumption
  <2>6. \A k \in log : Min(S) <= k => k \in S
    BY <2>1, <2>3, <2>5, NewestIsSuffix
  <2> QED BY <2>2, <2>3, <2>4, <2>6 DEF Met
<1>2. CASE ~RenderPrompt
  <2>1. Prompted /\ UNCHANGED <<renderedFrom, renderedThrough>>
    BY <1>2, PromptStays
  <2>2. renderedThrough \in log \cup {0} /\ log \subseteq log'
    BY LogGrows DEF IInv, Shape, TurnShape
  <2> QED BY <2>1, <2>2, RowOrLate, MetGrows DEF PromptInv
<1> QED BY <1>1, <1>2

\* A report covers only what the run met, and what lies in between is in sight.
LEMMA ReportMeets ==
    ASSUME IInv, QueueInv, OrderInv, SightInv, registered, ~unsteeredGap, AckConsumed(TRUE),
           NEW k \in log, kind[k] # "own", renderedThrough < k, k <= Max(reporting)
    PROVE  k \in Met
<1>1. PICK q \in 1..acked : Max(reporting) = pushed[q] /\ q \in DOMAIN pushed
  BY ReportTop
<1>2. k \in Nat /\ pushed[q] \in Nat
  BY <1>1, MsgsNumbers DEF IInv, TypeOK, BusType, Shape, RouteShape
<1>3. k = pushed[q] \/ k < pushed[q]
  BY <1>1, <1>2
<1>4. Sight(k)
  <2>1. CASE k = pushed[q]
    BY <1>1, <2>1 DEF Sight, Range
  <2>2. CASE k < pushed[q]
    BY <1>1, <2>2 DEF SightInv
  <2> QED BY <1>3, <2>1, <2>2
<1>5. CASE k \in late \cup stopped
  BY <1>5 DEF Met
<1>6. CASE k \in Range(pushed)
  <2>1. PICK i \in DOMAIN pushed : k = pushed[i]
    BY <1>6 DEF Range
  <2>2. i \in Nat /\ q \in Nat /\ i >= 1 /\ acked \in Nat /\ taken \in Nat /\ acked <= taken
    BY <1>1 DEF IInv, TypeOK, RunType
  <2>3. CASE i <= q
    <3>1. i \in 1..taken
      BY <1>1, <2>2, <2>3
    <3> QED BY <2>1, <3>1 DEF IInv, PushedInv, Met
  <2>4. CASE q < i
    <3>1. k # pushed[q]
      BY <1>1, <2>1, <2>2, <2>4 DEF QueueInv
    <3> QED BY <1>1, <1>3, <2>1, <2>4, <3>1 DEF OrderInv, Met
  <2> QED BY <2>2, <2>3, <2>4
<1> QED BY <1>4, <1>5, <1>6 DEF Sight

LEMMA SteeredFrame ==
    ASSUME Next
    PROVE  \/ steeredThrough' = 0
           \/ AckConsumed(TRUE)
           \/ /\ steeredThrough' = steeredThrough
              /\ ~unsteeredGap' => ~unsteeredGap
              /\ renderedThrough' = renderedThrough \/ pc \in {"decide", "render"}
              /\ pc' \in {"idle", "queued", "admit", "decide", "render", "start"}
                   => pc \in {"idle", "queued", "admit", "decide", "render", "start"}
<1>1. CASE Turn
  <2>1. ASSUME NEW ok \in BOOLEAN, AckConsumed(ok)
        PROVE  \/ AckConsumed(TRUE)
               \/ UNCHANGED <<steeredThrough, unsteeredGap, renderedThrough>> /\ pc' = "running"
    BY <2>1 DEF AckConsumed
  <2>2. CASE \A ok \in BOOLEAN : ~AckConsumed(ok)
    BY <1>1, <2>2 DEF Turn, BreakerGate, FetchBatch, SkipUnaddressed, RateLimited,
       ProbeRefused, StartTurn, RenderPrompt, BindRun, TakeSteered, turnVars, flightVars,
       MarkConsumed, EndRun, DiscardOrphans, Epilogue, AckTrigger, AckRoomSeen,
       RecordFailure, EpilogueRaises, CheckUnread, Deliver, LaneError, LeaveLane, FreshFlight
  <2> QED BY <2>1, <2>2
<1>2. CASE Dispatch \/ Crash
  BY <1>2 DEF Dispatch, Crash, LeaveLane, FreshFlight
<1>3. CASE RouteRecheck
  BY <1>3 DEF RouteRecheck, turnVars
<1> QED BY <1>1, <1>2, <1>3, TurnFrame DEF turnVars, flightVars

\* A team run is registered as long as it runs.
LEMMA TeamRegistered ==
    ASSUME Next, IsTeam, pc' \in {"running", "acking"},
           pc \in {"running", "acking"} => registered
    PROVE  registered'
<1>1. CASE Turn
  BY <1>1 DEF Turn, BreakerGate, FetchBatch, SkipUnaddressed, RateLimited, runVars,
     ProbeRefused, StartTurn, RenderPrompt, BindRun, TakeSteered, turnVars,
     MarkConsumed, AckConsumed, EndRun, DiscardOrphans, Epilogue, AckTrigger, AckRoomSeen,
     RecordFailure, EpilogueRaises, CheckUnread, Deliver, LaneError, LeaveLane
<1>2. CASE ~Turn /\ ~Crash /\ ~Dispatch
  <2>1. pc' = pc
    BY <1>2, TurnFrame DEF RouteRecheck, turnVars
  <2>2. registered' = registered
    BY <1>2, RunFrame DEF RunSteps, Turn, RouteAppend, runVars
  <2> QED BY <2>1, <2>2
<1> QED BY <1>1, <1>2 DEF Crash, Dispatch, LeaveLane

LEMMA SteeredStep ==
    ASSUME IInv, QueueInv, OrderInv, SightInv, SteeredInv, Next
    PROVE  SteeredInv'
<1>1. CASE steeredThrough' = 0
  <2>1. \A k \in log' : ~(k <= steeredThrough')
    <3> TAKE k \in log'
    <3>1. k \in Nat /\ k # 0
      BY RowOrLate
    <3> QED BY <1>1, <3>1
  <2> QED BY <1>1, <2>1, TeamRegistered DEF SteeredInv
<1>2. CASE AckConsumed(TRUE) /\ steeredThrough' # 0
  <2>1. PICK q \in 1..acked : Max(reporting) = pushed[q] /\ q \in DOMAIN pushed
    BY <1>2, ReportTop
  <2>2. /\ UNCHANGED <<log, kind, renderedThrough, unsteeredGap>> /\ pc = "acking" /\ pc' = "running"
        /\ steeredThrough' = Forward(steeredThrough, Max(reporting))
    BY <1>2 DEF AckConsumed, busVars
  <2>3. Max(reporting) \in log
    BY <2>1 DEF IInv, Shape, RouteShape
  <2>4. steeredThrough' \in {steeredThrough, Max(reporting)}
    BY <2>2 DEF Forward
  <2>5. IsTeam => registered
    BY <2>2 DEF SteeredInv
  <2>6. ASSUME IsTeam, ~unsteeredGap, NEW k \in log, kind[k] # "own", renderedThrough < k,
               k <= steeredThrough'
        PROVE  k \in Met'
    <3>1. CASE k <= steeredThrough
      BY <2>6, <3>1, MetGrows DEF SteeredInv
    <3>2. CASE k <= Max(reporting)
      BY <1>2, <2>5, <2>6, <3>2, ReportMeets, MetGrows
    <3> QED BY <2>4, <2>6, <3>1, <3>2
  <2> QED BY <2>2, <2>3, <2>4, <2>6, TeamRegistered DEF SteeredInv
<1>3. CASE /\ steeredThrough' = steeredThrough /\ steeredThrough # 0
           /\ ~unsteeredGap' => ~unsteeredGap
           /\ renderedThrough' = renderedThrough \/ pc \in {"decide", "render"}
           /\ pc' \in {"idle", "queued", "admit", "decide", "render", "start"}
                => pc \in {"idle", "queued", "admit", "decide", "render", "start"}
  <2>1. renderedThrough' = renderedThrough
    BY <1>3 DEF SteeredInv
  <2>2. log \subseteq log'
    BY LogGrows DEF IInv
  <2>3. ASSUME IsTeam, ~unsteeredGap', NEW k \in log', kind'[k] # "own", renderedThrough' < k,
               k <= steeredThrough'
        PROVE  k \in Met'
    BY <1>3, <2>1, <2>3, RowOrLate, MetGrows DEF SteeredInv
  <2> QED BY <1>3, <2>2, <2>3, TeamRegistered DEF SteeredInv
<1> QED BY <1>1, <1>2, <1>3, SteeredFrame

LEMMA BelowStep ==
    ASSUME IInv, PromptInv, BelowInv, Next, hookMark = 0
    PROVE  BelowInv'
<1> SUFFICES ASSUME pc' = "ackRead"
             PROVE  IsTeam /\ \A k \in log' :
                      kind'[k] # "own" /\ readCursor' < k /\ k < renderedFrom' => k \in Met'
  BY DEF BelowInv
<1>1. CASE CheckUnread
  <2>1. IsTeam /\ ~HasUnreadBefore(renderedFrom)
    BY <1>1 DEF CheckUnread
  <2>2. UNCHANGED <<log, kind, readCursor, renderedFrom>>
    BY <1>1 DEF CheckUnread, busVars, ackVars
  <2> QED BY <2>1, <2>2 DEF HasUnreadBefore, Unread
<1>2. CASE ~CheckUnread
  <2>1. pc = "ackRead" /\ Prompted /\ ~RenderPrompt
    <3>1. CASE Turn
      BY <1>2, <3>1 DEF Turn, Prompted, BreakerGate, FetchBatch, SkipUnaddressed, RateLimited,
         ProbeRefused, StartTurn, RenderPrompt, BindRun, TakeSteered, turnVars,
         MarkConsumed, AckConsumed, EndRun, DiscardOrphans, Epilogue, AckTrigger, AckRoomSeen,
         RecordFailure, EpilogueRaises, Deliver, LaneError, LeaveLane
    <3>2. CASE ~Turn
      BY <3>2, TurnFrame DEF Dispatch, RouteRecheck, Crash, LeaveLane, turnVars, Prompted, Turn
    <3> QED BY <3>1, <3>2
  <2>2. UNCHANGED renderedFrom
    BY <2>1, PromptStays DEF Prompted
  <2>3. readCursor' = readCursor
    BY <2>1, ReadCursorFrame DEF AckRoomSeen, AfterTurnMarks
  <2>4. IsTeam /\ renderedFrom \in log
    BY <2>1 DEF BelowInv, PromptInv
  <2>5. ASSUME NEW k \in log', kind'[k] # "own", readCursor' < k, k < renderedFrom'
        PROVE  k \in Met'
    <3>1. CASE k \in log
      BY <2>1, <2>2, <2>3, <2>5, <3>1, RowOrLate, MetGrows DEF BelowInv
    <3>2. CASE k \notin log
      <4>1. k <= renderedFrom
        BY <2>2, <2>4, <2>5, RowOrLate, MsgsNumbers DEF IInv, TypeOK, BusType
      <4> QED BY <2>4, <2>5, <3>2, <4>1, RowOrLate
    <3> QED BY <3>1, <3>2
  <2> QED BY <2>4, <2>5
<1> QED BY <1>1, <1>2

\* The ack of a room writes only what the run met.
LEMMA ReadStep ==
    ASSUME MaxReplies = 0, IInv, QueueInv, OrderInv, SightInv, ReadInv, Next
    PROVE  ReadOnlyIfShown' /\ hookMark' = 0 /\ readCursor' \in log' \cup {0}
<1> USE DEF ReadInv
<1>1. hookMark' = 0
  <2>1. ~AfterTurnReads
    <3>1. replies \in Nat
      BY DEF IInv, TypeOK, HookType
    <3>2. ~(replies < MaxReplies)
      BY <3>1
    <3> QED BY <3>2 DEF AfterTurnReads
  <2>2. ~AfterTurnMarks
    BY DEF AfterTurnMarks
  <2> QED BY <2>1, <2>2, HookVarsFrame DEF Hook, hookVars
<1>2. log \subseteq log'
  BY LogGrows DEF IInv
<1>3. CASE UNCHANGED readCursor
  <2>1. ReadOnlyIfShown'
    BY <1>3, RowOrLate, MetGrows DEF ReadOnlyIfShown, Met
  <2> QED BY <1>1, <1>2, <1>3, <2>1
<1>4. CASE AckRoomSeen(TRUE)
  <2>1. /\ pc = "ackRead" /\ UNCHANGED <<log, kind>>
        /\ readCursor' = Forward(readCursor, ReadHighWater)
    BY <1>4 DEF AckRoomSeen, busVars
  <2>2. /\ IsTeam /\ Prompted /\ trig \in log /\ trig <= renderedThrough
        /\ renderedFrom \in log /\ renderedThrough \in log \cup {0}
    BY <2>1 DEF BelowInv, Prompted, PromptInv, IInv, Shape, TurnShape, HasTrigger, Addressed
  <2>3. readCursor' \in {readCursor, trig, steeredThrough}
    BY <2>1 DEF ReadHighWater, Forward
  <2>4. readCursor' \in {readCursor, trig} \/ ~unsteeredGap
    BY <2>1 DEF ReadHighWater, Forward
  <2>5. readCursor' \in log' \cup {0}
    BY <2>1, <2>2, <2>3 DEF SteeredInv
  <2>6. ASSUME NEW k \in log, kind[k] # "own", k <= readCursor' PROVE k \in Met
    <3>1. /\ k \in Nat /\ readCursor \in Nat /\ trig \in Nat
          /\ renderedFrom \in Nat /\ renderedThrough \in Nat
      BY MsgsNumbers DEF IInv, TypeOK, BusType, CursorType, TurnType
    <3>2. CASE k <= readCursor
      BY <2>6, <3>2 DEF ReadOnlyIfShown, Met
    <3>3. CASE readCursor < k /\ k < renderedFrom
      BY <2>1, <2>6, <3>3 DEF BelowInv
    <3>4. CASE renderedFrom <= k /\ k <= renderedThrough
      BY <2>2, <2>6, <3>4 DEF PromptInv
    <3>5. CASE renderedThrough < k /\ ~(k <= readCursor)
      <4>1. ~(k <= trig)
        BY <2>2, <3>1, <3>5
      <4>2. readCursor' = steeredThrough /\ ~unsteeredGap
        BY <2>3, <2>4, <2>6, <3>5, <4>1
      <4> QED BY <2>2, <2>6, <3>5, <4>2 DEF SteeredInv
    <3> QED BY <3>1, <3>2, <3>3, <3>4, <3>5
  <2>7. ReadOnlyIfShown'
    BY <2>1, <2>6, MetGrows DEF ReadOnlyIfShown, Met
  <2> QED BY <1>1, <2>5, <2>7
<1>5. ASSUME NEW ok \in BOOLEAN, AckRoomSeen(ok) PROVE AckRoomSeen(TRUE) \/ UNCHANGED readCursor
  BY <1>5 DEF AckRoomSeen
<1>6. ~AfterTurnMarks
  BY DEF AfterTurnMarks
<1> QED BY <1>3, <1>4, <1>5, <1>6, ReadCursorFrame

-----------------------------------------------------------------------------
(* The theorem.                                                              *)

LEMMA ReadInvStep ==
    MaxReplies = 0 /\ IInv /\ IInv' /\ QueueInv /\ FloorInv /\ SightInv /\ ReadInv /\ [Next]_vars
        => SightInv' /\ ReadInv'
<1> SUFFICES ASSUME MaxReplies = 0, IInv, IInv', QueueInv, FloorInv, SightInv, ReadInv, [Next]_vars
             PROVE  SightInv' /\ ReadInv'
  OBVIOUS
<1>1. CASE Next
  <2>1. SightInv'
    BY <1>1, SightStep DEF FloorInv
  <2>2. PromptInv' /\ SteeredInv' /\ BelowInv'
    BY <1>1, PromptStep, SteeredStep, BelowStep DEF FloorInv, ReadInv
  <2> QED BY <1>1, <2>1, <2>2, ReadStep DEF FloorInv, ReadInv
<1>2. CASE UNCHANGED vars
  <2> USE <1>2 DEF vars, busVars, ackVars, turnVars, flightVars, runVars, routeVars, ghostVars,
                   hookVars
  <2>1. SightInv'
    BY DEF SightInv, Sight, Held, Chatter, Addressed, Range
  <2>2. ReadInv'
    BY DEF ReadInv, PromptInv, Prompted, SteeredInv, BelowInv, ReadOnlyIfShown, Met
  <2> QED BY <2>1, <2>2
<1> QED BY <1>1, <1>2

\* When no background hook writes it, the read cursor of a lane passes only what a
\* prompt or a steer of this room showed, or what no process could have shown:
\* rows of a stopped tree, rows that landed out of order, lost POSTs.  It holds for
\* every scrollback length, batch limit and cap, and any number of messages,
\* crashes, faults, retries and stops.  (In a DM the cursor is not written at all.)
THEOREM ReadHonest == Spec => [](MaxReplies = 0 => ReadOnlyIfShown)
<1> DEFINE I == MaxReplies = 0 => SightInv /\ ReadInv
<1>1. Init => I
  BY DEF Init, SightInv, Held, Chatter, Addressed, ReadInv, PromptInv, Prompted, SteeredInv,
     BelowInv, ReadOnlyIfShown
<1>2. IInv /\ IInv' /\ QueueInv /\ FloorInv /\ I /\ [Next]_vars => I'
  BY ReadInvStep
<1>3. I => (MaxReplies = 0 => ReadOnlyIfShown)
  BY DEF ReadInv
<1> HIDE DEF I
<1> QED BY <1>1, <1>2, <1>3, RunInvariant, FloorInvariant, Inductive, PTL DEF Spec

-----------------------------------------------------------------------------
(* The lane implements Mailbox.                                              *)

\* A lane without an admitted turn serves nobody, and what a batch holds waits
\* unparked until the turn is admitted.
MailInv ==
    /\ ~HasTrigger => trig = 0
    /\ pc = "decide" => \A m \in batch : m > cursor /\ ~Poisoned(m)

\* A turn begins to serve in StartTurn and ends in one of four steps.
LEMMA TrigFrame ==
    ASSUME IInv, MailInv, Next
    PROVE  \/ trig' = trig
           \/ StartTurn
           \/ /\ trig # 0 /\ trig' = 0
              /\ Deliver \/ EpilogueRaises \/ Crash \/ \E ok \in BOOLEAN : RecordFailure(ok)
<1>1. CASE Turn
  <2>1. pc \in {"idle", "queued", "admit", "decide"} => trig = 0
    BY DEF MailInv, HasTrigger
  <2>2. CASE BreakerGate \/ FetchBatch \/ SkipUnaddressed \/ RateLimited \/ ProbeRefused \/ LaneError
    BY <2>1, <2>2 DEF BreakerGate, FetchBatch, SkipUnaddressed, RateLimited, ProbeRefused,
       LaneError, LeaveLane, FreshFlight
  <2>3. CASE RenderPrompt \/ BindRun \/ AckTrigger \/ CheckUnread
    BY <2>3 DEF RenderPrompt, BindRun, AckTrigger, CheckUnread, turnVars
  <2>4. ASSUME NEW o \in Outcomes, EndRun(o) PROVE trig' = trig
    BY <2>4 DEF EndRun
  <2>5. ASSUME NEW ok \in BOOLEAN,
               TakeSteered(ok) \/ MarkConsumed(ok) \/ AckConsumed(ok) \/ DiscardOrphans(ok)
                 \/ AckRoomSeen(ok)
        PROVE  trig' = trig
    BY <2>5 DEF TakeSteered, MarkConsumed, AckConsumed, DiscardOrphans, AckRoomSeen, turnVars
  <2>6. CASE Deliver \/ EpilogueRaises
    BY <2>6 DEF Deliver, EpilogueRaises, LeaveLane, FreshFlight
  <2>7. ASSUME NEW ok \in BOOLEAN, RecordFailure(ok) PROVE trig' = 0
    BY <2>7 DEF RecordFailure, LeaveLane, FreshFlight
  <2> QED BY <1>1, <2>2, <2>3, <2>4, <2>5, <2>6, <2>7, Zenon DEF Turn
<1>2. CASE Dispatch
  BY <1>2 DEF Dispatch, FreshFlight, InFlight, MailInv, HasTrigger
<1>3. CASE RouteRecheck
  BY <1>3 DEF RouteRecheck, turnVars
<1>4. CASE Crash
  BY <1>4 DEF Crash, LeaveLane, FreshFlight
<1> QED BY <1>1, <1>2, <1>3, <1>4, TurnFrame DEF turnVars

LEMMA FailsFrame ==
    Next => \/ \E m \in Msgs : RetryFailure(m)
            \/ \E ok \in BOOLEAN : RecordFailure(ok)
            \/ UNCHANGED fails
BY BusFrame DEF BusSteps, Senders, StampMessage, InsertMessage, Owner, StopTree, ackVars

\* Nothing touches the batch and the cursor between the read and the admission.
LEMMA MailInvStep == IInv /\ MailInv /\ [Next]_vars => MailInv'
<1> SUFFICES ASSUME IInv, MailInv, [Next]_vars PROVE MailInv'
  OBVIOUS
<1>1. ASSUME Next, ~HasTrigger' PROVE trig' = 0
  <2>1. CASE StartTurn
    BY <1>1, <2>1 DEF StartTurn, HasTrigger
  <2>2. CASE trig' = trig
    <3>1. ASSUME HasTrigger PROVE trig' = 0
      BY <1>1, <2>2, <3>1, TurnFrame DEF HasTrigger, Turn, BreakerGate, FetchBatch, SkipUnaddressed,
         RateLimited, ProbeRefused, StartTurn, RenderPrompt, BindRun, TakeSteered,
         MarkConsumed, AckConsumed, EndRun, DiscardOrphans, Epilogue, AckTrigger, AckRoomSeen,
         RecordFailure, EpilogueRaises, CheckUnread, Deliver, LaneError, LeaveLane,
         FreshFlight, Dispatch, InFlight, RouteRecheck, Crash, turnVars
    <3> QED BY <2>2, <3>1 DEF MailInv
  <2> QED BY <1>1, <2>1, <2>2, TrigFrame
<1>2. ASSUME Next, pc' = "decide", NEW m \in batch' PROVE m > cursor' /\ ~Poisoned(m)'
  <2>1. FetchBatch \/ (pc = "decide" /\ UNCHANGED batch)
    <3>1. CASE BreakerGate \/ SkipUnaddressed \/ RateLimited \/ ProbeRefused \/ LaneError
               \/ StartTurn \/ Dispatch \/ Crash
      BY <1>2, <3>1 DEF BreakerGate, SkipUnaddressed, RateLimited, ProbeRefused, LaneError,
         StartTurn, Dispatch, Crash, LeaveLane
    <3>2. CASE RenderPrompt \/ BindRun \/ AckTrigger \/ CheckUnread \/ Deliver
               \/ EpilogueRaises
      BY <1>2, <3>2 DEF RenderPrompt, BindRun, AckTrigger, CheckUnread, Deliver,
         EpilogueRaises, LeaveLane
    <3>3. ASSUME NEW o \in Outcomes, EndRun(o) PROVE FALSE
      BY <1>2, <3>3 DEF EndRun
    <3>4. ASSUME NEW ok \in BOOLEAN,
                 TakeSteered(ok) \/ MarkConsumed(ok) \/ AckConsumed(ok) \/ DiscardOrphans(ok)
                   \/ AckRoomSeen(ok) \/ RecordFailure(ok)
          PROVE  FALSE
      BY <1>2, <3>4 DEF TakeSteered, MarkConsumed, AckConsumed, DiscardOrphans, Epilogue,
         AckRoomSeen, RecordFailure, LeaveLane, turnVars
    <3>5. CASE RouteRecheck \/ UNCHANGED turnVars
      BY <1>2, <3>5 DEF RouteRecheck, turnVars
    <3> QED BY <1>2, <3>1, <3>2, <3>3, <3>4, <3>5, TurnFrame, Zenon DEF Turn
  <2>2. CASE FetchBatch
    <3>1. \A k \in GetPending : k > cursor /\ ~Poisoned(k)
      BY DEF GetPending, Oldest, Pending
    <3>2. batch' = GetPending /\ UNCHANGED <<cursor, fails>>
      BY <1>2, <2>2 DEF FetchBatch, LeaveLane, ackVars
    <3> QED BY <1>2, <3>1, <3>2 DEF Poisoned
  <2>3. CASE pc = "decide" /\ UNCHANGED batch
    <3>1. UNCHANGED cursor
      BY <1>2, <2>3, CursorFrame DEF CursorSteps, SkipUnaddressed, RateLimited, AckTrigger,
         AckConsumed, LeaveLane, RouteAckChatter, IInv, Exclusion, Routing, Preparing
    <3>2. m > cursor /\ ~Poisoned(m) /\ m \in Msgs
      BY <2>3, <1>2 DEF MailInv, IInv, TypeOK, TurnType
    <3>3. fails'[m] = fails[m] \/ fails'[m] = 0
      BY <1>2, <2>3, <3>2, FailsFrame DEF RetryFailure, RecordFailure, IInv, TypeOK, BusType
    <3>4. ~Poisoned(m)'
      BY <3>2, <3>3, ConstantsAssumption DEF Poisoned
    <3> QED BY <3>1, <3>2, <3>4
  <2> QED BY <2>1, <2>2, <2>3
<1>3. CASE UNCHANGED vars
  BY <1>3 DEF MailInv, HasTrigger, Poisoned, vars, turnVars, ackVars
<1> QED BY <1>1, <1>2, <1>3 DEF MailInv

\* What the other steps leave alone, in the terms of a mailbox.
LEMMA ParkedFrame == Next => (\E ok \in BOOLEAN : RecordFailure(ok)) \/ UNCHANGED parked
BY GhostFrame DEF GhostSteps, ghostVars, InsertMessage, RateLimited, RenderPrompt,
   AckTrigger, RouteAppend, TakeSteered, DiscardOrphans

LEMMA ShownFrame == Next => pc \in {"render", "running"} \/ UNCHANGED shown
BY GhostFrame DEF GhostSteps, ghostVars, InsertMessage, RateLimited, RenderPrompt,
   AckTrigger, RouteAppend, TakeSteered, DiscardOrphans, RecordFailure

LEMMA LeftOutGrows == Next => LeftOut \subseteq LeftOut'
<1> SUFFICES ASSUME Next PROVE LeftOut \subseteq LeftOut'
  OBVIOUS
<1>1. stopped \subseteq stopped'
  BY BusFrame DEF BusSteps, Senders, StampMessage, InsertMessage, Owner, StopTree,
     RetryFailure, RecordFailure, busVars
<1>2. /\ rateDropped \subseteq rateDropped' /\ late \subseteq late' /\ hidden \subseteq hidden'
      /\ unquoted \subseteq unquoted' /\ undelivered \subseteq undelivered' /\ overflow \subseteq overflow'
  BY GhostFrame DEF GhostSteps, ghostVars, InsertMessage, RateLimited, RenderPrompt,
     AckTrigger, RouteAppend, TakeSteered, DiscardOrphans, RecordFailure
<1> QED BY <1>1, <1>2 DEF LeftOut

LEMMA CursorGrows ==
    ASSUME TypeOK, TypeOK', Next
    PROVE  cursor \in Nat /\ cursor' \in Nat /\ cursor <= cursor'
<1>1. cursor \in Nat /\ cursor' \in Nat
  BY ConstantsAssumption DEF TypeOK, CursorType
<1>2. ASSUME NEW ts, cursor' = Forward(cursor, ts) PROVE cursor <= cursor'
  BY <1>1, <1>2 DEF Forward
<1>3. UNCHANGED cursor \/ \E ts : cursor' = Forward(cursor, ts)
  BY CursorFrame DEF CursorSteps, SkipUnaddressed, RateLimited, AckTrigger,
     RouteAckChatter, AckConsumed
<1> QED BY <1>1, <1>2, <1>3

LEMMA AddressedFrame ==
    ASSUME TypeOK, Shape, Next
    PROVE  \/ \E m \in Msgs : InsertMessage(m) /\ kind[m] = "addressed"
           \/ Addressed(log)' = Addressed(log)
<1>1. ASSUME NEW k \in Kinds, StampMessage(k) PROVE Addressed(log)' = Addressed(log)
  <2>1. log' = log /\ \A m \in log : kind'[m] = kind[m]
    BY <1>1 DEF StampMessage, TypeOK, BusType, Shape, LogShape
  <2> QED BY <2>1 DEF Addressed
<1>2. ASSUME NEW m \in Msgs, InsertMessage(m), kind[m] # "addressed"
      PROVE  Addressed(log)' = Addressed(log)
  BY <1>2 DEF InsertMessage, Addressed
<1>3. ASSUME Owner \/ UNCHANGED busVars \/ \E ok \in BOOLEAN : RecordFailure(ok)
      PROVE  Addressed(log)' = Addressed(log)
  BY <1>3 DEF Owner, StopTree, RetryFailure, RecordFailure, busVars, Addressed
<1> QED BY <1>1, <1>2, <1>3, BusFrame DEF BusSteps, Senders

\* A step that does not start or end a turn, lands no letter and counts no failure.
LEMMA MapProgress ==
    ASSUME IInv, IInv', MailInv, Next, Addressed(log)' = Addressed(log),
           UNCHANGED <<parked, trig, fails>>
    PROVE  Mail!Progress
<1>1. shown \subseteq shown' /\ LeftOut \subseteq LeftOut'
  <2>1. shown \subseteq shown'
    BY GhostFrame DEF GhostSteps, ghostVars, InsertMessage, RateLimited, RenderPrompt,
       AckTrigger, RouteAppend, TakeSteered, DiscardOrphans, RecordFailure
  <2> QED BY <2>1, LeftOutGrows
<1>2. shown' # shown => trig # 0
  <2>1. HasTrigger => trig # 0
    BY MsgsNumbers DEF IInv, Shape, TurnShape, TypeOK, TurnType, Addressed
  <2> QED BY <2>1, ShownFrame DEF HasTrigger
<1>3. ASSUME NEW m \in Msgs, Stage(m)' # Stage(m)
      PROVE  Stage(m) = "waiting" /\ Stage(m)' = "passed" /\ m \in shown' \cup LeftOut' \cup parked
  <2>1. m \in Addressed(log) /\ m > cursor /\ ~(m > cursor')
    <3>1. m \in Nat /\ cursor \in Nat /\ cursor' \in Nat /\ cursor <= cursor'
      BY CursorGrows, MsgsNumbers DEF IInv
    <3>2. m \in Addressed(log) /\ (m > cursor) # (m > cursor')
      BY <1>3 DEF Stage
    <3> QED BY <3>1, <3>2
  <2>2. m \in Accounted'
    <3>1. m \in Nat /\ cursor' \in Nat
      BY MsgsNumbers, CursorGrows DEF IInv
    <3>2. m \in Addressed(log)' /\ m <= cursor'
      BY <2>1, <3>1
    <3>3. NoSilentLoss'
      BY DEF IInv
    <3> QED BY <3>2, <3>3 DEF NoSilentLoss
  <2>3. m \in shown' \cup LeftOut' \cup parked
    BY <2>2 DEF Accounted, LeftOut
  <2> QED BY <2>1, <2>3 DEF Stage
<1>4. \A m \in Msgs : [k \in Msgs |-> Stage(k)]'[m] = Stage(m)' /\ [k \in Msgs |-> Stage(k)][m] = Stage(m)
  OBVIOUS
<1> QED BY <1>1, <1>2, <1>3, <1>4, Zenon DEF Mail!Progress

\* A letter lands: above the cursor, or late.
LEMMA MapArrive ==
    ASSUME IInv, IInv', Next, NEW m \in Msgs, InsertMessage(m), kind[m] = "addressed",
           m \notin log
    PROVE  Mail!Arrive(m)
<1>1. log' = log \cup {m} /\ UNCHANGED <<kind, cursor, shown, parked, trig, fails>>
  BY DEF InsertMessage, ackVars, turnVars
<1>2. \A k \in Msgs \ {m} : Stage(k)' = Stage(k)
  <2> TAKE k \in Msgs \ {m}
  <2>1. k \in Addressed(log)' <=> k \in Addressed(log)
    BY <1>1 DEF Addressed
  <2> QED BY <1>1, <2>1 DEF Stage
<1>3. Stage(m) = "absent" /\ Stage(m)' \in {"waiting", "passed"}
  BY <1>1 DEF Stage, Addressed
<1>4. LeftOut' \in {LeftOut, LeftOut \cup {m}}
  BY DEF InsertMessage, LeftOut
<1>5. Stage(m)' = "passed" => m \in LeftOut'
  <2> SUFFICES ASSUME Stage(m)' = "passed" PROVE m \in LeftOut'
    OBVIOUS
  <2>1. ~(m > cursor)
    BY <1>1, <1>3 DEF Stage
  <2>2. m \in Nat /\ cursor \in Nat /\ m # 0 /\ cursor \in log \cup {0}
    BY MsgsNumbers, CursorGrows DEF IInv, Shape, LogShape
  <2>3. cursor \in log /\ m <= cursor
    BY <2>1, <2>2
  <2>4. m \in late'
    BY <1>1, <2>3, LandsLate
  <2> QED BY <2>4 DEF LeftOut
<1>6. \A k \in Msgs : [j \in Msgs |-> Stage(j)]'[k] = Stage(k)' /\ [j \in Msgs |-> Stage(j)][k] = Stage(k)
  OBVIOUS
<1> QED BY <1>1, <1>2, <1>3, <1>4, <1>5, <1>6, Zenon DEF Mail!Arrive

StageMap == [m \in Msgs |-> Stage(m)]

LEMMA StageStays ==
    ASSUME Addressed(log)' = Addressed(log), cursor' = cursor
    PROVE  StageMap' = StageMap
BY Zenon DEF StageMap, Stage

LEMMA MapServe == ASSUME IInv, MailInv, StartTurn PROVE Mail!Serve(trig')
<1>1. /\ pc = "decide" /\ trig' = Max(Addressed(batch)) /\ Addressed(batch) # {}
      /\ UNCHANGED <<kind, log, stopped, cursor, fails, shown, parked>> /\ LeftOut' = LeftOut
  BY DEF StartTurn, busVars, ackVars, ghostVars, LeftOut
<1>2. trig' \in Addressed(batch)
  <2>1. Addressed(batch) \in SUBSET Msgs
    BY DEF Addressed, IInv, TypeOK, TurnType
  <2> QED BY <1>1, <2>1, MaxIn
<1>3. trig' \in Addressed(log) /\ trig' > cursor /\ ~Poisoned(trig') /\ trig' \in Msgs
  <2>1. trig' \in Addressed(log) /\ trig' \in Msgs
    BY <1>2 DEF Addressed, IInv, Shape, TurnShape, TypeOK, TurnType
  <2> QED BY <1>1, <1>2, <2>1 DEF MailInv, Addressed
<1>4. fails[trig'] < PoisonThreshold
  BY <1>3, ConstantsAssumption DEF Poisoned, IInv, TypeOK, BusType
<1>5. [m \in Msgs |-> Stage(m)][trig'] = "waiting"
  BY <1>3 DEF Stage
<1>6. [m \in Msgs |-> Stage(m)]' = [m \in Msgs |-> Stage(m)]
  BY <1>1, StageStays, Zenon DEF StageMap, Addressed
<1>7. trig = 0
  BY <1>1 DEF MailInv, HasTrigger
<1> QED BY <1>1, <1>4, <1>5, <1>6, <1>7, Zenon DEF Mail!Serve

LEMMA MapRetry == ASSUME NEW m \in Msgs, RetryFailure(m) PROVE Mail!Retry(m)
<1>1. /\ UNCHANGED <<kind, log, cursor, shown, parked, trig>> /\ LeftOut' = LeftOut
      /\ fails[m] > 0 /\ fails' = [fails EXCEPT ![m] = 0]
  BY DEF RetryFailure, busVars, ghostVars, turnVars, LeftOut
<1>2. [k \in Msgs |-> Stage(k)]' = [k \in Msgs |-> Stage(k)]
  BY <1>1, StageStays, Zenon DEF StageMap, Addressed
<1> QED BY <1>1, <1>2, Zenon DEF Mail!Retry

LEMMA MapClose ==
    ASSUME Deliver \/ EpilogueRaises \/ Crash, trig # 0, trig' = 0
    PROVE  Mail!Close
<1>1. UNCHANGED <<kind, log, cursor, shown, parked, fails>> /\ LeftOut' = LeftOut
  BY DEF Deliver, EpilogueRaises, Crash, busVars, ackVars, ghostVars, LeftOut
<1>2. [k \in Msgs |-> Stage(k)]' = [k \in Msgs |-> Stage(k)]
  BY <1>1, StageStays, Zenon DEF StageMap, Addressed
<1> QED BY <1>1, <1>2, Zenon DEF Mail!Close

LEMMA MapRecord ==
    ASSUME IInv, NEW ok \in BOOLEAN, RecordFailure(ok)
    PROVE  Mail!Fail \/ Mail!Close
<1>1. /\ UNCHANGED <<kind, log, cursor, shown>> /\ LeftOut' = LeftOut /\ trig' = 0
  BY DEF RecordFailure, LeaveLane, FreshFlight, busVars, LeftOut
<1>2. [k \in Msgs |-> Stage(k)]' = [k \in Msgs |-> Stage(k)]
  BY <1>1, StageStays, Zenon DEF StageMap, Addressed
<1>3. trig # 0
  BY MsgsNumbers DEF RecordFailure, HasTrigger, IInv, Shape, TurnShape, TypeOK, TurnType, Addressed
<1>4. CASE UNCHANGED <<fails, parked>>
  BY <1>1, <1>2, <1>3, <1>4, Zenon DEF Mail!Close
<1>5. CASE /\ fails' = [fails EXCEPT ![trig] = @ + 1]
           /\ parked' = IF fails'[trig] >= PoisonThreshold THEN parked \cup {trig} ELSE parked
  BY <1>1, <1>2, <1>3, <1>5, Zenon DEF Mail!Fail
<1> QED BY <1>4, <1>5 DEF RecordFailure, CountFailure

LEMMA MapStutter ==
    ASSUME UNCHANGED vars
    PROVE  UNCHANGED Mail!mailVars
<1>1. UNCHANGED <<kind, log, cursor, shown, parked, trig, fails>> /\ LeftOut' = LeftOut
  BY DEF vars, busVars, ackVars, turnVars, ghostVars, LeftOut
<1>2. [k \in Msgs |-> Stage(k)]' = [k \in Msgs |-> Stage(k)]
  BY <1>1, StageStays, Zenon DEF StageMap, Addressed
<1> QED BY <1>1, <1>2, Zenon DEF Mail!mailVars

LEMMA MailStep == IInv /\ IInv' /\ MailInv /\ [Next]_vars => [Mail!Next]_(Mail!mailVars)
<1> SUFFICES ASSUME IInv, IInv', MailInv, [Next]_vars PROVE [Mail!Next]_(Mail!mailVars)
  OBVIOUS
<1>1. CASE UNCHANGED vars
  BY <1>1, MapStutter, Zenon
<1>2. CASE Next
  <2>1. ASSUME NEW m \in Msgs, InsertMessage(m), kind[m] = "addressed", m \notin log
        PROVE  Mail!Next
    BY <1>2, <2>1, MapArrive, Zenon DEF Mail!Next
  <2>2. CASE StartTurn
    <3>1. trig' \in Msgs
      <4>1. Addressed(batch) \in SUBSET Msgs
        BY DEF Addressed, IInv, TypeOK, TurnType
      <4> QED BY <2>2, <4>1, MaxIn DEF StartTurn
    <3> QED BY <2>2, <3>1, MapServe, Zenon DEF Mail!Next
  <2>3. ASSUME NEW m \in Msgs, RetryFailure(m) PROVE Mail!Next
    BY <2>3, MapRetry, Zenon DEF Mail!Next
  <2>4. ASSUME NEW ok \in BOOLEAN, RecordFailure(ok) PROVE Mail!Next
    BY <2>4, MapRecord, Zenon DEF Mail!Next
  <2>5. CASE (Deliver \/ EpilogueRaises \/ Crash) /\ trig # 0 /\ trig' = 0
    BY <2>5, MapClose, Zenon DEF Mail!Next
  <2>6. CASE /\ Addressed(log)' = Addressed(log)
             /\ UNCHANGED <<parked, trig, fails>>
    BY <1>2, <2>6, MapProgress, Zenon DEF Mail!Next
  <2>7. ASSUME NEW m \in Msgs, InsertMessage(m), m \in log PROVE Addressed(log)' = Addressed(log)
    <3>1. log' = log /\ kind' = kind
      BY <2>7 DEF InsertMessage
    <3> QED BY <3>1 DEF Addressed
  <2>8. ASSUME NEW m \in Msgs, InsertMessage(m) PROVE UNCHANGED <<parked, trig, fails>>
    BY <2>8 DEF InsertMessage, ackVars, turnVars
  <2>9. Addressed(log)' = Addressed(log) \/ \E m \in Msgs : InsertMessage(m) /\ kind[m] = "addressed"
    BY <1>2, AddressedFrame DEF IInv
  <2> QED BY <1>2, <2>1, <2>2, <2>3, <2>4, <2>5, <2>6, <2>7, <2>8, <2>9, TrigFrame, FailsFrame,
       ParkedFrame, Zenon
<1> QED BY <1>1, <1>2

\* To its senders a lane is a mailbox, whatever the number of messages, crashes, faults,
\* retries and stops: it answers one message at a time, one that still waits and is not
\* parked; it passes a message once, shown or left out by a rule of the lane or by one
\* of its known gaps; and a turn that fails passes nothing.
THEOREM LaneIsMailbox == Spec => KeepsMailbox
<1>1. Init => Mail!Init /\ MailInv
  <2> SUFFICES ASSUME Init PROVE Mail!Init /\ MailInv
    OBVIOUS
  <2>1. MailInv
    BY DEF Init, MailInv, HasTrigger
  <2>2. [m \in Msgs |-> Stage(m)] = [m \in Msgs |-> "absent"]
    <3>1. \A m \in Msgs : Stage(m) = "absent"
      BY DEF Init, Stage, Addressed
    <3> QED BY <3>1, Zenon
  <2>3. LeftOut = {}
    BY DEF Init, LeftOut
  <2> QED BY <2>1, <2>2, <2>3, Zenon DEF Init, Mail!Init
<1> QED BY <1>1, MailInvStep, MailStep, Inductive, PTL DEF Spec, KeepsMailbox, Mail!Spec

=============================================================================
