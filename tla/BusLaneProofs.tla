---------------------------- MODULE BusLaneProofs ----------------------------
(***************************************************************************)
(* Proofs about a lane, for every number of messages and every limit: the  *)
(* invariant of BusLaneInv is inductive, so a lane is type correct and no  *)
(* cursor write skips a message that nothing accounts for.                 *)
(***************************************************************************)
EXTENDS BusLaneInv, SetOrder

-----------------------------------------------------------------------------
(* The sets of a lane have greatest and least elements; a LIMIT keeps a      *)
(* downward closed part of what it is applied to.                            *)

LEMMA MsgsNumbers ==
    /\ Msgs \subseteq 0..MaxMsg /\ 0..MaxMsg \subseteq Nat /\ Msgs \subseteq Nat
    /\ 0 \in 0..MaxMsg /\ 0 \notin Msgs
BY ConstantsAssumption DEF Msgs

LEMMA MaxIn ==
    ASSUME NEW S \in SUBSET Msgs, S # {}
    PROVE  Max(S) \in S /\ \A y \in S : y <= Max(S)
<1>1. S \in SUBSET (0..MaxMsg) /\ MaxMsg \in Nat
  BY MsgsNumbers, ConstantsAssumption
<1> QED BY <1>1, MaxDef

LEMMA MinIn ==
    ASSUME NEW S \in SUBSET Msgs, S # {}
    PROVE  Min(S) \in S /\ \A y \in S : Min(S) <= y
<1>1. S \in SUBSET Nat
  BY MsgsNumbers
<1> QED BY <1>1, MinDef

LEMMA FinitePart ==
    ASSUME NEW S \in SUBSET Msgs
    PROVE  IsFiniteSet(S)
<1>1. IsFiniteSet(0..MaxMsg)
  <2>1. 0 \in Int /\ MaxMsg \in Int
    BY ConstantsAssumption
  <2> QED BY <2>1, FS_Interval
<1>2. S \subseteq 0..MaxMsg
  BY MsgsNumbers
<1> QED BY <1>1, <1>2, FS_Subset

LEMMA OldestIsPrefix ==
    ASSUME NEW S \in SUBSET Msgs, NEW n \in Nat,
           NEW b \in Oldest(S, n), NEW k \in S, k <= b
    PROVE  k \in Oldest(S, n)
<1> DEFINE A == {j \in S : j < k}
           B == {j \in S : j < b}
<1>1. A \in SUBSET B
  <2>1. b \in S
    BY DEF Oldest
  <2>2. \A j \in S : j < k => j < b
    <3> HIDE DEF A, B
    <3> QED BY <2>1, MsgsNumbers
  <2> QED BY <2>2
<1>2. IsFiniteSet(A) /\ IsFiniteSet(B)
  BY FinitePart
<1>3. Cardinality(A) <= Cardinality(B)
  BY <1>1, <1>2, FS_Subset
<1>4. Cardinality(B) < n
  BY DEF Oldest
<1>5. Cardinality(A) \in Nat /\ Cardinality(B) \in Nat
  BY <1>2, FS_CardinalityType
<1>6. Cardinality(A) < n
  BY <1>3, <1>4, <1>5
<1> QED BY <1>6 DEF Oldest

LEMMA NewestNotEmpty ==
    ASSUME NEW S \in SUBSET Msgs, S # {}, NEW n \in Nat \ {0}
    PROVE  Newest(S, n) # {}
<1>1. Max(S) \in S /\ \A y \in S : y <= Max(S)
  BY MaxIn
<1>2. {k \in S : Max(S) < k} = {}
  <2>1. \A k \in S : ~(Max(S) < k)
    <3> TAKE k \in S
    <3>1. k \in Nat /\ Max(S) \in Nat
      BY <1>1, MsgsNumbers
    <3>2. k <= Max(S)
      BY <1>1
    <3> QED BY <3>1, <3>2
  <2> QED BY <2>1
<1>3. Cardinality({k \in S : Max(S) < k}) = 0
  BY <1>2, FS_EmptySet
<1> QED BY <1>1, <1>3 DEF Newest

-----------------------------------------------------------------------------
(* Which steps touch which part of the state.                                *)

BusSteps ==
    \/ Senders \/ Owner
    \/ \E ok \in BOOLEAN : RecordFailure(ok)

CursorSteps ==
    \/ SkipUnaddressed \/ RateLimited \/ AckTrigger \/ RouteAckChatter
    \/ \E ok \in BOOLEAN : AckConsumed(ok)

RunSteps ==
    \/ BindRun \/ RouteAppend \/ Crash
    \/ \E o \in Outcomes : EndRun(o)
    \/ \E ok \in BOOLEAN :
         TakeSteered(ok) \/ MarkConsumed(ok) \/ AckConsumed(ok) \/ DiscardOrphans(ok)

GhostSteps ==
    \/ \E m \in Msgs : InsertMessage(m)
    \/ RateLimited \/ RenderPrompt \/ AckTrigger \/ RouteAppend
    \/ \E ok \in BOOLEAN : TakeSteered(ok) \/ DiscardOrphans(ok) \/ RecordFailure(ok)

LEMMA HookFrame ==
    Hook => UNCHANGED <<busVars, cursor, fails, rows, turnVars, flightVars, runVars,
                        routeVars, gateVars, boundVars, ghostVars>>
BY DEF Hook, AfterTurnReads, AfterTurnMarks, ackVars

LEMMA BusFrame == Next => BusSteps \/ UNCHANGED <<busVars, fails>>
<1> USE DEF ackVars
<1>1. Gates => UNCHANGED <<busVars, fails>>
  BY DEF Gates, BreakerTrips, BreakerCloses, RateWindowSlides
<1>2. Turn => BusSteps \/ UNCHANGED <<busVars, fails>>
  BY DEF Turn, BusSteps, BreakerGate, FetchBatch, SkipUnaddressed, RateLimited,
         ProbeRefused, StartTurn, RenderPrompt, BindRun, TakeSteered, MarkConsumed,
         AckConsumed, EndRun, DiscardOrphans, AckTrigger, AckRoomSeen,
         EpilogueRaises, CheckUnread, Deliver, LaneError
<1>3. Poll => UNCHANGED <<busVars, fails>>
  BY DEF Poll, PollQuery, Dispatch, RouteStart, RouteFetch, RouteRecheck,
         RouteAppend, RouteAckChatter, RouteFails
<1>4. Crash => UNCHANGED <<busVars, fails>>
  BY DEF Crash
<1> QED BY <1>1, <1>2, <1>3, <1>4, HookFrame DEF Next, BusSteps

LEMMA CursorFrame == Next => CursorSteps \/ UNCHANGED cursor
<1> USE DEF ackVars
<1>1. Senders \/ Owner \/ Gates => UNCHANGED cursor
  BY DEF Senders, StampMessage, InsertMessage, Owner, StopTree, RetryFailure,
         Gates, BreakerTrips, BreakerCloses, RateWindowSlides
<1>2. Turn => CursorSteps \/ UNCHANGED cursor
  BY DEF Turn, CursorSteps, BreakerGate, FetchBatch, ProbeRefused, StartTurn,
         RenderPrompt, BindRun, TakeSteered, MarkConsumed, EndRun, DiscardOrphans,
         AckRoomSeen, RecordFailure, EpilogueRaises, CheckUnread, Deliver, LaneError
<1>3. Poll => CursorSteps \/ UNCHANGED cursor
  BY DEF Poll, CursorSteps, PollQuery, Dispatch, RouteStart, RouteFetch,
         RouteRecheck, RouteAppend, RouteFails
<1>4. Crash => UNCHANGED cursor
  BY DEF Crash
<1> QED BY <1>1, <1>2, <1>3, <1>4, HookFrame DEF Next

LEMMA ReadCursorFrame ==
    Next => (\E ok \in BOOLEAN : AckRoomSeen(ok)) \/ AfterTurnMarks \/ UNCHANGED readCursor
<1> USE DEF ackVars
<1>1. Senders \/ Owner \/ Gates => UNCHANGED readCursor
  BY DEF Senders, StampMessage, InsertMessage, Owner, StopTree, RetryFailure,
         Gates, BreakerTrips, BreakerCloses, RateWindowSlides
<1>2. Turn => (\E ok \in BOOLEAN : AckRoomSeen(ok)) \/ UNCHANGED readCursor
  BY DEF Turn, BreakerGate, FetchBatch, SkipUnaddressed, RateLimited,
         ProbeRefused, StartTurn, RenderPrompt, BindRun, TakeSteered, MarkConsumed,
         AckConsumed, EndRun, DiscardOrphans, AckTrigger,
         RecordFailure, EpilogueRaises, CheckUnread, Deliver, LaneError
<1>3. Poll => UNCHANGED readCursor
  BY DEF Poll, PollQuery, Dispatch, RouteStart, RouteFetch,
         RouteRecheck, RouteAppend, RouteAckChatter, RouteFails
<1>4. Crash => UNCHANGED readCursor
  BY DEF Crash
<1>5. Hook => AfterTurnMarks \/ UNCHANGED readCursor
  BY DEF Hook, AfterTurnReads
<1> QED BY <1>1, <1>2, <1>3, <1>4, <1>5 DEF Next

LEMMA RunFrame == Next => RunSteps \/ UNCHANGED <<runVars, rows>>
<1>1. Senders \/ Owner \/ Gates => UNCHANGED <<runVars, rows>>
  BY DEF Senders, StampMessage, InsertMessage, Owner, StopTree, RetryFailure,
         Gates, BreakerTrips, BreakerCloses, RateWindowSlides
<1>2. Turn => RunSteps \/ UNCHANGED <<runVars, rows>>
  BY DEF Turn, RunSteps, BreakerGate, FetchBatch, SkipUnaddressed, RateLimited,
         ProbeRefused, StartTurn, RenderPrompt, AckTrigger, AckRoomSeen,
         RecordFailure, EpilogueRaises, CheckUnread, Deliver, LaneError
<1>3. Poll => RunSteps \/ UNCHANGED <<runVars, rows>>
  BY DEF Poll, RunSteps, PollQuery, Dispatch, RouteStart, RouteFetch,
         RouteRecheck, RouteAckChatter, RouteFails
<1> QED BY <1>1, <1>2, <1>3, HookFrame DEF Next, RunSteps

LEMMA HookVarsFrame == Next => Hook \/ UNCHANGED hookVars
<1>1. Senders \/ Owner \/ Gates => UNCHANGED hookVars
  BY DEF Senders, StampMessage, InsertMessage, Owner, StopTree, RetryFailure,
         Gates, BreakerTrips, BreakerCloses, RateWindowSlides
<1>2. Turn => UNCHANGED hookVars
  BY DEF Turn, BreakerGate, FetchBatch, SkipUnaddressed, RateLimited,
         ProbeRefused, StartTurn, RenderPrompt, BindRun, TakeSteered, MarkConsumed,
         AckConsumed, EndRun, DiscardOrphans, AckTrigger, AckRoomSeen,
         RecordFailure, EpilogueRaises, CheckUnread, Deliver, LaneError
<1>3. Poll \/ Crash => UNCHANGED hookVars
  BY DEF Poll, PollQuery, Dispatch, RouteStart, RouteFetch, RouteRecheck,
         RouteAppend, RouteAckChatter, RouteFails, Crash
<1> QED BY <1>1, <1>2, <1>3 DEF Next

LEMMA PushedFrame == Next => RouteAppend \/ BindRun \/ Crash \/ UNCHANGED pushed
BY RunFrame DEF RunSteps, EndRun, TakeSteered, MarkConsumed, AckConsumed,
   DiscardOrphans, runVars

LEMMA TurnKeepsRoute == Turn => UNCHANGED routeVars
BY DEF Turn, BreakerGate, FetchBatch, SkipUnaddressed, RateLimited,
         ProbeRefused, StartTurn, RenderPrompt, BindRun, TakeSteered, MarkConsumed,
         AckConsumed, EndRun, DiscardOrphans, AckTrigger, AckRoomSeen,
         RecordFailure, EpilogueRaises, CheckUnread, Deliver, LaneError

LEMMA RouteFrame == Next => Poll \/ Crash \/ UNCHANGED routeVars
<1>1. Senders \/ Owner \/ Gates => UNCHANGED routeVars
  BY DEF Senders, StampMessage, InsertMessage, Owner, StopTree, RetryFailure,
         Gates, BreakerTrips, BreakerCloses, RateWindowSlides
<1> QED BY <1>1, TurnKeepsRoute, HookFrame DEF Next

LEMMA TurnFrame ==
    Next => Turn \/ Dispatch \/ RouteRecheck \/ Crash \/ UNCHANGED <<turnVars, flightVars>>
<1>1. Senders \/ Owner \/ Gates => UNCHANGED <<turnVars, flightVars>>
  BY DEF Senders, StampMessage, InsertMessage, Owner, StopTree, RetryFailure,
         Gates, BreakerTrips, BreakerCloses, RateWindowSlides
<1>2. Poll => Dispatch \/ RouteRecheck \/ UNCHANGED <<turnVars, flightVars>>
  BY DEF Poll, PollQuery, RouteStart, RouteFetch, RouteAppend, RouteAckChatter,
         RouteFails
<1> QED BY <1>1, <1>2, HookFrame DEF Next

LEMMA GhostFrame == Next => GhostSteps \/ UNCHANGED ghostVars
<1>1. Senders \/ Owner \/ Gates => GhostSteps \/ UNCHANGED ghostVars
  BY DEF Senders, StampMessage, Owner, StopTree, RetryFailure, GhostSteps,
         Gates, BreakerTrips, BreakerCloses, RateWindowSlides
<1>2. Turn => GhostSteps \/ UNCHANGED ghostVars
  BY DEF Turn, GhostSteps, BreakerGate, FetchBatch, SkipUnaddressed,
         ProbeRefused, StartTurn, BindRun, MarkConsumed,
         AckConsumed, EndRun, AckRoomSeen, EpilogueRaises, CheckUnread,
         Deliver, LaneError
<1>3. Poll => GhostSteps \/ UNCHANGED ghostVars
  BY DEF Poll, GhostSteps, PollQuery, Dispatch, RouteStart, RouteFetch,
         RouteRecheck, RouteAckChatter, RouteFails
<1>4. Crash => UNCHANGED ghostVars
  BY DEF Crash
<1> QED BY <1>1, <1>2, <1>3, <1>4, HookFrame DEF Next

-----------------------------------------------------------------------------
(* Type correctness.                                                         *)

LEMMA EmptyQueue == <<>> \in Seq(Msgs) /\ 0 \in 0..Len(<<>>) /\ 0 \in 0..0
OBVIOUS

LEMMA TypeInit == Init => TypeOK
<1> SUFFICES ASSUME Init PROVE TypeOK
  OBVIOUS
<1> USE MsgsNumbers DEF Init
<1>1. BusType /\ CursorType
  BY DEF BusType, CursorType
<1>2. TurnType /\ RouteType /\ CountType
  BY DEF TurnType, PCs, RouteType, CountType
<1>3. RunType /\ GhostType
  BY EmptyQueue DEF RunType, GhostType
<1>4. HookType
  BY DEF HookType
<1> QED BY <1>1, <1>2, <1>3, <1>4 DEF TypeOK

LEMMA ForwardType ==
    ASSUME NEW c \in 0..MaxMsg, NEW ts \in 0..MaxMsg
    PROVE  Forward(c, ts) \in 0..MaxMsg /\ Forward(c, ts) \in {c, ts}
BY DEF Forward

\* What the bus offers are messages.
LEMMA PendingType == TypeOK => GetPending \subseteq log /\ Pending \subseteq log
BY DEF GetPending, Oldest, Pending

LEMMA BusTypeStep == TypeOK /\ Shape /\ Next => BusType'
<1> SUFFICES ASSUME TypeOK, Shape, Next PROVE BusType'
  OBVIOUS
<1>1. CASE Senders
  <2>1. ASSUME NEW k \in Kinds, StampMessage(k) PROVE BusType'
    BY <2>1 DEF TypeOK, BusType, StampMessage, ackVars
  <2>2. ASSUME NEW m \in Msgs, InsertMessage(m) PROVE BusType'
    BY <2>2 DEF TypeOK, BusType, InsertMessage, ackVars
  <2> QED BY <1>1, <2>1, <2>2 DEF Senders
<1>2. CASE Owner
  <2>1. ASSUME NEW m \in Msgs, StopTree(m) PROVE BusType'
    BY <2>1 DEF TypeOK, BusType, StopTree, ackVars
  <2>2. ASSUME NEW m \in Msgs, RetryFailure(m) PROVE BusType'
    BY <2>2 DEF TypeOK, BusType, RetryFailure, busVars
  <2> QED BY <1>2, <2>1, <2>2 DEF Owner
<1>3. ASSUME NEW ok \in BOOLEAN, RecordFailure(ok) PROVE BusType'
  BY <1>3 DEF TypeOK, BusType, RecordFailure, CountFailure, busVars
<1>4. CASE UNCHANGED <<busVars, fails>>
  BY <1>4 DEF TypeOK, BusType, busVars
<1> QED BY <1>1, <1>2, <1>3, <1>4, BusFrame DEF BusSteps

\* Every set a cursor write takes the newest element of holds messages.
LEMMA NewestOf ==
    ASSUME TypeOK, Shape
    PROVE  /\ pc = "decide" => Max(batch) \in batch /\ Max(batch) \in Msgs
           /\ Addressed(batch) # {} =>
                Max(Addressed(batch)) \in Addressed(batch) /\ Max(Addressed(batch)) \in Msgs
           /\ BelowFloor # {} => Max(BelowFloor) \in BelowFloor /\ Max(BelowFloor) \in Msgs
           /\ pc = "acking" => Max(reporting) \in reporting /\ Max(reporting) \in Msgs
<1>1. batch \subseteq Msgs /\ Addressed(batch) \subseteq Msgs
  BY DEF TypeOK, TurnType, Addressed
<1>2. BelowFloor \subseteq Msgs
  BY DEF TypeOK, RouteType, BelowFloor, Chatter
<1>3. reporting \subseteq Msgs
  BY DEF TypeOK, RunType
<1> QED BY <1>1, <1>2, <1>3, MaxIn DEF Shape, TurnShape

LEMMA CursorTypeStep == TypeOK /\ Shape /\ Next => CursorType'
<1> SUFFICES ASSUME TypeOK, Shape, Next PROVE CursorType'
  OBVIOUS
<1> USE MsgsNumbers, NewestOf, ForwardType DEF TypeOK, CursorType
<1>1. cursor' \in 0..MaxMsg
  <2>1. CASE SkipUnaddressed
    BY <2>1 DEF SkipUnaddressed
  <2>2. CASE RateLimited
    BY <2>2 DEF RateLimited
  <2>3. CASE AckTrigger
    BY <2>3 DEF AckTrigger, TurnType
  <2>4. CASE RouteAckChatter
    BY <2>4 DEF RouteAckChatter
  <2>5. ASSUME NEW ok \in BOOLEAN, AckConsumed(ok) PROVE cursor' \in 0..MaxMsg
    BY <2>5 DEF AckConsumed
  <2>6. CASE UNCHANGED cursor
    BY <2>6
  <2> QED BY <2>1, <2>2, <2>3, <2>4, <2>5, <2>6, CursorFrame DEF CursorSteps
<1>2. readCursor' \in 0..MaxMsg
  <2>1. ASSUME NEW ok \in BOOLEAN, AckRoomSeen(ok) PROVE readCursor' \in 0..MaxMsg
    <3>1. ReadHighWater \in 0..MaxMsg
      BY DEF ReadHighWater, TurnType
    <3> QED BY <2>1, <3>1 DEF AckRoomSeen
  <2>2. CASE AfterTurnMarks
    BY <2>2 DEF AfterTurnMarks, HookType
  <2>3. CASE UNCHANGED readCursor
    BY <2>3
  <2> QED BY <2>1, <2>2, <2>3, ReadCursorFrame
<1> QED BY <1>1, <1>2

LEMMA RunTypeStep == TypeOK /\ Shape /\ Next => RunType'
<1> SUFFICES ASSUME TypeOK, Shape, Next PROVE RunType'
  OBVIOUS
<1> USE DEF TypeOK, RunType
<1>1. CASE BindRun
  BY <1>1, EmptyQueue, ConstantsAssumption DEF BindRun
<1>2. CASE RouteAppend
  <2>1. Min(rtodo) \in Msgs
    BY <1>2, MinIn DEF RouteAppend, RouteType
  <2>2. Append(pushed, Min(rtodo)) \in Seq(Msgs)
          /\ Len(Append(pushed, Min(rtodo))) = Len(pushed) + 1
    BY <2>1
  <2> QED BY <1>2, <2>1, <2>2 DEF RouteAppend
<1>3. CASE Crash
  BY <1>3, EmptyQueue DEF Crash
<1>4. ASSUME NEW o \in Outcomes, EndRun(o) PROVE RunType'
  BY <1>4 DEF EndRun
<1>5. ASSUME NEW ok \in BOOLEAN, TakeSteered(ok) PROVE RunType'
  <2>1. Len(pushed) \in Nat /\ DOMAIN pushed = 1..Len(pushed)
    OBVIOUS
  <2>2. taken + 1 \in 1..Len(pushed)
    BY <1>5, <2>1 DEF TakeSteered
  <2>3. pushed[taken + 1] \in Msgs
    BY <2>1, <2>2
  <2> QED BY <1>5, <2>1, <2>2, <2>3 DEF TakeSteered
<1>6. ASSUME NEW ok \in BOOLEAN, MarkConsumed(ok) PROVE RunType'
  <2>1. PICK j \in (acked + 1)..taken : acked' = j
          /\ \/ /\ rows' = rows \ Reported(j)
                /\ reporting' = Reported(j)
                /\ UNCHANGED consumed
             \/ /\ consumed' = consumed \cup Reported(j)
                /\ UNCHANGED <<rows, reporting>>
    BY <1>6 DEF MarkConsumed
  <2>2. Len(pushed) \in Nat /\ DOMAIN pushed = 1..Len(pushed)
    OBVIOUS
  <2>3. Reported(j) \subseteq Msgs
    BY <2>2 DEF Reported
  <2>4. UNCHANGED <<registered, pushed, taken, dropped>>
    BY <1>6 DEF MarkConsumed
  <2>5. j \in 0..taken
    BY <2>2
  <2> QED BY <2>1, <2>3, <2>4, <2>5
<1>7. ASSUME NEW ok \in BOOLEAN, AckConsumed(ok) PROVE RunType'
  BY <1>7 DEF AckConsumed
<1>8. ASSUME NEW ok \in BOOLEAN, DiscardOrphans(ok) PROVE RunType'
  BY <1>8 DEF DiscardOrphans, runVars
<1>9. CASE UNCHANGED <<runVars, rows>>
  BY <1>9 DEF runVars
<1> QED BY <1>1, <1>2, <1>3, <1>4, <1>5, <1>6, <1>7, <1>8, <1>9, RunFrame DEF RunSteps

LEMMA TurnTypeStep == TypeOK /\ Shape /\ Next => TurnType'
<1> SUFFICES ASSUME TypeOK, Shape, Next PROVE TurnType'
  OBVIOUS
<1> USE MsgsNumbers, NewestOf, ForwardType DEF TypeOK, TurnType, PCs
<1>1. LeaveLane => TurnType'
  BY DEF LeaveLane, FreshFlight
<1>2. CASE Turn
  <2>1. CASE BreakerGate
    BY <2>1, <1>1 DEF BreakerGate, flightVars
  <2>2. CASE FetchBatch
    BY <2>2, <1>1, PendingType DEF FetchBatch, flightVars, BusType
  <2>3. CASE StartTurn
    BY <2>3 DEF StartTurn
  <2>4. CASE RenderPrompt
    <3>1. Scrollback \subseteq Msgs
      BY DEF Scrollback, Newest, BusType
    <3>2. trig \in Msgs
      BY <2>4 DEF RenderPrompt, Shape, TurnShape, HasTrigger, Addressed
    <3>3. log # {}
      BY <2>4 DEF RenderPrompt, Shape, TurnShape, HasTrigger, Addressed
    <3>4. IsTeam => Scrollback # {}
      BY <3>3, NewestNotEmpty, ConstantsAssumption DEF Scrollback, BusType
    <3>5. Max({trig} \cup Scrollback) \in Msgs
      <4>1. {trig} \cup Scrollback \in SUBSET Msgs /\ {trig} \cup Scrollback # {}
        BY <3>1, <3>2
      <4>2. Max({trig} \cup Scrollback) \in {trig} \cup Scrollback
        BY <4>1, MaxIn
      <4> QED BY <4>1, <4>2
    <3>6. IsTeam => Min(Scrollback) \in Msgs
      BY <3>1, <3>4, MinIn
    <3> QED BY <2>4, <3>5, <3>6 DEF RenderPrompt
  <2>5. CASE BindRun
    BY <2>5 DEF BindRun, flightVars
  <2>6. ASSUME NEW ok \in BOOLEAN, TakeSteered(ok) PROVE TurnType'
    BY <2>6 DEF TakeSteered, turnVars, flightVars
  <2>7. ASSUME NEW ok \in BOOLEAN, MarkConsumed(ok) PROVE TurnType'
    BY <2>7 DEF MarkConsumed, flightVars
  <2>8. ASSUME NEW ok \in BOOLEAN, AckConsumed(ok) PROVE TurnType'
    BY <2>8 DEF AckConsumed
  <2>9. ASSUME NEW o \in Outcomes, EndRun(o) PROVE TurnType'
    BY <2>9 DEF EndRun, Outcomes, flightVars
  <2>10. ASSUME NEW ok \in BOOLEAN, DiscardOrphans(ok) PROVE TurnType'
    <3>1. Epilogue(outcome) \in {"settle", "record"}
      BY <2>10 DEF DiscardOrphans, Shape, TurnShape, Epilogue
    <3> QED BY <2>10, <3>1 DEF DiscardOrphans, flightVars
  <2>11. CASE AckTrigger \/ CheckUnread
    BY <2>11 DEF AckTrigger, CheckUnread, flightVars
  <2>12. CASE EpilogueRaises
    BY <2>12, <1>1 DEF EpilogueRaises, flightVars
  <2>13. ASSUME NEW ok \in BOOLEAN, AckRoomSeen(ok) PROVE TurnType'
    BY <2>13 DEF AckRoomSeen, flightVars
  <2>14. ASSUME NEW ok \in BOOLEAN, RecordFailure(ok) PROVE TurnType'
    BY <2>14, <1>1 DEF RecordFailure
  <2>15. CASE SkipUnaddressed \/ RateLimited \/ ProbeRefused \/ LaneError \/ Deliver
    BY <2>15, <1>1 DEF SkipUnaddressed, RateLimited, ProbeRefused, LaneError, Deliver
  <2> QED BY <1>2, <2>1, <2>2, <2>3, <2>4, <2>5, <2>6, <2>7, <2>8, <2>9, <2>10,
             <2>11, <2>12, <2>13, <2>14, <2>15 DEF Turn
<1>3. CASE Dispatch
  BY <1>3 DEF Dispatch, FreshFlight
<1>4. CASE RouteRecheck
  BY <1>4 DEF RouteRecheck, turnVars
<1>5. CASE Crash
  BY <1>5, <1>1 DEF Crash
<1>6. CASE UNCHANGED <<turnVars, flightVars>>
  BY <1>6 DEF turnVars, flightVars
<1> QED BY <1>2, <1>3, <1>4, <1>5, <1>6, TurnFrame

LEMMA RouteTypeStep == TypeOK /\ Shape /\ Next => RouteType'
<1> SUFFICES ASSUME TypeOK, Shape, Next PROVE RouteType'
  OBVIOUS
<1> USE DEF TypeOK, RouteType
<1>1. CASE Poll
  <2>1. CASE RouteFetch
    BY <2>1, PendingType DEF RouteFetch, BusType
  <2>2. CASE PollQuery \/ Dispatch \/ RouteStart
    BY <2>2 DEF PollQuery, Dispatch, RouteStart
  <2>3. CASE RouteRecheck
    BY <2>3 DEF RouteRecheck, Addressed
  <2>4. CASE RouteAppend
    BY <2>4 DEF RouteAppend
  <2>5. CASE RouteAckChatter \/ RouteFails
    BY <2>5 DEF RouteAckChatter, RouteFails
  <2> QED BY <1>1, <2>1, <2>2, <2>3, <2>4, <2>5 DEF Poll
<1>2. CASE Crash
  BY <1>2 DEF Crash
<1>3. CASE UNCHANGED routeVars
  BY <1>3 DEF routeVars
<1> QED BY <1>1, <1>2, <1>3, RouteFrame

LEMMA GhostTypeStep == TypeOK /\ Shape /\ Next => GhostType'
<1> SUFFICES ASSUME TypeOK, Shape, Next PROVE GhostType'
  OBVIOUS
<1> USE DEF TypeOK, GhostType
<1>1. ASSUME NEW m \in Msgs, InsertMessage(m) PROVE GhostType'
  BY <1>1 DEF InsertMessage
<1>2. CASE RateLimited
  BY <1>2 DEF RateLimited, Addressed, TurnType
<1>3. CASE RenderPrompt
  <2>1. Quoted \subseteq Msgs /\ Scrollback \subseteq Msgs
    BY DEF Quoted, Addressed, TurnType, BusType, Scrollback, Newest
  <2>2. trig \in Msgs
    BY <1>3 DEF RenderPrompt, Shape, TurnShape, HasTrigger, Addressed, TurnType
  <2>3. Addressed(Pending) \subseteq Msgs
    BY PendingType DEF Addressed, BusType
  <2> QED BY <1>3, <2>1, <2>2, <2>3 DEF RenderPrompt
<1>4. CASE AckTrigger
  BY <1>4 DEF AckTrigger, TurnType
<1>5. CASE RouteAppend
  BY <1>5 DEF RouteAppend, RouteType
<1>6. ASSUME NEW ok \in BOOLEAN, TakeSteered(ok) PROVE GhostType'
  <2>1. Len(pushed) \in Nat /\ DOMAIN pushed = 1..Len(pushed)
    BY DEF RunType
  <2>2. taken + 1 \in 1..Len(pushed)
    BY <1>6, <2>1 DEF TakeSteered, RunType
  <2>3. pushed[taken + 1] \in Msgs
    BY <2>1, <2>2 DEF RunType
  <2> QED BY <1>6, <2>3 DEF TakeSteered
<1>7. ASSUME NEW ok \in BOOLEAN, DiscardOrphans(ok) PROVE GhostType'
  BY <1>7 DEF DiscardOrphans
<1>8. ASSUME NEW ok \in BOOLEAN, RecordFailure(ok) PROVE GhostType'
  <2>1. trig \in Msgs
    BY <1>8 DEF RecordFailure, Shape, TurnShape, HasTrigger, Addressed, TurnType
  <2> QED BY <1>8, <2>1 DEF RecordFailure
<1>9. CASE UNCHANGED ghostVars
  BY <1>9 DEF ghostVars
<1> QED BY <1>1, <1>2, <1>3, <1>4, <1>5, <1>6, <1>7, <1>8, <1>9, GhostFrame DEF GhostSteps

LEMMA CountTypeStep == TypeOK /\ Next => CountType'
<1> SUFFICES ASSUME CountType, Next PROVE CountType'
  BY DEF TypeOK
<1> USE DEF CountType, boundVars, gateVars
<1>1. CASE Senders \/ Owner
  BY <1>1 DEF Senders, StampMessage, InsertMessage, Owner, StopTree, RetryFailure
<1>2. CASE Gates
  BY <1>2 DEF Gates, BreakerTrips, BreakerCloses, RateWindowSlides
<1>3. CASE Turn
  BY <1>3 DEF Turn, BreakerGate, FetchBatch, SkipUnaddressed, RateLimited,
         ProbeRefused, StartTurn, RenderPrompt, BindRun, TakeSteered, MarkConsumed,
         AckConsumed, EndRun, DiscardOrphans, AckTrigger, AckRoomSeen,
         RecordFailure, EpilogueRaises, CheckUnread, Deliver, LaneError
<1>4. CASE Poll \/ Crash
  BY <1>4 DEF Poll, PollQuery, Dispatch, RouteStart, RouteFetch, RouteRecheck,
         RouteAppend, RouteAckChatter, RouteFails, Crash
<1> QED BY <1>1, <1>2, <1>3, <1>4, HookFrame DEF Next

LEMMA HookTypeStep == TypeOK /\ Next => HookType'
<1> SUFFICES ASSUME TypeOK, Next PROVE HookType'
  OBVIOUS
<1> USE DEF HookType
<1>1. CASE AfterTurnReads
  <2>1. Unread \in SUBSET Msgs /\ Unread # {}
    BY <1>1 DEF AfterTurnReads, Unread, TypeOK, BusType
  <2>2. Max(Unread) \in 0..MaxMsg
    BY <2>1, MaxIn, MsgsNumbers
  <2> QED BY <1>1, <2>2 DEF AfterTurnReads, TypeOK
<1>2. CASE AfterTurnMarks
  BY <1>2, MsgsNumbers DEF AfterTurnMarks, TypeOK
<1>3. CASE UNCHANGED hookVars
  BY <1>3 DEF hookVars, TypeOK
<1> QED BY <1>1, <1>2, <1>3, HookVarsFrame DEF Hook

LEMMA TypeStep == TypeOK /\ Shape /\ Next => TypeOK'
BY BusTypeStep, CursorTypeStep, TurnTypeStep, RunTypeStep, RouteTypeStep,
   CountTypeStep, GhostTypeStep, HookTypeStep DEF TypeOK

-----------------------------------------------------------------------------
(* What a step keeps.  Reasons to account for a message are never taken      *)
(* back, and a row that lands below another one is late: so what has been    *)
(* settled up to a row of the log stays settled.                             *)

LEMMA AccountedGrows == Next => Accounted \subseteq Accounted'
<1> SUFFICES ASSUME Next PROVE Accounted \subseteq Accounted'
  OBVIOUS
<1>1. stopped \subseteq stopped'
  <2>1. CASE Senders
    BY <2>1 DEF Senders, StampMessage, InsertMessage
  <2>2. CASE Owner
    BY <2>2 DEF Owner, StopTree, RetryFailure, busVars
  <2>3. ASSUME NEW ok \in BOOLEAN, RecordFailure(ok) PROVE stopped \subseteq stopped'
    BY <2>3 DEF RecordFailure, busVars
  <2> QED BY <2>1, <2>2, <2>3, BusFrame DEF BusSteps, busVars
<1>2. /\ shown \subseteq shown' /\ rateDropped \subseteq rateDropped'
      /\ parked \subseteq parked' /\ late \subseteq late' /\ hidden \subseteq hidden'
      /\ unquoted \subseteq unquoted' /\ undelivered \subseteq undelivered' /\ overflow \subseteq overflow'
  BY GhostFrame DEF GhostSteps, ghostVars, InsertMessage, RateLimited, RenderPrompt,
     AckTrigger, RouteAppend, TakeSteered, DiscardOrphans, RecordFailure
<1> QED BY <1>1, <1>2 DEF Accounted

\* Rows stay, keep their kind, and a new row is the newest one or is late.
LEMMA LogGrows ==
    ASSUME TypeOK, Shape, Next
    PROVE  /\ log \subseteq log'
           /\ \A k \in log : kind'[k] = kind[k]
           /\ \A k \in log' \ log : k \in Accounted' \/ \A j \in log : j < k
<1>1. ASSUME NEW k \in Kinds, StampMessage(k)
      PROVE  log' = log /\ \A m \in log : kind'[m] = kind[m]
  BY <1>1 DEF StampMessage, TypeOK, BusType, Shape, LogShape
<1>2. ASSUME NEW m \in Msgs, InsertMessage(m)
      PROVE  /\ log' = log \cup {m} /\ kind' = kind
             /\ m \in log \/ m \in Accounted' \/ \A j \in log : j < m
  <2>1. log \subseteq Nat /\ m \in Nat
    BY MsgsNumbers DEF TypeOK, BusType
  <2>2. ASSUME m \notin log, \E j \in log : ~(j < m) PROVE m \in late'
    <3>1. PICK j \in log : ~(j < m)
      BY <2>2
    <3>2. m < j
      BY <2>1, <2>2, <3>1
    <3> QED BY <1>2, <3>2 DEF InsertMessage
  <2> QED BY <1>2, <2>2 DEF InsertMessage, Accounted
<1>3. Owner => log' = log /\ kind' = kind
  BY DEF Owner, StopTree, RetryFailure, busVars
<1>4. ASSUME NEW ok \in BOOLEAN, RecordFailure(ok) PROVE log' = log /\ kind' = kind
  BY <1>4 DEF RecordFailure, busVars
<1>5. CASE UNCHANGED busVars
  BY <1>5 DEF busVars
<1> QED BY <1>1, <1>2, <1>3, <1>4, <1>5, BusFrame DEF BusSteps, Senders

LEMMA SettledKept ==
    ASSUME TypeOK, Shape, Next, NEW ts \in Nat, NEW S,
           ts = 0 \/ \E j \in log : ts <= j,
           \A k \in log : kind[k] = "addressed" /\ k <= ts => k \in Accounted \cup S
    PROVE  \A k \in log' : kind'[k] = "addressed" /\ k <= ts => k \in Accounted' \cup S
<1> SUFFICES ASSUME NEW k \in log', kind'[k] = "addressed", k <= ts
             PROVE  k \in Accounted' \cup S
  OBVIOUS
<1>1. CASE k \in log
  BY <1>1, LogGrows, AccountedGrows
<1>2. CASE k \notin log
  <2>1. k \in Nat /\ k # 0 /\ log \subseteq Nat
    BY TypeStep, MsgsNumbers DEF TypeOK, BusType
  <2>2. PICK j \in log : ts <= j
    BY <2>1
  <2>3. ~(j < k)
    BY <2>1, <2>2
  <2> QED BY <1>2, <2>3, LogGrows
<1> QED BY <1>1, <1>2

-----------------------------------------------------------------------------
(* Shape and exclusion.                                                      *)

LEMMA LogShapeStep == IInv /\ Next => LogShape'
<1> SUFFICES ASSUME IInv, Next PROVE LogShape'
  OBVIOUS
<1> USE DEF IInv, Shape, LogShape
<1>1. \A m \in log' \cup writing' : kind'[m] # "none"
  <2>1. ASSUME NEW k \in Kinds, StampMessage(k)
        PROVE  \A m \in log' \cup writing' : kind'[m] # "none"
    <3>1. k # "none"
      BY ConstantsAssumption
    <3> QED BY <2>1, <3>1 DEF StampMessage, TypeOK, BusType
  <2>2. ASSUME NEW m \in Msgs, InsertMessage(m)
        PROVE  \A j \in log' \cup writing' : kind'[j] # "none"
    BY <2>2 DEF InsertMessage
  <2>3. Owner => UNCHANGED <<log, writing, kind>>
    BY DEF Owner, StopTree, RetryFailure, busVars
  <2>4. ASSUME NEW ok \in BOOLEAN, RecordFailure(ok) PROVE UNCHANGED <<log, writing, kind>>
    BY <2>4 DEF RecordFailure, busVars
  <2> QED BY <2>1, <2>2, <2>3, <2>4, BusFrame DEF BusSteps, Senders, busVars
<1>2. cursor' \in log \cup {0}
  <2> USE NewestOf DEF Forward
  <2>1. CASE SkipUnaddressed
    BY <2>1 DEF SkipUnaddressed, TurnShape
  <2>2. CASE RateLimited
    BY <2>2 DEF RateLimited, TurnShape, Addressed
  <2>3. CASE AckTrigger
    BY <2>3 DEF AckTrigger, TurnShape, HasTrigger, Addressed
  <2>4. CASE RouteAckChatter
    BY <2>4 DEF RouteAckChatter, BelowFloor, Chatter, RouteShape
  <2>5. ASSUME NEW ok \in BOOLEAN, AckConsumed(ok) PROVE cursor' \in log \cup {0}
    <3>1. Max(reporting) \in reporting
      BY <2>5 DEF AckConsumed
    <3>2. PICK i \in 1..acked : Max(reporting) = pushed[i]
      BY <3>1 DEF PushedInv
    <3>3. i \in DOMAIN pushed
      BY DEF TypeOK, RunType
    <3>4. Max(reporting) \in log
      BY <3>2, <3>3 DEF RouteShape
    <3> QED BY <2>5, <3>4 DEF AckConsumed
  <2> QED BY <2>1, <2>2, <2>3, <2>4, <2>5, CursorFrame DEF CursorSteps
<1>3. log \subseteq log'
  BY LogGrows
<1> QED BY <1>1, <1>2, <1>3

LEMMA TurnShapeStep == IInv /\ Next => TurnShape'
<1> SUFFICES ASSUME IInv, Next PROVE TurnShape'
  OBVIOUS
<1> USE DEF IInv, Shape, TurnShape, HasTrigger, InFlight, Addressed
<1>1. log \subseteq log' /\ \A k \in log : kind'[k] = kind[k]
  BY LogGrows
<1>2. LeaveLane => TurnShape'
  BY DEF LeaveLane, FreshFlight
<1>3. CASE Turn
  <2>1. CASE BreakerGate
    BY <2>1, <1>1, <1>2 DEF BreakerGate, flightVars
  <2>2. CASE FetchBatch
    BY <2>2, <1>1, <1>2, PendingType DEF FetchBatch, flightVars
  <2>3. CASE StartTurn
    <3>1. Max(Addressed(batch)) \in Addressed(batch) /\ Max(Addressed(batch)) \in Nat
      BY <2>3, NewestOf, MsgsNumbers DEF StartTurn
    <3> QED BY <2>3, <3>1, <1>1 DEF StartTurn
  <2>4. CASE RenderPrompt
    <3>1. {trig} \cup Scrollback \in SUBSET Msgs /\ {trig} \cup Scrollback \subseteq log
      BY <2>4 DEF RenderPrompt, Scrollback, Newest, TypeOK, BusType
    <3>2. /\ Max({trig} \cup Scrollback) \in {trig} \cup Scrollback
          /\ trig <= Max({trig} \cup Scrollback)
      BY <3>1, MaxIn
    <3> QED BY <2>4, <3>1, <3>2, <1>1 DEF RenderPrompt
  <2>5. CASE BindRun
    BY <2>5, <1>1 DEF BindRun, flightVars
  <2>6. ASSUME NEW ok \in BOOLEAN, TakeSteered(ok) PROVE TurnShape'
    BY <2>6, <1>1 DEF TakeSteered, turnVars, flightVars
  <2>7. ASSUME NEW ok \in BOOLEAN, MarkConsumed(ok) PROVE TurnShape'
    BY <2>7, <1>1 DEF MarkConsumed, flightVars
  <2>8. ASSUME NEW ok \in BOOLEAN, AckConsumed(ok) PROVE TurnShape'
    BY <2>8, <1>1 DEF AckConsumed
  <2>9. ASSUME NEW o \in Outcomes, EndRun(o) PROVE TurnShape'
    BY <2>9, <1>1 DEF EndRun, Outcomes, flightVars
  <2>10. ASSUME NEW ok \in BOOLEAN, DiscardOrphans(ok) PROVE TurnShape'
    <3>1. Epilogue(outcome) \in {"settle", "record"}
      BY DEF Epilogue
    <3> QED BY <2>10, <3>1, <1>1 DEF DiscardOrphans, flightVars
  <2>11. CASE AckTrigger \/ CheckUnread
    BY <2>11, <1>1 DEF AckTrigger, CheckUnread, flightVars
  <2>12. CASE EpilogueRaises
    BY <2>12, <1>1, <1>2 DEF EpilogueRaises, flightVars
  <2>13. ASSUME NEW ok \in BOOLEAN, AckRoomSeen(ok) PROVE TurnShape'
    BY <2>13, <1>1 DEF AckRoomSeen, flightVars
  <2>14. ASSUME NEW ok \in BOOLEAN, RecordFailure(ok) PROVE TurnShape'
    BY <2>14, <1>2 DEF RecordFailure
  <2>15. CASE SkipUnaddressed \/ RateLimited \/ ProbeRefused \/ LaneError \/ Deliver
    BY <2>15, <1>2 DEF SkipUnaddressed, RateLimited, ProbeRefused, LaneError, Deliver
  <2> QED BY <1>3, <2>1, <2>2, <2>3, <2>4, <2>5, <2>6, <2>7, <2>8, <2>9, <2>10,
             <2>11, <2>12, <2>13, <2>14, <2>15 DEF Turn
<1>4. CASE Dispatch
  BY <1>4 DEF Dispatch, FreshFlight
<1>5. CASE RouteRecheck
  BY <1>5, <1>1 DEF RouteRecheck, turnVars, runVars
<1>6. CASE Crash
  BY <1>6, <1>2 DEF Crash
<1>7. CASE UNCHANGED <<turnVars, flightVars>> /\ UNCHANGED reporting
  BY <1>7, <1>1 DEF turnVars, flightVars
<1>8. UNCHANGED reporting \/ Turn \/ Crash
  <2>1. RouteAppend => UNCHANGED reporting
    BY DEF RouteAppend
  <2> QED BY <2>1, RunFrame DEF RunSteps, Turn, runVars
<1> QED BY <1>3, <1>4, <1>5, <1>6, <1>7, <1>8, TurnFrame

LEMMA RouteShapeStep == IInv /\ Next => RouteShape'
<1> SUFFICES ASSUME IInv, Next PROVE RouteShape'
  OBVIOUS
<1> USE DEF IInv, Shape, RouteShape, Addressed
<1>1. log \subseteq log' /\ \A k \in log : kind'[k] = kind[k]
  BY LogGrows
<1>2. /\ rmsgs' \subseteq log' /\ rtodo' \subseteq Addressed(rmsgs)'
      /\ rpc' # "append" => rtodo' = {}
  <2>1. CASE Poll
    <3>1. CASE RouteFetch
      BY <3>1, <1>1, PendingType DEF RouteFetch
    <3>2. CASE PollQuery \/ Dispatch \/ RouteStart
      BY <3>2, <1>1 DEF PollQuery, Dispatch, RouteStart
    <3>3. CASE RouteRecheck
      BY <3>3, <1>1 DEF RouteRecheck
    <3>4. CASE RouteAppend
      BY <3>4, <1>1 DEF RouteAppend
    <3>5. CASE RouteAckChatter \/ RouteFails
      BY <3>5, <1>1 DEF RouteAckChatter, RouteFails
    <3> QED BY <2>1, <3>1, <3>2, <3>3, <3>4, <3>5 DEF Poll
  <2>2. CASE Crash
    BY <2>2 DEF Crash
  <2>3. CASE UNCHANGED routeVars
    BY <2>3, <1>1 DEF routeVars
  <2> QED BY <2>1, <2>2, <2>3, RouteFrame
<1>3. \A i \in DOMAIN pushed' : pushed'[i] \in log'
  <2>1. CASE RouteAppend
    <3>1. Min(rtodo) \in rtodo
      BY <2>1, MinIn DEF RouteAppend, TypeOK, RouteType
    <3>2. Min(rtodo) \in log
      BY <3>1
    <3>3. CASE pushed' = Append(pushed, Min(rtodo))
      <4> SUFFICES ASSUME NEW i \in DOMAIN pushed' PROVE pushed'[i] \in log'
        OBVIOUS
      <4>1. pushed \in Seq(Msgs) /\ Min(rtodo) \in Msgs
        BY <3>1 DEF TypeOK, RunType, RouteType
      <4>2. \/ i \in DOMAIN pushed /\ pushed'[i] = pushed[i]
            \/ pushed'[i] = Min(rtodo)
        BY <3>3, <4>1
      <4> QED BY <4>2, <3>2, <1>1
    <3>4. CASE UNCHANGED pushed
      BY <3>4, <1>1
    <3> QED BY <2>1, <3>3, <3>4 DEF RouteAppend
  <2>2. CASE BindRun \/ Crash
    BY <2>2 DEF BindRun, Crash
  <2>3. CASE UNCHANGED pushed
    BY <2>3, <1>1
  <2> QED BY <2>1, <2>2, <2>3, PushedFrame
<1> QED BY <1>2, <1>3

LEMMA ExclusionStep == IInv /\ Next => Exclusion'
<1> SUFFICES ASSUME IInv, Next PROVE Exclusion'
  OBVIOUS
<1> USE DEF IInv, Exclusion, Routing, Preparing, InFlight
<1>1. CASE Turn
  <2>1. UNCHANGED routeVars /\ (Preparing' => Preparing)
    BY <1>1, TurnKeepsRoute DEF Turn, BreakerGate, FetchBatch, SkipUnaddressed, RateLimited,
       ProbeRefused, StartTurn, RenderPrompt, BindRun, TakeSteered, MarkConsumed,
       AckConsumed, EndRun, DiscardOrphans, AckTrigger, AckRoomSeen, Epilogue,
       RecordFailure, EpilogueRaises, CheckUnread, Deliver, LaneError, LeaveLane, turnVars
  <2>2. registered' => pc' \in {"running", "acking"}
    BY <1>1 DEF Turn, BreakerGate, FetchBatch, SkipUnaddressed, RateLimited,
       ProbeRefused, StartTurn, RenderPrompt, BindRun, TakeSteered, MarkConsumed,
       AckConsumed, EndRun, DiscardOrphans, AckTrigger, AckRoomSeen,
       RecordFailure, EpilogueRaises, CheckUnread, Deliver, LaneError, runVars, turnVars
  <2> QED BY <2>1, <2>2 DEF routeVars
<1>2. CASE Poll
  <2>1. CASE Dispatch
    BY <2>1 DEF Dispatch, runVars
  <2>2. CASE RouteStart
    BY <2>2 DEF RouteStart, LiveRun, runVars, turnVars
  <2>3. CASE PollQuery \/ RouteFetch \/ RouteRecheck \/ RouteAppend \/ RouteAckChatter
               \/ RouteFails
    BY <2>3 DEF PollQuery, RouteFetch, RouteRecheck, RouteAppend, RouteAckChatter,
       RouteFails, runVars, turnVars
  <2> QED BY <1>2, <2>1, <2>2, <2>3 DEF Poll
<1>3. CASE Crash
  BY <1>3 DEF Crash, LeaveLane
<1>4. CASE Senders \/ Owner \/ Gates
  BY <1>4 DEF Senders, StampMessage, InsertMessage, Owner, StopTree, RetryFailure,
     Gates, BreakerTrips, BreakerCloses, RateWindowSlides, runVars, turnVars, routeVars
<1>5. CASE Hook
  BY <1>5, HookFrame DEF runVars, turnVars, routeVars
<1> QED BY <1>1, <1>2, <1>3, <1>4, <1>5 DEF Next

LEMMA ParkedStep == IInv /\ Next => ParkedInv'
<1> SUFFICES ASSUME IInv, Next PROVE ParkedInv'
  OBVIOUS
<1> USE DEF IInv, ParkedInv, Poisoned
<1>1. parked \subseteq parked'
  BY GhostFrame DEF GhostSteps, ghostVars, InsertMessage, RateLimited, RenderPrompt,
     AckTrigger, RouteAppend, TakeSteered, DiscardOrphans, RecordFailure
<1>2. CASE Senders
  BY <1>1, <1>2 DEF Senders, StampMessage, InsertMessage, ackVars
<1>3. ASSUME NEW m \in Msgs, StopTree(m) PROVE ParkedInv'
  BY <1>1, <1>3 DEF StopTree, ackVars
<1>4. ASSUME NEW m \in Msgs, RetryFailure(m) PROVE ParkedInv'
  <2>1. ~(0 >= PoisonThreshold)
    BY ConstantsAssumption
  <2> QED BY <1>1, <1>4, <2>1 DEF RetryFailure, TypeOK, BusType
<1>5. ASSUME NEW ok \in BOOLEAN, RecordFailure(ok) PROVE ParkedInv'
  BY <1>1, <1>5 DEF RecordFailure, CountFailure, TypeOK, BusType
<1>6. CASE UNCHANGED fails
  BY <1>1, <1>6
<1> QED BY <1>2, <1>3, <1>4, <1>5, <1>6, BusFrame DEF BusSteps, Owner

-----------------------------------------------------------------------------
(* The promises of each process.                                             *)

\* What the bus offers is complete up to each of its messages: the LIMIT keeps
\* the oldest, and the rest is processed, stopped or parked.
LEMMA PendingComplete ==
    ASSUME IInv, NEW b \in GetPending, NEW k \in log, kind[k] = "addressed", k <= b
    PROVE  k \in Accounted \cup GetPending
<1> USE DEF IInv
<1>1. log \subseteq Msgs /\ log \subseteq Nat /\ cursor \in Nat
  BY MsgsNumbers DEF TypeOK, BusType, CursorType
<1>2. CASE k <= cursor
  BY <1>2 DEF NoSilentLoss, Addressed
<1>3. CASE k \in stopped
  BY <1>3 DEF Accounted
<1>4. CASE k > cursor /\ k \notin stopped
  <2>1. k \in Pending /\ Pending \in SUBSET Msgs
    BY <1>1, <1>4 DEF Pending
  <2>2. b \in Oldest(Pending, BatchLimit)
    BY DEF GetPending
  <2>3. BatchLimit \in Nat
    BY ConstantsAssumption
  <2>4. k \in Oldest(Pending, BatchLimit)
    BY <2>1, <2>2, <2>3, OldestIsPrefix
  <2>5. Poisoned(k) => k \in parked
    BY <1>1 DEF ParkedInv
  <2> QED BY <2>4, <2>5 DEF GetPending, Accounted
<1> QED BY <1>1, <1>2, <1>3, <1>4

LEMMA BatchStep == IInv /\ Next => BatchInv'
<1> SUFFICES ASSUME IInv, Next, pc' \in {"decide", "render"}, NEW b \in batch',
                    NEW k \in log', kind'[k] = "addressed", k <= b
             PROVE  k \in Accounted' \cup batch'
  BY DEF BatchInv, Settled, Addressed
<1> USE DEF IInv
<1>1. CASE FetchBatch
  <2>1. batch' = GetPending /\ log' = log /\ kind' = kind
    BY <1>1 DEF FetchBatch, LeaveLane, FreshFlight, busVars
  <2>2. k \in Accounted \cup GetPending
    BY <2>1, PendingComplete
  <2> QED BY <2>1, <2>2, AccountedGrows
<1>2. CASE pc \in {"decide", "render"} /\ UNCHANGED batch
  <2>1. b \in log /\ b \in Nat
    BY <1>2, MsgsNumbers DEF Shape, TurnShape, TypeOK, BusType
  <2>2. b <= b
    BY <2>1
  <2>3. \A j \in log : kind[j] = "addressed" /\ j <= b => j \in Accounted \cup batch
    BY <1>2 DEF BatchInv, Settled, Addressed
  <2> QED BY <1>2, <2>1, <2>2, <2>3, SettledKept DEF Shape
<1>3. FetchBatch \/ (pc \in {"decide", "render"} /\ UNCHANGED batch)
  <2>1. CASE Turn
    BY <2>1 DEF Turn, BreakerGate, SkipUnaddressed, RateLimited,
       ProbeRefused, StartTurn, RenderPrompt, BindRun, TakeSteered, MarkConsumed,
       AckConsumed, EndRun, DiscardOrphans, AckTrigger, AckRoomSeen, Epilogue,
       RecordFailure, EpilogueRaises, CheckUnread, Deliver, LaneError, LeaveLane, turnVars
  <2>2. CASE Dispatch \/ RouteRecheck \/ Crash
    BY <2>2 DEF Dispatch, RouteRecheck, Crash, LeaveLane, turnVars
  <2> QED BY <2>1, <2>2, TurnFrame DEF turnVars
<1> QED BY <1>1, <1>2, <1>3

\* The prompt leaves nothing out but `hidden'.
LEMMA PromptComplete ==
    ASSUME IInv, RenderPrompt, NEW k \in log, kind[k] = "addressed", k <= renderedThrough'
    PROVE  k \in Accounted'
<1> USE DEF IInv
<1>1. k \in Nat /\ cursor \in Nat /\ trig \in Nat
  BY MsgsNumbers DEF TypeOK, BusType, CursorType, TurnType
<1>2. Accounted \subseteq Accounted'
  BY AccountedGrows DEF Next, Turn
<1>3. CASE k <= cursor
  BY <1>2, <1>3 DEF NoSilentLoss, Addressed
<1>4. CASE k <= trig
  <2>1. trig \in batch
    BY DEF RenderPrompt, Shape, TurnShape, HasTrigger, Addressed
  <2>2. k \in Accounted \cup batch
    BY <1>4, <2>1 DEF RenderPrompt, BatchInv, Settled, Addressed
  <2>3. k \in batch => k \in Accounted'
    <3>1. trig \in shown' \cup unquoted'
      BY DEF RenderPrompt
    <3>2. k \in batch => k \in Addressed(batch)
      BY DEF Addressed
    <3>3. Addressed(batch) = {trig} \/ Addressed(batch) \subseteq shown'
      BY DEF RenderPrompt, Quoted
    <3> QED BY <3>1, <3>2, <3>3 DEF Accounted
  <2> QED BY <1>2, <2>2, <2>3
<1>5. CASE k \in stopped
  BY <1>2, <1>5 DEF Accounted
<1>6. CASE k > cursor /\ k > trig /\ k \notin stopped
  <2>1. k \in Addressed(Pending) /\ trig < k
    BY <1>1, <1>6 DEF Addressed, Pending
  <2>2. k \in shown' \/ k \in hidden'
    BY <2>1 DEF RenderPrompt
  <2> QED BY <2>2 DEF Accounted
<1> QED BY <1>1, <1>3, <1>4, <1>5, <1>6

LEMMA RenderedStep == IInv /\ Next => RenderedInv'
<1> SUFFICES ASSUME IInv, Next, Rendered' \/ Routing',
                    NEW k \in log', kind'[k] = "addressed", k <= renderedThrough'
             PROVE  k \in Accounted'
  BY DEF RenderedInv, Settled, Addressed
<1> USE DEF IInv
<1>1. CASE RenderPrompt
  <2>1. log' = log /\ kind' = kind
    BY <1>1 DEF RenderPrompt, busVars
  <2> QED BY <1>1, <2>1, PromptComplete
<1>2. CASE renderedThrough' = 0
  <2>1. k \in Nat /\ k # 0
    BY TypeStep, MsgsNumbers DEF TypeOK, BusType
  <2> QED BY <1>2, <2>1
<1>3. CASE (Rendered \/ Routing) /\ UNCHANGED renderedThrough
  <2>1. renderedThrough \in log \cup {0} /\ renderedThrough \in Nat /\ log \subseteq Nat
    BY MsgsNumbers DEF Shape, TurnShape, TypeOK, TurnType, BusType
  <2>2. renderedThrough = 0 \/ \E j \in log : renderedThrough <= j
    BY <2>1
  <2>3. \A j \in log : kind[j] = "addressed" /\ j <= renderedThrough => j \in Accounted \cup {}
    BY <1>3 DEF RenderedInv, Settled, Addressed
  <2> QED BY <1>3, <2>1, <2>2, <2>3, SettledKept DEF Shape
<1>4. \/ RenderPrompt
      \/ renderedThrough' = 0
      \/ ((Rendered \/ Routing) /\ UNCHANGED renderedThrough)
  <2> USE DEF Rendered, Routing
  <2>1. CASE Turn
    <3>1. Routing' = Routing
      BY <2>1, TurnKeepsRoute DEF routeVars
    <3>2. CASE BreakerGate \/ FetchBatch \/ SkipUnaddressed \/ RateLimited \/ ProbeRefused
                 \/ LaneError \/ Deliver \/ EpilogueRaises \/ (\E ok \in BOOLEAN : RecordFailure(ok))
      BY <3>1, <3>2 DEF BreakerGate, FetchBatch, SkipUnaddressed, RateLimited, ProbeRefused,
         LaneError, Deliver, EpilogueRaises, RecordFailure, LeaveLane, FreshFlight, flightVars
    <3>3. CASE BindRun \/ AckTrigger \/ CheckUnread
                 \/ (\E ok \in BOOLEAN : TakeSteered(ok) \/ MarkConsumed(ok) \/ AckConsumed(ok)
                                           \/ DiscardOrphans(ok) \/ AckRoomSeen(ok))
                 \/ (\E o \in Outcomes : EndRun(o))
      BY <3>1, <3>3 DEF BindRun, TakeSteered, MarkConsumed, AckConsumed, EndRun,
         DiscardOrphans, AckTrigger, AckRoomSeen, CheckUnread, turnVars, flightVars
    <3>4. ~StartTurn
      BY <3>1 DEF StartTurn, Exclusion, Preparing
    <3> QED BY <2>1, <3>2, <3>3, <3>4 DEF Turn
  <2>2. CASE Poll
    <3>1. CASE RouteStart
      BY <3>1 DEF RouteStart, LiveRun, Exclusion, turnVars, flightVars
    <3>2. CASE Dispatch
      BY <3>2 DEF Dispatch, FreshFlight
    <3>3. CASE PollQuery \/ RouteFetch \/ RouteRecheck \/ RouteAppend \/ RouteAckChatter
                 \/ RouteFails
      BY <3>3 DEF PollQuery, RouteFetch, RouteRecheck, RouteAppend, RouteAckChatter,
         RouteFails, turnVars, flightVars
    <3> QED BY <2>2, <3>1, <3>2, <3>3 DEF Poll
  <2>3. CASE Crash
    BY <2>3 DEF Crash, LeaveLane, FreshFlight
  <2>4. CASE Senders \/ Owner \/ Gates
    BY <2>4 DEF Senders, StampMessage, InsertMessage, Owner, StopTree, RetryFailure,
       Gates, BreakerTrips, BreakerCloses, RateWindowSlides, turnVars, flightVars, routeVars
  <2>5. CASE Hook
    BY <2>5, HookFrame DEF turnVars, flightVars, routeVars
  <2> QED BY <2>1, <2>2, <2>3, <2>4, <2>5 DEF Next
<1> QED BY <1>1, <1>2, <1>3, <1>4

\* What the run's transport took, and what was reported, is accounted for.
LEMMA TakenShown ==
    ASSUME IInv, NEW i \in 1..taken
    PROVE  pushed[i] \in Accounted
BY DEF IInv, PushedInv, Accounted

LEMMA ReportedTaken ==
    ASSUME IInv, NEW j \in 0..taken
    PROVE  Reported(j) \subseteq {pushed[i] : i \in 1..j}
<1>1. acked \in Nat /\ taken \in Nat /\ j \in Nat
  BY DEF IInv, TypeOK, RunType
<1>2. \A i \in (acked + 1)..j : i \in 1..j
  BY <1>1
<1> QED BY <1>2 DEF Reported

LEMMA QueueStep ==
    ASSUME IInv, Next
    PROVE  \A i \in DOMAIN pushed' : Settled(pushed[i] - 1, Before(i))'
<1> USE DEF IInv
<1>1. pushed \in Seq(Msgs) /\ \A i \in DOMAIN pushed : pushed[i] \in log /\ pushed[i] \in Nat
  <2>1. log \subseteq Nat /\ pushed \in Seq(Msgs)
    BY MsgsNumbers DEF TypeOK, BusType, RunType
  <2> QED BY <2>1 DEF Shape, RouteShape
\* An entry that was there before.
<1>2. ASSUME NEW i \in DOMAIN pushed,
             NEW k \in log', kind'[k] = "addressed", k <= pushed[i] - 1
      PROVE  k \in Accounted' \cup Before(i)
  <2>1. pushed[i] \in Nat /\ pushed[i] # 0 /\ pushed[i] \in log
    BY <1>1, MsgsNumbers DEF TypeOK, BusType
  <2>2. pushed[i] - 1 \in Nat /\ pushed[i] - 1 <= pushed[i]
    BY <2>1
  <2>3. \A j \in log : kind[j] = "addressed" /\ j <= pushed[i] - 1 => j \in Accounted \cup Before(i)
    BY DEF PushedInv, Settled, Addressed
  <2> QED BY <1>2, <2>1, <2>2, <2>3, SettledKept DEF Shape
<1>3. CASE RouteAppend /\ pushed' = Append(pushed, Min(rtodo))
  <2>1. /\ log' = log /\ kind' = kind /\ rpc = "append" /\ rtodo # {}
    BY <1>3 DEF RouteAppend, busVars
  <2>2. Min(rtodo) \in rtodo /\ \A y \in rtodo : Min(rtodo) <= y
    BY <2>1, MinIn DEF TypeOK, RouteType
  <2>3. Min(rtodo) \in rmsgs /\ Min(rtodo) \in Nat
    BY <2>2, MsgsNumbers DEF Shape, RouteShape, Addressed, TypeOK, RouteType
  <2>4. ASSUME NEW i \in DOMAIN pushed',
               NEW k \in log', kind'[k] = "addressed", k <= pushed'[i] - 1
        PROVE  k \in Accounted' \cup Before(i)'
    <3>1. CASE i \in DOMAIN pushed
      <4>1. pushed'[i] = pushed[i] /\ i \in Nat
        BY <1>1, <1>3, <3>1, <2>2 DEF TypeOK, RouteType
      <4>2. Before(i) \subseteq Before(i)'
        BY <1>1, <1>3, <2>2, <4>1 DEF Before, TypeOK, RouteType
      <4> QED BY <1>2, <2>4, <3>1, <4>1, <4>2
    <3>2. CASE i \notin DOMAIN pushed
      <4>1. i = Len(pushed) + 1 /\ pushed'[i] = Min(rtodo)
        BY <1>1, <1>3, <3>2, <2>2 DEF TypeOK, RouteType
      <4>2. k \in Nat /\ k < Min(rtodo) /\ k <= Min(rtodo)
        BY <2>1, <2>3, <2>4, <4>1, MsgsNumbers DEF TypeOK, BusType
      <4>3. k \in Accounted \cup (rtodo \cup Range(pushed))
        BY <2>1, <2>3, <2>4, <4>2 DEF RoutedInv, Settled, Addressed
      <4>4. k \notin rtodo
        BY <2>2, <2>3, <4>2
      <4>5. Range(pushed) \subseteq Before(i)'
        <5>1. \A n \in DOMAIN pushed : n \in DOMAIN pushed' /\ n < i /\ pushed'[n] = pushed[n]
          BY <1>1, <1>3, <4>1, <2>2 DEF TypeOK, RouteType
        <5> QED BY <5>1 DEF Before, Range
      <4> QED BY <4>3, <4>4, <4>5, AccountedGrows
    <3> QED BY <3>1, <3>2
  <2> QED BY <2>4 DEF Settled, Addressed
<1>4. CASE UNCHANGED pushed
  <2>1. ASSUME NEW i \in DOMAIN pushed',
               NEW k \in log', kind'[k] = "addressed", k <= pushed'[i] - 1
        PROVE  k \in Accounted' \cup Before(i)'
    <3>1. Before(i)' = Before(i)
      BY <1>4 DEF Before
    <3> QED BY <1>2, <1>4, <2>1, <3>1
  <2> QED BY <2>1 DEF Settled, Addressed
<1>5. CASE pushed' = <<>>
  <2>1. DOMAIN pushed' = {}
    BY <1>5
  <2> QED BY <2>1
<1>6. \/ RouteAppend /\ pushed' = Append(pushed, Min(rtodo))
      \/ UNCHANGED pushed \/ pushed' = <<>>
  BY PushedFrame DEF RouteAppend, BindRun, Crash
<1> QED BY <1>3, <1>4, <1>5, <1>6

LEMMA PushedStep == IInv /\ Next => PushedInv'
<1> SUFFICES ASSUME IInv, Next PROVE PushedInv'
  OBVIOUS
<1> USE DEF IInv
<1>1. /\ pushed \in Seq(Msgs) /\ Len(pushed) \in Nat /\ DOMAIN pushed = 1..Len(pushed)
      /\ taken \in 0..Len(pushed) /\ acked \in 0..taken
  BY DEF TypeOK, RunType
<1>2. shown \subseteq shown' /\ undelivered \subseteq undelivered'
  BY GhostFrame DEF GhostSteps, ghostVars, InsertMessage, RateLimited, RenderPrompt,
     AckTrigger, RouteAppend, TakeSteered, DiscardOrphans, RecordFailure
<1> DEFINE Taken    == \A i \in 1..taken : pushed[i] \in shown \cup undelivered
           Covered  == /\ reporting \subseteq {pushed[i] : i \in 1..acked}
                       /\ consumed \subseteq {pushed[i] : i \in 1..acked}
           OnQueue  == rows \subseteq Range(pushed)
<1>3. Taken' /\ Covered' /\ ((registered \/ Routing)' => OnQueue')
  <2>1. CASE BindRun \/ Crash
    BY <2>1 DEF BindRun, Crash, Routing
  <2>2. CASE RouteAppend
    <3>1. Min(rtodo) \in Msgs
      BY <2>2, MinIn DEF RouteAppend, TypeOK, RouteType
    <3>2. \A i \in 1..Len(pushed) : i \in DOMAIN pushed' /\ pushed'[i] = pushed[i]
      BY <1>1, <2>2, <3>1 DEF RouteAppend
    <3>3. UNCHANGED <<taken, acked, reporting, consumed, registered, rpc>>
      BY <2>2 DEF RouteAppend
    <3>4. Taken'
      BY <1>1, <1>2, <3>2, <3>3 DEF PushedInv
    <3>5. {pushed[i] : i \in 1..acked} \subseteq {pushed'[i] : i \in 1..acked'}
      BY <1>1, <3>2, <3>3
    <3>6. rows \subseteq Range(pushed) => OnQueue'
      <4>1. Range(pushed) \subseteq Range(pushed')
        BY <1>1, <3>2 DEF Range
      <4>2. pushed' = Append(pushed, Min(rtodo)) => Min(rtodo) \in Range(pushed')
        <5> SUFFICES ASSUME pushed' = Append(pushed, Min(rtodo))
                     PROVE  Min(rtodo) \in Range(pushed')
          OBVIOUS
        <5>1. Len(pushed) + 1 \in DOMAIN pushed' /\ pushed'[Len(pushed) + 1] = Min(rtodo)
          BY <1>1, <3>1
        <5> QED BY <5>1 DEF Range
      <4> QED BY <2>2, <4>1, <4>2 DEF RouteAppend
    <3> QED BY <3>3, <3>4, <3>5, <3>6 DEF PushedInv, Routing
  <2>3. ASSUME NEW o \in Outcomes, EndRun(o)
        PROVE  Taken' /\ Covered' /\ ((registered \/ Routing)' => OnQueue')
    BY <2>3, <1>2 DEF EndRun, PushedInv, Routing, routeVars
  <2>4. ASSUME NEW ok \in BOOLEAN, TakeSteered(ok)
        PROVE  Taken' /\ Covered' /\ ((registered \/ Routing)' => OnQueue')
    <3>1. /\ taken' = taken + 1
          /\ UNCHANGED <<pushed, acked, reporting, consumed, rows, registered, rpc>>
          /\ pushed[taken + 1] \in shown' \cup undelivered'
      BY <2>4 DEF TakeSteered, routeVars
    <3>2. \A i \in 1..(taken + 1) : i \in 1..taken \/ i = taken + 1
      BY <1>1
    <3> QED BY <1>1, <1>2, <3>1, <3>2 DEF PushedInv, Routing
  <2>5. ASSUME NEW ok \in BOOLEAN, MarkConsumed(ok)
        PROVE  Taken' /\ Covered' /\ ((registered \/ Routing)' => OnQueue')
    <3>1. PICK j \in (acked + 1)..taken :
             /\ acked' = j
             /\ \/ /\ rows' = rows \ Reported(j) /\ reporting' = Reported(j)
                   /\ UNCHANGED consumed
                \/ /\ consumed' = consumed \cup Reported(j)
                   /\ UNCHANGED <<rows, reporting>>
      BY <2>5 DEF MarkConsumed
    <3>2. UNCHANGED <<pushed, taken, registered, rpc>>
      BY <2>5 DEF MarkConsumed, routeVars
    <3>3. j \in 0..taken /\ \A i \in 1..acked : i \in 1..j
      BY <1>1
    <3>4. Reported(j) \subseteq {pushed[i] : i \in 1..j}
      BY <3>3, ReportedTaken
    <3>5. {pushed[i] : i \in 1..acked} \subseteq {pushed[i] : i \in 1..j}
      BY <3>3
    <3>6. Covered'
      BY <3>1, <3>2, <3>4, <3>5 DEF PushedInv
    <3> QED BY <1>2, <3>1, <3>2, <3>6 DEF PushedInv, Routing
  <2>6. ASSUME NEW ok \in BOOLEAN, AckConsumed(ok)
        PROVE  Taken' /\ Covered' /\ ((registered \/ Routing)' => OnQueue')
    BY <2>6, <1>2 DEF AckConsumed, PushedInv, Routing, routeVars
  <2>7. ASSUME NEW ok \in BOOLEAN, DiscardOrphans(ok)
        PROVE  Taken' /\ Covered' /\ ((registered \/ Routing)' => OnQueue')
    BY <2>7, <1>2 DEF DiscardOrphans, PushedInv, Routing, routeVars, runVars
  <2>8. CASE UNCHANGED <<runVars, rows>>
    <3>1. UNCHANGED <<pushed, taken, acked, reporting, consumed, rows, registered>>
      BY <2>8 DEF runVars
    <3>2. Routing' => Routing \/ registered
      BY RouteFrame DEF Poll, PollQuery, Dispatch, RouteStart, LiveRun, RouteFetch,
         RouteRecheck, RouteAppend, RouteAckChatter, RouteFails, Crash, Routing, routeVars
    <3> QED BY <1>2, <3>1, <3>2 DEF PushedInv
  <2> QED BY <2>1, <2>2, <2>3, <2>4, <2>5, <2>6, <2>7, <2>8, RunFrame DEF RunSteps
<1>4. \A i \in DOMAIN pushed' : Settled(pushed[i] - 1, Before(i))'
  BY QueueStep
<1> QED BY <1>3, <1>4 DEF PushedInv

\* Before the turn has left, the messages a steer cycle holds are all promised.
LEMMA RoutedStep == IInv /\ Next => RoutedInv'
<1> SUFFICES ASSUME IInv, Next PROVE RoutedInv'
  OBVIOUS
<1> USE DEF IInv
<1>1. rmsgs \subseteq log /\ rmsgs \subseteq Nat /\ log \subseteq Nat
  BY MsgsNumbers DEF Shape, RouteShape, TypeOK, BusType
\* What was settled up to a message of the cycle stays settled.
<1>2. ASSUME NEW S, NEW r \in rmsgs,
             \A j \in log : kind[j] = "addressed" /\ j <= r => j \in Accounted \cup S
      PROVE  \A k \in log' : kind'[k] = "addressed" /\ k <= r => k \in Accounted' \cup S
  <2>1. r \in Nat /\ r \in log /\ r <= r
    BY <1>1
  <2> QED BY <1>2, <2>1, SettledKept
<1>3. CASE RouteFetch
  <2>1. /\ rmsgs' = {m \in GetPending : m > renderedThrough} /\ log' = log /\ kind' = kind
        /\ rpc' # "append" /\ rpc = "fetch" /\ UNCHANGED renderedThrough
    BY <1>3 DEF RouteFetch, busVars, flightVars
  <2>2. ASSUME NEW r \in rmsgs', NEW k \in log, kind[k] = "addressed", k <= r
        PROVE  k \in Accounted \cup rmsgs'
    <3>1. r \in GetPending
      BY <2>1
    <3>2. k \in Accounted \cup GetPending
      BY <2>2, <3>1, PendingComplete
    <3>3. k <= renderedThrough => k \in Accounted
      BY <2>1, <2>2 DEF RenderedInv, Routing, Settled, Addressed
    <3>4. k \in Nat /\ renderedThrough \in Nat
      BY <1>1, MsgsNumbers DEF TypeOK, TurnType
    <3> QED BY <2>1, <3>2, <3>3, <3>4
  <2> QED BY <2>1, <2>2, AccountedGrows DEF RoutedInv, Settled, Addressed
<1>4. CASE RouteRecheck
  <2>1. /\ rpc = "recheck" /\ log' = log /\ kind' = kind /\ rpc' # "recheck"
        /\ rpc' = "append" => rmsgs' = rmsgs /\ rtodo' = Addressed(rmsgs)
    BY <1>4 DEF RouteRecheck, busVars
  <2>2. ASSUME rpc' = "append", NEW r \in rmsgs', NEW k \in log, kind[k] = "addressed", k <= r
        PROVE  k \in Accounted \cup rtodo'
    BY <2>1, <2>2 DEF RoutedInv, Settled, Addressed
  <2> QED BY <2>1, <2>2, AccountedGrows DEF RoutedInv, Settled, Addressed
<1>5. CASE RouteAppend
  <2>1. /\ rpc = "append" /\ rpc' = "append" /\ rmsgs' = rmsgs
        /\ log' = log /\ kind' = kind /\ rtodo # {}
    BY <1>5 DEF RouteAppend, busVars
  <2>2. Min(rtodo) \in Msgs
    BY <2>1, MinIn DEF TypeOK, RouteType
  <2>3. Range(pushed) \subseteq Range(pushed')
    <3>1. pushed \in Seq(Msgs)
      BY DEF TypeOK, RunType
    <3>2. CASE pushed' = Append(pushed, Min(rtodo))
      <4>1. \A i \in DOMAIN pushed : i \in DOMAIN pushed' /\ pushed'[i] = pushed[i]
        BY <2>2, <3>1, <3>2
      <4> QED BY <4>1 DEF Range
    <3> QED BY <1>5, <3>2 DEF RouteAppend
  <2>4. rtodo \subseteq Accounted' \cup (rtodo' \cup Range(pushed'))
    <3>1. Inboxed \subseteq Range(pushed)
      <4>1. acked \in Nat /\ \A i \in 1..acked : i \in DOMAIN pushed
        BY DEF TypeOK, RunType
      <4>2. {pushed[i] : i \in 1..acked} \subseteq Range(pushed)
        BY <4>1 DEF Range
      <4> QED BY <2>1, <4>2 DEF PushedInv, Inboxed, Routing
    <3>2. CASE rtodo' = {} /\ overflow' = overflow \cup (rtodo \ Inboxed)
      BY <2>3, <3>1, <3>2 DEF Accounted
    <3>3. CASE Min(rtodo) \in Inboxed /\ rtodo' = rtodo \ {Min(rtodo)}
      BY <2>3, <3>1, <3>3
    <3>4. CASE rtodo' = rtodo \ {Min(rtodo)} /\ pushed' = Append(pushed, Min(rtodo))
      <4>1. pushed \in Seq(Msgs) /\ Len(pushed) \in Nat
        BY DEF TypeOK, RunType
      <4>2. Len(pushed) + 1 \in DOMAIN pushed' /\ pushed'[Len(pushed) + 1] = Min(rtodo)
        BY <2>2, <3>4, <4>1
      <4>3. Min(rtodo) \in Range(pushed')
        BY <4>2 DEF Range
      <4> QED BY <3>4, <4>3
    <3> QED BY <1>5, <3>2, <3>3, <3>4 DEF RouteAppend
  <2>5. ASSUME NEW r \in rmsgs', NEW k \in log, kind[k] = "addressed", k <= r
        PROVE  k \in Accounted' \cup (rtodo' \cup Range(pushed'))
    <3>1. k \in Accounted \cup (rtodo \cup Range(pushed))
      BY <2>1, <2>5 DEF RoutedInv, Settled, Addressed
    <3> QED BY <3>1, <2>3, <2>4, AccountedGrows
  <2>6. \A r \in rmsgs' : Settled(r, rtodo \cup Range(pushed))'
    BY <2>1, <2>5 DEF Settled, Addressed
  <2> QED BY <2>1, <2>6 DEF RoutedInv
<1>6. CASE rpc' \notin {"recheck", "append"}
  BY <1>6 DEF RoutedInv
<1>7. CASE UNCHANGED routeVars /\ UNCHANGED pushed
  <2>1. rpc = "recheck" => \A r \in rmsgs : Settled(r, rmsgs)'
    BY <1>2, <1>7 DEF RoutedInv, Settled, Addressed, routeVars
  <2>2. rpc = "append" => \A r \in rmsgs : Settled(r, rtodo \cup Range(pushed))'
    BY <1>2, <1>7 DEF RoutedInv, Settled, Addressed, routeVars
  <2> QED BY <1>7, <2>1, <2>2 DEF RoutedInv, routeVars
<1>8. \/ RouteFetch \/ RouteRecheck \/ RouteAppend \/ rpc' \notin {"recheck", "append"}
      \/ UNCHANGED routeVars /\ UNCHANGED pushed
  <2>1. CASE Poll
    BY <2>1 DEF Poll, PollQuery, Dispatch, RouteStart, RouteAckChatter, RouteFails
  <2>2. CASE Crash
    BY <2>2 DEF Crash
  <2>3. CASE BindRun
    BY <2>3 DEF BindRun, Exclusion, Preparing, Routing, routeVars
  <2>4. RouteAppend => Poll
    BY DEF Poll
  <2> QED BY <2>1, <2>2, <2>3, <2>4, RouteFrame, PushedFrame
<1> QED BY <1>3, <1>4, <1>5, <1>6, <1>7, <1>8

\* No cursor write skips a message that nothing accounts for.
LEMMA NoSilentLossStep == IInv /\ Next => NoSilentLoss'
<1> SUFFICES ASSUME IInv, Next, NEW k \in log', kind'[k] = "addressed", k <= cursor'
             PROVE  k \in Accounted'
  BY DEF NoSilentLoss, Addressed
<1> USE DEF IInv, Forward
<1>1. ASSUME k \in log, kind[k] = "addressed", k <= cursor PROVE k \in Accounted'
  BY <1>1, AccountedGrows DEF NoSilentLoss, Addressed
<1>2. CASE SkipUnaddressed
  <2>1. log' = log /\ kind' = kind /\ (cursor' = cursor \/ cursor' = Max(batch))
    BY <1>2 DEF SkipUnaddressed, busVars
  <2>2. k <= Max(batch) => k \in Accounted
    BY <1>2, <2>1, NewestOf DEF SkipUnaddressed, BatchInv, Settled, Addressed
  <2> QED BY <1>1, <2>1, <2>2, AccountedGrows
<1>3. CASE RateLimited
  <2>1. log' = log /\ kind' = kind /\ (cursor' = cursor \/ cursor' = Max(Addressed(batch)))
    BY <1>3 DEF RateLimited, busVars
  <2>2. Max(Addressed(batch)) \in batch
    BY <1>3, NewestOf DEF RateLimited, Addressed
  <2>3. k <= Max(Addressed(batch)) => k \in Accounted \cup Addressed(batch)
    BY <1>3, <2>1, <2>2 DEF RateLimited, BatchInv, Settled, Addressed
  <2>4. Addressed(batch) \subseteq Accounted'
    BY <1>3 DEF RateLimited, Accounted
  <2> QED BY <1>1, <2>1, <2>3, <2>4, AccountedGrows
<1>4. CASE AckTrigger
  <2>1. log' = log /\ kind' = kind /\ (cursor' = cursor \/ cursor' = trig) /\ pc = "settle"
    BY <1>4 DEF AckTrigger, busVars
  <2>2. trig <= renderedThrough /\ trig \in Nat /\ renderedThrough \in Nat /\ k \in Nat
    BY <2>1, MsgsNumbers DEF Shape, TurnShape, HasTrigger, TypeOK, TurnType, BusType
  <2>3. k <= trig => k <= renderedThrough
    BY <2>2
  <2>4. k <= trig => k \in Accounted
    BY <2>1, <2>3 DEF RenderedInv, Rendered, Settled, Addressed
  <2> QED BY <1>1, <2>1, <2>4, AccountedGrows
<1>5. CASE RouteAckChatter
  <2>1. /\ log' = log /\ kind' = kind /\ rpc = "append" /\ rtodo = {}
        /\ cursor' = cursor \/ (BelowFloor # {} /\ cursor' = Max(BelowFloor))
    BY <1>5 DEF RouteAckChatter, busVars
  <2>2. ASSUME BelowFloor # {}, k <= Max(BelowFloor) PROVE k \in Accounted
    <3>1. Max(BelowFloor) \in rmsgs /\ \A r \in Remembered : Max(BelowFloor) < r
      BY <2>2, NewestOf DEF BelowFloor, Chatter
    <3>2. k \in Accounted \cup Range(pushed)
      BY <2>1, <2>2, <3>1 DEF RoutedInv, Settled, Addressed
    <3>3. k \in Nat /\ Max(BelowFloor) \in Nat
      BY <2>1, <2>2, NewestOf, MsgsNumbers DEF TypeOK, BusType
    <3>4. k \notin Remembered
      BY <2>2, <3>1, <3>3
    <3>5. consumed \subseteq Accounted
      <4>1. acked \in Nat /\ taken \in Nat /\ \A i \in 1..acked : i \in 1..taken
        BY DEF TypeOK, RunType
      <4> QED BY <4>1, TakenShown DEF PushedInv
    <3> QED BY <3>2, <3>4, <3>5 DEF Remembered
  <2> QED BY <1>1, <2>1, <2>2, AccountedGrows
<1>6. ASSUME NEW ok \in BOOLEAN, AckConsumed(ok) PROVE k \in Accounted'
  <2>1. /\ log' = log /\ kind' = kind /\ pc = "acking"
        /\ cursor' = cursor \/ cursor' = Max(reporting)
    BY <1>6 DEF AckConsumed, busVars
  <2>2. ASSUME k <= Max(reporting) PROVE k \in Accounted
    <3>1. Max(reporting) \in reporting
      BY <2>1, NewestOf
    <3>2. PICK i \in 1..acked : Max(reporting) = pushed[i]
      BY <3>1 DEF PushedInv
    <3>3. /\ i \in 1..taken /\ i \in DOMAIN pushed
          /\ \A n \in DOMAIN pushed : n < i => n \in 1..taken
      BY <3>2 DEF TypeOK, RunType
    <3>4. pushed[i] \in Nat /\ k \in Nat
      BY <2>1, <3>1, <3>2, MsgsNumbers DEF TypeOK, RunType, BusType
    <3>5. CASE k = pushed[i]
      BY <3>3, <3>5, TakenShown
    <3>6. CASE k <= pushed[i] - 1
      <4>1. k \in Accounted \cup Before(i)
        BY <2>1, <3>3, <3>6 DEF PushedInv, Settled, Addressed
      <4>2. Before(i) \subseteq Accounted
        BY <3>3, TakenShown DEF Before
      <4> QED BY <4>1, <4>2
    <3> QED BY <2>2, <3>2, <3>4, <3>5, <3>6
  <2> QED BY <1>1, <2>1, <2>2, AccountedGrows
<1>7. CASE UNCHANGED cursor
  <2>1. cursor \in Nat /\ log \subseteq Nat /\ cursor \in log \cup {0}
    BY MsgsNumbers DEF TypeOK, CursorType, BusType, Shape, LogShape
  <2>2. cursor = 0 \/ \E j \in log : cursor <= j
    BY <2>1
  <2>3. \A j \in log : kind[j] = "addressed" /\ j <= cursor => j \in Accounted \cup {}
    BY DEF NoSilentLoss, Addressed
  <2> QED BY <1>7, <2>1, <2>2, <2>3, SettledKept DEF Shape
<1> QED BY <1>2, <1>3, <1>4, <1>5, <1>6, <1>7, CursorFrame DEF CursorSteps

-----------------------------------------------------------------------------
(* The theorems.                                                             *)

LEMMA InvInit == Init => IInv
<1> SUFFICES ASSUME Init PROVE IInv
  OBVIOUS
<1>1. TypeOK
  BY TypeInit
<1>2. Shape
  BY DEF Init, Shape, LogShape, TurnShape, RouteShape, HasTrigger, InFlight, Addressed
<1>3. Exclusion /\ RenderedInv /\ BatchInv /\ RoutedInv /\ NoSilentLoss
  BY DEF Init, Exclusion, Routing, Preparing, Rendered, RenderedInv, BatchInv, RoutedInv,
     NoSilentLoss, Addressed
<1>4. ParkedInv
  BY ConstantsAssumption DEF Init, ParkedInv, Poisoned
<1>5. PushedInv
  BY DEF Init, PushedInv, Routing
<1> QED BY <1>1, <1>2, <1>3, <1>4, <1>5 DEF IInv

LEMMA InvStep == IInv /\ [Next]_vars => IInv'
<1> SUFFICES ASSUME IInv, [Next]_vars PROVE IInv'
  OBVIOUS
<1>1. CASE Next
  <2>1. TypeOK /\ Shape
    BY DEF IInv
  <2>2. TypeOK' /\ Shape'
    BY <1>1, <2>1, TypeStep, LogShapeStep, TurnShapeStep, RouteShapeStep DEF Shape
  <2> QED BY <1>1, <2>2, ExclusionStep, ParkedStep, BatchStep, RenderedStep, PushedStep,
             RoutedStep, NoSilentLossStep DEF IInv
<1>2. CASE UNCHANGED vars
  <2> USE <1>2 DEF IInv, vars, busVars, ackVars, turnVars, flightVars, runVars, routeVars,
                   gateVars, boundVars, ghostVars, hookVars
  <2>1. TypeOK'
    <3>1. BusType' /\ CursorType' /\ TurnType'
      BY DEF TypeOK, BusType, CursorType, TurnType
    <3>2. RunType' /\ RouteType' /\ CountType' /\ GhostType' /\ HookType'
      BY DEF TypeOK, RunType, RouteType, CountType, GhostType, HookType
    <3> QED BY <3>1, <3>2 DEF TypeOK
  <2>2. Shape'
    BY DEF Shape, LogShape, TurnShape, RouteShape, HasTrigger, InFlight, Addressed
  <2>3. Exclusion' /\ ParkedInv' /\ NoSilentLoss'
    BY DEF Exclusion, Routing, Preparing, ParkedInv, Poisoned, NoSilentLoss, Addressed, Accounted
  <2>4. BatchInv' /\ RenderedInv'
    BY DEF BatchInv, RenderedInv, Rendered, Routing, Settled, Addressed, Accounted
  <2>5. PushedInv' /\ RoutedInv'
    BY DEF PushedInv, RoutedInv, Routing, Settled, Before, Range, Addressed, Accounted
  <2> QED BY <2>1, <2>2, <2>3, <2>4, <2>5 DEF IInv
<1> QED BY <1>1, <1>2

\* The invariant is inductive.
THEOREM Inductive == Spec => []IInv
BY InvInit, InvStep, PTL DEF Spec

\* Every variable of a lane keeps its type, for every number of messages.
THEOREM TypeCorrect == Spec => []TypeOK
<1>1. IInv => TypeOK
  BY DEF IInv
<1> QED BY <1>1, Inductive, PTL

\* No cursor write of a turn, of a steer cycle or of a consumption report skips a
\* message addressed to the agent that nothing accounts for, whatever the number
\* of messages, crashes and failed calls and the values of the limits.
THEOREM NoMessageLost == Spec => []NoSilentLoss
<1>1. IInv => NoSilentLoss
  BY DEF IInv
<1> QED BY <1>1, Inductive, PTL
=============================================================================
