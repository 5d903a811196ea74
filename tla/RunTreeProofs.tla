---------------------------- MODULE RunTreeProofs ----------------------------
(***************************************************************************)
(* What holds of the runs of a tree and of their rows, for any number of   *)
(* runs, messages, requests and mishaps: types, the verdicts of the sweep, *)
(* the stop of a tree, and that the rows implement RunLife (the safety of  *)
(* it: fairness stays with the model checker).                             *)
(***************************************************************************)
EXTENDS RunTree, TLAPS

-----------------------------------------------------------------------------
(* Types.                                                                   *)

BusType ==
    /\ msg \in [Msgs -> {"none", "pending", "flight", "done"}]
    /\ lab \in [Msgs -> Trees]
    /\ woke \in [Runs -> 0 .. MaxMsgs]

RunType ==
    /\ proc \in [Runs -> Driven \cup {"none", "over", "dead"}]
    /\ out \in [Runs -> Terminal \cup {"none"}]
    /\ token \in [Runs -> BOOLEAN] /\ watched \in [Runs -> BOOLEAN]

RowType ==
    /\ state \in [Runs -> Terminal \cup {"early", "running"}] /\ label \in [Runs -> Trees]
    /\ flag \in [Runs -> BOOLEAN] /\ beat \in [Runs -> {"fresh", "stale"}]
    /\ void \subseteq Runs
    /\ \A r \in Runs : state[r] = "running" => label[r] # 0

StopRecs == [pc : {"idle", "read", "stamped", "flagging"}, root : Trees, seen : SUBSET Runs,
             todo : SUBSET Runs, hit : BOOLEAN]

BackType ==
    /\ stopper \in StopRecs
    /\ sweep \in [fail : SUBSET Runs, cancel : SUBSET Runs]

CountType ==
    /\ chat \in BOOLEAN
    /\ acts \in 0 .. MaxActs /\ mishaps \in 0 .. MaxMishaps
    /\ stalled \subseteq Runs /\ lost \subseteq Runs /\ raced \subseteq Runs
    /\ answered \subseteq Trees

\* The life of a run before its row runs and after it ended.
EarlyInv ==
    /\ \A r \in Runs : proc[r] \in {"none", "starting"} => state[r] = "early" /\ label[r] = 0
    /\ \A r \in Runs : proc[r] \in {"ended", "acking", "over"} => out[r] \in Terminal
    /\ \A r \in Runs : out[r] = "cancelled" => token[r]

Types == BusType /\ RunType /\ RowType /\ BackType /\ CountType

LEMMA RunOne == 1 \in Runs
BY TreeAssumption, SMT DEF Runs

LEMMA TreeOfType ==
    ASSUME BusType, NEW r \in Runs
    PROVE  TreeOf(r) \in Trees /\ TreeOf(r) # 0
<1>1. CASE woke[r] = 0 \/ lab[woke[r]] = 0
  BY <1>1, TreeAssumption, SMT DEF TreeOf, Runs, Trees
<1>2. CASE woke[r] # 0 /\ lab[woke[r]] # 0
  <2>1. woke[r] \in Msgs
    BY <1>2, TreeAssumption, SMT DEF BusType, Msgs
  <2>2. lab[woke[r]] \in Trees
    BY <2>1, SMT DEF BusType
  <2> QED BY <1>2, <2>2, SMT DEF TreeOf
<1> QED BY <1>1, <1>2

LEMMA BusStep == BusType /\ RowType /\ EarlyInv /\ [Next]_vars => BusType'
<1> SUFFICES ASSUME BusType, RowType, EarlyInv, [Next]_vars PROVE BusType'
  OBVIOUS
<1>1. ASSUME NEW m \in Msgs, NEW r \in Runs, Fetch(m, r) PROVE BusType'
  BY <1>1, TreeAssumption, SMT DEF BusType, Msgs, Runs, Trees, EarlyInv, RowType,
     Fetch, Goto, At, vars, busVars, runVars, rowVars, backVars, histVars
<1>2. ASSUME NEW r \in Runs, NEW m \in Msgs, Send(r, m) PROVE BusType'
  BY <1>2, TreeOfType, Zenon DEF BusType, Msgs, Runs, Trees, EarlyInv, RowType, Send,
     At, vars, busVars, runVars, rowVars, backVars, histVars
<1>3. ASSUME NEW r \in Runs, Bind(r) PROVE BusType'
  BY <1>3, TreeAssumption, SMT DEF BusType, Msgs, Runs, Trees, EarlyInv, RowType,
     Bind, At, Goto, Put, Mishap, vars, busVars, runVars, rowVars, backVars, histVars
<1>4. ASSUME NEW r \in Runs, WatchFires(r) PROVE BusType'
  BY <1>4, TreeAssumption, SMT DEF BusType, Msgs, Runs, Trees, EarlyInv, RowType,
     WatchFires, At, vars, busVars, runVars, rowVars, backVars, histVars
<1>5. ASSUME NEW r \in Runs, Finalize(r) PROVE BusType'
  <2>1. UNCHANGED <<msg, lab, woke>>
    BY <1>5, Zenon DEF Finalize, busVars
  <2> QED BY <2>1, Zenon DEF BusType
<1>6. ASSUME NEW r \in Runs, Ack(r) PROVE BusType'
  <2>1. msg' = [msg EXCEPT ![woke[r]] = "done"] \/ msg' = [msg EXCEPT ![woke[r]] = "pending"]
    BY <1>6, Zenon DEF Ack
  <2>2. msg' \in [Msgs -> {"none", "pending", "flight", "done"}]
    BY <2>1, SMT DEF BusType
  <2>3. UNCHANGED <<lab, woke>>
    BY <1>6, Zenon DEF Ack
  <2> QED BY <2>2, <2>3, Zenon DEF BusType
<1>7. ASSUME NEW r \in Runs, NEW o \in Terminal, RunEnds(r, o) PROVE BusType'
  BY <1>7, TreeAssumption, SMT DEF BusType, Msgs, Runs, Trees, EarlyInv, RowType,
     RunEnds, At, Goto, vars, busVars, runVars, rowVars, backVars, histVars
<1>8. ASSUME NEW r \in Runs, Stall(r) PROVE BusType'
  BY <1>8, TreeAssumption, SMT DEF BusType, Msgs, Runs, Trees, EarlyInv, RowType,
     Stall, Mishap, vars, busVars, runVars, rowVars, backVars, histVars
<1>9. ASSUME NEW r \in Runs, Beat(r) PROVE BusType'
  BY <1>9, TreeAssumption, SMT DEF BusType, Msgs, Runs, Trees, EarlyInv, RowType,
     Beat, vars, busVars, runVars, rowVars, backVars, histVars
<1>10. ASSUME NEW r \in Runs, GoesStale(r) PROVE BusType'
  BY <1>10, TreeAssumption, SMT DEF BusType, Msgs, Runs, Trees, EarlyInv, RowType,
     GoesStale, vars, busVars, runVars, rowVars, backVars, histVars
<1>11. ASSUME NEW r \in Runs, SweepWrites(r) PROVE BusType'
  BY <1>11, TreeAssumption, SMT DEF BusType, Msgs, Runs, Trees, EarlyInv, RowType,
     SweepWrites, Put, Mishap, vars, busVars, runVars, rowVars, backVars, histVars
<1>12. ASSUME NEW r \in Runs, StopReads(r) PROVE BusType'
  BY <1>12, TreeAssumption, SMT DEF BusType, Msgs, Runs, Trees, EarlyInv, RowType,
     StopReads, vars, busVars, runVars, rowVars, backVars, histVars
<1>13. ASSUME NEW r \in Runs, StopFlags(r) PROVE BusType'
  BY <1>13, TreeAssumption, SMT DEF BusType, Msgs, Runs, Trees, EarlyInv, RowType,
     StopFlags, Mishap, vars, busVars, runVars, rowVars, backVars, histVars
<1>14. CASE ChatStop
  BY <1>14, TreeAssumption, SMT DEF BusType, Msgs, Runs, Trees, EarlyInv, RowType,
     ChatStop, At, vars, busVars, runVars, rowVars, backVars, histVars
<1>15. CASE SweepReads
  BY <1>15, TreeAssumption, SMT DEF BusType, Msgs, Runs, Trees, EarlyInv, RowType,
     SweepReads, vars, busVars, runVars, rowVars, backVars, histVars
<1>16. CASE StopStamps
  BY <1>16, TreeAssumption, SMT DEF BusType, Msgs, Runs, Trees, EarlyInv, RowType,
     StopStamps, vars, busVars, runVars, rowVars, backVars, histVars
<1>17. CASE StopSelects
  BY <1>17, TreeAssumption, SMT DEF BusType, Msgs, Runs, Trees, EarlyInv, RowType,
     StopSelects, vars, busVars, runVars, rowVars, backVars, histVars
<1>18. CASE StopAnswers
  BY <1>18, TreeAssumption, SMT DEF BusType, Msgs, Runs, Trees, EarlyInv, RowType,
     StopAnswers, vars, busVars, runVars, rowVars, backVars, histVars
<1>19. CASE WorkersRestart
  BY <1>19, TreeAssumption, SMT DEF BusType, Msgs, Runs, Trees, EarlyInv, RowType,
     WorkersRestart, Requeued, Mishap, vars, busVars, runVars, rowVars, backVars, histVars
<1>20. CASE BackendRestart
  BY <1>20, TreeAssumption, SMT DEF BusType, Msgs, Runs, Trees, EarlyInv, RowType,
     BackendRestart, Mishap, vars, busVars, runVars, rowVars, backVars, histVars
<1>21. CASE UNCHANGED vars
  BY <1>21, TreeAssumption, SMT DEF BusType, Msgs, Runs, Trees, EarlyInv, RowType,
     vars, busVars, runVars, rowVars, backVars, histVars
<1> QED BY <1>1, <1>2, <1>3, <1>4, <1>5, <1>6, <1>7, <1>8, <1>9, <1>10, <1>11, <1>12,
   <1>13, <1>14, <1>15, <1>16, <1>17, <1>18, <1>19, <1>20, <1>21, Zenon DEF Next,
   Drive

LEMMA RunStep == RunType /\ [Next]_vars => RunType'
<1> SUFFICES ASSUME RunType, [Next]_vars PROVE RunType'
  OBVIOUS
<1>1. ASSUME NEW m \in Msgs, NEW r \in Runs, Fetch(m, r) PROVE RunType'
  BY <1>1, TreeAssumption, SMT DEF RunType, Driven, Terminal, Fetch, Goto, At, vars,
     busVars, runVars, rowVars, backVars, histVars
<1>2. ASSUME NEW r \in Runs, NEW m \in Msgs, Send(r, m) PROVE RunType'
  BY <1>2, TreeAssumption, SMT DEF RunType, Driven, Terminal, Send, At, vars, busVars,
     runVars, rowVars, backVars, histVars
<1>3. ASSUME NEW r \in Runs, Bind(r) PROVE RunType'
  BY <1>3, TreeAssumption, SMT DEF RunType, Driven, Terminal, Bind, At, Goto, Put,
     Mishap, Registered, IsChat, vars, busVars, runVars, rowVars, backVars, histVars
<1>4. ASSUME NEW r \in Runs, WatchFires(r) PROVE RunType'
  BY <1>4, TreeAssumption, SMT DEF RunType, Driven, Terminal, WatchFires, At, vars,
     busVars, runVars, rowVars, backVars, histVars
<1>5. ASSUME NEW r \in Runs, Finalize(r) PROVE RunType'
  BY <1>5, TreeAssumption, SMT DEF RunType, Driven, Terminal, Finalize, At, Goto, Put,
     Mishap, IsChat, vars, busVars, runVars, rowVars, backVars, histVars
<1>6. ASSUME NEW r \in Runs, Ack(r) PROVE RunType'
  BY <1>6, TreeAssumption, SMT DEF RunType, Driven, Terminal, Ack, At, Goto, Mishap,
     vars, busVars, runVars, rowVars, backVars, histVars
<1>7. ASSUME NEW r \in Runs, NEW o \in Terminal, RunEnds(r, o) PROVE RunType'
  BY <1>7, TreeAssumption, SMT DEF RunType, Driven, Terminal, RunEnds, At, Goto, vars,
     busVars, runVars, rowVars, backVars, histVars
<1>8. ASSUME NEW r \in Runs, Stall(r) PROVE RunType'
  BY <1>8, TreeAssumption, SMT DEF RunType, Driven, Terminal, Stall, Mishap, vars,
     busVars, runVars, rowVars, backVars, histVars
<1>9. ASSUME NEW r \in Runs, Beat(r) PROVE RunType'
  BY <1>9, TreeAssumption, SMT DEF RunType, Driven, Terminal, Beat, vars, busVars,
     runVars, rowVars, backVars, histVars
<1>10. ASSUME NEW r \in Runs, GoesStale(r) PROVE RunType'
  BY <1>10, TreeAssumption, SMT DEF RunType, Driven, Terminal, GoesStale, vars,
     busVars, runVars, rowVars, backVars, histVars
<1>11. ASSUME NEW r \in Runs, SweepWrites(r) PROVE RunType'
  BY <1>11, TreeAssumption, SMT DEF RunType, Driven, Terminal, SweepWrites, Put,
     Mishap, vars, busVars, runVars, rowVars, backVars, histVars
<1>12. ASSUME NEW r \in Runs, StopReads(r) PROVE RunType'
  BY <1>12, TreeAssumption, SMT DEF RunType, Driven, Terminal, StopReads, vars,
     busVars, runVars, rowVars, backVars, histVars
<1>13. ASSUME NEW r \in Runs, StopFlags(r) PROVE RunType'
  BY <1>13, TreeAssumption, SMT DEF RunType, Driven, Terminal, StopFlags, Mishap,
     vars, busVars, runVars, rowVars, backVars, histVars
<1>14. CASE ChatStop
  BY <1>14, RunOne, SMT DEF RunType, Driven, Terminal, ChatStop, At, vars, busVars,
     runVars, rowVars, backVars, histVars
<1>15. CASE SweepReads
  BY <1>15, TreeAssumption, SMT DEF RunType, Driven, Terminal, SweepReads, vars,
     busVars, runVars, rowVars, backVars, histVars
<1>16. CASE StopStamps
  BY <1>16, TreeAssumption, SMT DEF RunType, Driven, Terminal, StopStamps, vars,
     busVars, runVars, rowVars, backVars, histVars
<1>17. CASE StopSelects
  BY <1>17, TreeAssumption, SMT DEF RunType, Driven, Terminal, StopSelects, vars,
     busVars, runVars, rowVars, backVars, histVars
<1>18. CASE StopAnswers
  BY <1>18, TreeAssumption, SMT DEF RunType, Driven, Terminal, StopAnswers, vars,
     busVars, runVars, rowVars, backVars, histVars
<1>19. CASE WorkersRestart
  BY <1>19, TreeAssumption, SMT DEF RunType, Driven, Terminal, WorkersRestart, Mishap,
     IsChat, vars, busVars, runVars, rowVars, backVars, histVars
<1>20. CASE BackendRestart
  BY <1>20, TreeAssumption, SMT DEF RunType, Driven, Terminal, BackendRestart, Mishap,
     IsChat, vars, busVars, runVars, rowVars, backVars, histVars
<1>21. CASE UNCHANGED vars
  BY <1>21, TreeAssumption, SMT DEF RunType, Driven, Terminal, vars, busVars, runVars,
     rowVars, backVars, histVars
<1> QED BY <1>1, <1>2, <1>3, <1>4, <1>5, <1>6, <1>7, <1>8, <1>9, <1>10, <1>11, <1>12,
   <1>13, <1>14, <1>15, <1>16, <1>17, <1>18, <1>19, <1>20, <1>21, Zenon DEF Next,
   Drive

LEMMA RowStep == RowType /\ RunType /\ BusType /\ EarlyInv /\ [Next]_vars => RowType'
<1> SUFFICES ASSUME RowType, RunType, BusType, EarlyInv, [Next]_vars PROVE RowType'
  OBVIOUS
<1>1. ASSUME NEW m \in Msgs, NEW r \in Runs, Fetch(m, r) PROVE RowType'
  BY <1>1, TreeAssumption, SMT DEF RowType, Terminal, Trees, Fetch, Goto, At, vars,
     busVars, runVars, rowVars, backVars, histVars
<1>2. ASSUME NEW r \in Runs, NEW m \in Msgs, Send(r, m) PROVE RowType'
  BY <1>2, TreeAssumption, SMT DEF RowType, Terminal, Trees, Send, At, vars, busVars,
     runVars, rowVars, backVars, histVars
<1>3. ASSUME NEW r \in Runs, Bind(r) PROVE RowType'
  BY <1>3, TreeOfType, SMT DEF RowType, Terminal, Trees, Bind, At, Goto, Put, Mishap,
     RunType, Stamped, vars, busVars, runVars, rowVars, backVars, histVars
<1>4. ASSUME NEW r \in Runs, WatchFires(r) PROVE RowType'
  BY <1>4, TreeAssumption, SMT DEF RowType, Terminal, Trees, WatchFires, At, vars,
     busVars, runVars, rowVars, backVars, histVars
<1>5. ASSUME NEW r \in Runs, Finalize(r) PROVE RowType'
  BY <1>5, TreeAssumption, SMT DEF RowType, Terminal, Trees, Finalize, At, Goto, Put,
     Mishap, EarlyInv, RunType, vars, busVars, runVars, rowVars, backVars, histVars
<1>6. ASSUME NEW r \in Runs, Ack(r) PROVE RowType'
  BY <1>6, TreeAssumption, SMT DEF RowType, Terminal, Trees, Ack, At, Goto, Mishap,
     vars, busVars, runVars, rowVars, backVars, histVars
<1>7. ASSUME NEW r \in Runs, NEW o \in Terminal, RunEnds(r, o) PROVE RowType'
  BY <1>7, TreeAssumption, SMT DEF RowType, Terminal, Trees, RunEnds, At, Goto, vars,
     busVars, runVars, rowVars, backVars, histVars
<1>8. ASSUME NEW r \in Runs, Stall(r) PROVE RowType'
  BY <1>8, TreeAssumption, SMT DEF RowType, Terminal, Trees, Stall, Mishap, vars,
     busVars, runVars, rowVars, backVars, histVars
<1>9. ASSUME NEW r \in Runs, Beat(r) PROVE RowType'
  BY <1>9, TreeAssumption, SMT DEF RowType, Terminal, Trees, Beat, vars, busVars,
     runVars, rowVars, backVars, histVars
<1>10. ASSUME NEW r \in Runs, GoesStale(r) PROVE RowType'
  BY <1>10, TreeAssumption, SMT DEF RowType, Terminal, Trees, GoesStale, vars,
     busVars, runVars, rowVars, backVars, histVars
<1>11. ASSUME NEW r \in Runs, SweepWrites(r) PROVE RowType'
  BY <1>11, TreeAssumption, SMT DEF RowType, Terminal, Trees, SweepWrites, Put,
     Mishap, vars, busVars, runVars, rowVars, backVars, histVars
<1>12. ASSUME NEW r \in Runs, StopReads(r) PROVE RowType'
  BY <1>12, TreeAssumption, SMT DEF RowType, Terminal, Trees, StopReads, vars,
     busVars, runVars, rowVars, backVars, histVars
<1>13. ASSUME NEW r \in Runs, StopFlags(r) PROVE RowType'
  <2>1. UNCHANGED <<state, label, beat>>
    BY <1>13, Zenon DEF StopFlags
  <2>3. void' \subseteq Runs
    BY <1>13, SMT DEF StopFlags, RowType
  <2>2. flag' \in [Runs -> BOOLEAN]
    <3>1. flag' = [flag EXCEPT ![r] = TRUE] \/ flag' = flag
      BY <1>13, Zenon DEF StopFlags
    <3> QED BY <3>1, Zenon DEF RowType
  <2> QED BY <2>1, <2>2, <2>3, Zenon DEF RowType
<1>14. CASE ChatStop
  BY <1>14, TreeAssumption, SMT DEF RowType, Terminal, Trees, ChatStop, At, vars,
     busVars, runVars, rowVars, backVars, histVars
<1>15. CASE SweepReads
  BY <1>15, TreeAssumption, SMT DEF RowType, Terminal, Trees, SweepReads, vars,
     busVars, runVars, rowVars, backVars, histVars
<1>16. CASE StopStamps
  BY <1>16, TreeAssumption, SMT DEF RowType, Terminal, Trees, StopStamps, vars,
     busVars, runVars, rowVars, backVars, histVars
<1>17. CASE StopSelects
  BY <1>17, TreeAssumption, SMT DEF RowType, Terminal, Trees, StopSelects, vars,
     busVars, runVars, rowVars, backVars, histVars
<1>18. CASE StopAnswers
  BY <1>18, TreeAssumption, SMT DEF RowType, Terminal, Trees, StopAnswers, vars,
     busVars, runVars, rowVars, backVars, histVars
<1>19. CASE WorkersRestart
  BY <1>19, TreeAssumption, SMT DEF RowType, Terminal, Trees, WorkersRestart, Mishap,
     vars, busVars, runVars, rowVars, backVars, histVars
<1>20. CASE BackendRestart
  BY <1>20, TreeAssumption, SMT DEF RowType, Terminal, Trees, BackendRestart, Mishap,
     vars, busVars, runVars, rowVars, backVars, histVars
<1>21. CASE UNCHANGED vars
  BY <1>21, TreeAssumption, SMT DEF RowType, Terminal, Trees, vars, busVars, runVars,
     rowVars, backVars, histVars
<1> QED BY <1>1, <1>2, <1>3, <1>4, <1>5, <1>6, <1>7, <1>8, <1>9, <1>10, <1>11, <1>12,
   <1>13, <1>14, <1>15, <1>16, <1>17, <1>18, <1>19, <1>20, <1>21, Zenon DEF Next,
   Drive

LEMMA BackStep == BackType /\ RowType /\ [Next]_vars => BackType'
<1> SUFFICES ASSUME BackType, RowType, [Next]_vars PROVE BackType'
  OBVIOUS
<1>1. ASSUME NEW m \in Msgs, NEW r \in Runs, Fetch(m, r) PROVE BackType'
  BY <1>1, TreeAssumption, SMT DEF BackType, StopRecs, Trees, Fetch, Goto, At, vars, busVars,
     runVars, rowVars, backVars, histVars
<1>2. ASSUME NEW r \in Runs, NEW m \in Msgs, Send(r, m) PROVE BackType'
  BY <1>2, TreeAssumption, SMT DEF BackType, StopRecs, Trees, Send, At, vars, busVars, runVars,
     rowVars, backVars, histVars
<1>3. ASSUME NEW r \in Runs, Bind(r) PROVE BackType'
  BY <1>3, TreeAssumption, SMT DEF BackType, StopRecs, Trees, Bind, At, Goto, Put, Mishap, vars,
     busVars, runVars, rowVars, backVars, histVars
<1>4. ASSUME NEW r \in Runs, WatchFires(r) PROVE BackType'
  BY <1>4, TreeAssumption, SMT DEF BackType, StopRecs, Trees, WatchFires, At, vars, busVars,
     runVars, rowVars, backVars, histVars
<1>5. ASSUME NEW r \in Runs, Finalize(r) PROVE BackType'
  BY <1>5, TreeAssumption, SMT DEF BackType, StopRecs, Trees, Finalize, At, Goto, Put, Mishap,
     vars, busVars, runVars, rowVars, backVars, histVars
<1>6. ASSUME NEW r \in Runs, Ack(r) PROVE BackType'
  BY <1>6, TreeAssumption, SMT DEF BackType, StopRecs, Trees, Ack, At, Goto, Mishap, vars,
     busVars, runVars, rowVars, backVars, histVars
<1>7. ASSUME NEW r \in Runs, NEW o \in Terminal, RunEnds(r, o) PROVE BackType'
  BY <1>7, TreeAssumption, SMT DEF BackType, StopRecs, Trees, RunEnds, At, Goto, vars, busVars,
     runVars, rowVars, backVars, histVars
<1>8. ASSUME NEW r \in Runs, Stall(r) PROVE BackType'
  BY <1>8, TreeAssumption, SMT DEF BackType, StopRecs, Trees, Stall, Mishap, vars, busVars,
     runVars, rowVars, backVars, histVars
<1>9. ASSUME NEW r \in Runs, Beat(r) PROVE BackType'
  BY <1>9, TreeAssumption, SMT DEF BackType, StopRecs, Trees, Beat, vars, busVars, runVars,
     rowVars, backVars, histVars
<1>10. ASSUME NEW r \in Runs, GoesStale(r) PROVE BackType'
  BY <1>10, TreeAssumption, SMT DEF BackType, StopRecs, Trees, GoesStale, vars, busVars,
     runVars, rowVars, backVars, histVars
<1>11. ASSUME NEW r \in Runs, SweepWrites(r) PROVE BackType'
  BY <1>11, TreeAssumption, SMT DEF BackType, StopRecs, Trees, SweepWrites, Put, Mishap, vars,
     busVars, runVars, rowVars, backVars, histVars
<1>12. ASSUME NEW r \in Runs, StopReads(r) PROVE BackType'
  <2>1. stopper' = [NoStop EXCEPT !.pc = "read", !.root = label[r]] /\ UNCHANGED sweep
    BY <1>12, Zenon DEF StopReads
  <2>2. label[r] \in Trees
    BY Zenon DEF RowType
  <2>3. stopper' = [pc |-> "read", root |-> label[r], seen |-> {}, todo |-> {}, hit |-> FALSE]
    BY <2>1, Zenon DEF NoStop
  <2>4. stopper' \in StopRecs
    BY <2>2, <2>3, SMT DEF StopRecs
  <2> QED BY <2>1, <2>4, Zenon DEF BackType
<1>13. ASSUME NEW r \in Runs, StopFlags(r) PROVE BackType'
  <2>1. UNCHANGED sweep
    BY <1>13, Zenon DEF StopFlags
  <2>2. \/ stopper' = [stopper EXCEPT !.todo = @ \ {r}, !.hit = TRUE]
        \/ stopper' = [stopper EXCEPT !.todo = @ \ {r}]
    BY <1>13, Zenon DEF StopFlags
  <2>3. stopper.todo \ {r} \in SUBSET Runs
    BY SMT DEF BackType, StopRecs
  <2>4. \A T \in SUBSET Runs : [stopper EXCEPT !.todo = T] \in StopRecs
    BY Zenon DEF BackType, StopRecs
  <2>5. \A T \in SUBSET Runs, b \in BOOLEAN : [stopper EXCEPT !.todo = T, !.hit = b] \in StopRecs
    BY Zenon DEF BackType, StopRecs
  <2> QED BY <2>1, <2>2, <2>3, <2>4, <2>5, Zenon DEF BackType
<1>14. CASE ChatStop
  BY <1>14, TreeAssumption, SMT DEF BackType, StopRecs, Trees, ChatStop, At, vars, busVars,
     runVars, rowVars, backVars, histVars
<1>15. CASE SweepReads
  BY <1>15, TreeAssumption, SMT DEF BackType, StopRecs, Trees, SweepReads, Swept, Stale, vars,
     busVars, runVars, rowVars, backVars, histVars
<1>16. CASE StopStamps
  <2>1. stopper' = [stopper EXCEPT !.pc = "stamped", !.seen = Started] /\ UNCHANGED sweep
    BY <1>16, Zenon DEF StopStamps
  <2>2. Started \in SUBSET Runs
    BY Zenon DEF Started
  <2>3. stopper' \in StopRecs
    BY <2>1, <2>2, Zenon DEF BackType, StopRecs
  <2> QED BY <2>1, <2>3, Zenon DEF BackType
<1>17. CASE StopSelects
  <2> DEFINE hit == \E q \in {q \in Runs : label[q] = stopper.root /\ state[q] = "running"} :
                       flag[q]
  <2>1. PICK S \in SUBSET Runs, b \in BOOLEAN :
           stopper' = [stopper EXCEPT !.pc = "flagging", !.todo = S, !.hit = b]
    <3>1. hit \in BOOLEAN
      OBVIOUS
    <3>2. {q \in {q \in Runs : label[q] = stopper.root /\ state[q] = "running"} : ~flag[q]}
            \in SUBSET Runs
      OBVIOUS
    <3> QED BY <1>17, <3>1, <3>2, Zenon DEF StopSelects
  <2>2. UNCHANGED sweep
    BY <1>17, Zenon DEF StopSelects
  <2>3. \A p \in {"idle", "read", "stamped", "flagging"} :
           [stopper EXCEPT !.pc = p, !.todo = S, !.hit = b] \in StopRecs
    BY Zenon DEF BackType, StopRecs
  <2> QED BY <2>1, <2>2, <2>3, Zenon DEF BackType
<1>18. CASE StopAnswers
  BY <1>18, TreeAssumption, SMT DEF BackType, StopRecs, Trees, StopAnswers, NoStop, vars,
     busVars, runVars, rowVars, backVars, histVars
<1>19. CASE WorkersRestart
  BY <1>19, TreeAssumption, SMT DEF BackType, StopRecs, Trees, WorkersRestart, Mishap, vars,
     busVars, runVars, rowVars, backVars, histVars
<1>20. CASE BackendRestart
  BY <1>20, TreeAssumption, SMT DEF BackType, StopRecs, Trees, BackendRestart, Mishap, NoStop,
     NoSweep, vars, busVars, runVars, rowVars, backVars, histVars
<1>21. CASE UNCHANGED vars
  BY <1>21, TreeAssumption, SMT DEF BackType, StopRecs, Trees, vars, busVars, runVars, rowVars,
     backVars, histVars
<1> QED BY <1>1, <1>2, <1>3, <1>4, <1>5, <1>6, <1>7, <1>8, <1>9, <1>10, <1>11, <1>12,
   <1>13, <1>14, <1>15, <1>16, <1>17, <1>18, <1>19, <1>20, <1>21, Zenon DEF Next,
   Drive

LEMMA CountStep == CountType /\ BackType /\ [Next]_vars => CountType'
<1> SUFFICES ASSUME CountType, BackType, [Next]_vars PROVE CountType'
  OBVIOUS
<1>1. ASSUME NEW m \in Msgs, NEW r \in Runs, Fetch(m, r) PROVE CountType'
  BY <1>1, TreeAssumption, SMT DEF CountType, Fetch, Goto, At, vars, busVars, runVars,
     rowVars, backVars, histVars
<1>2. ASSUME NEW r \in Runs, NEW m \in Msgs, Send(r, m) PROVE CountType'
  BY <1>2, TreeAssumption, SMT DEF CountType, Send, At, vars, busVars, runVars,
     rowVars, backVars, histVars
<1>3. ASSUME NEW r \in Runs, Bind(r) PROVE CountType'
  BY <1>3, TreeAssumption, SMT DEF CountType, Bind, At, Goto, Put, Mishap, vars,
     busVars, runVars, rowVars, backVars, histVars
<1>4. ASSUME NEW r \in Runs, WatchFires(r) PROVE CountType'
  BY <1>4, TreeAssumption, SMT DEF CountType, WatchFires, At, vars, busVars, runVars,
     rowVars, backVars, histVars
<1>5. ASSUME NEW r \in Runs, Finalize(r) PROVE CountType'
  BY <1>5, TreeAssumption, SMT DEF CountType, Finalize, At, Goto, Put, Mishap, vars,
     busVars, runVars, rowVars, backVars, histVars
<1>6. ASSUME NEW r \in Runs, Ack(r) PROVE CountType'
  BY <1>6, TreeAssumption, SMT DEF CountType, Ack, At, Goto, Mishap, vars, busVars,
     runVars, rowVars, backVars, histVars
<1>7. ASSUME NEW r \in Runs, NEW o \in Terminal, RunEnds(r, o) PROVE CountType'
  BY <1>7, TreeAssumption, SMT DEF CountType, RunEnds, At, Goto, vars, busVars,
     runVars, rowVars, backVars, histVars
<1>8. ASSUME NEW r \in Runs, Stall(r) PROVE CountType'
  BY <1>8, TreeAssumption, SMT DEF CountType, Stall, Mishap, vars, busVars, runVars,
     rowVars, backVars, histVars
<1>9. ASSUME NEW r \in Runs, Beat(r) PROVE CountType'
  BY <1>9, TreeAssumption, SMT DEF CountType, Beat, vars, busVars, runVars, rowVars,
     backVars, histVars
<1>10. ASSUME NEW r \in Runs, GoesStale(r) PROVE CountType'
  BY <1>10, TreeAssumption, SMT DEF CountType, GoesStale, vars, busVars, runVars,
     rowVars, backVars, histVars
<1>11. ASSUME NEW r \in Runs, SweepWrites(r) PROVE CountType'
  BY <1>11, TreeAssumption, SMT DEF CountType, SweepWrites, Put, Mishap, vars,
     busVars, runVars, rowVars, backVars, histVars
<1>12. ASSUME NEW r \in Runs, StopReads(r) PROVE CountType'
  BY <1>12, TreeAssumption, SMT DEF CountType, StopReads, vars, busVars, runVars,
     rowVars, backVars, histVars
<1>13. ASSUME NEW r \in Runs, StopFlags(r) PROVE CountType'
  BY <1>13, TreeAssumption, SMT DEF CountType, StopFlags, Mishap, vars, busVars,
     runVars, rowVars, backVars, histVars
<1>14. CASE ChatStop
  BY <1>14, TreeAssumption, SMT DEF CountType, ChatStop, At, vars, busVars, runVars,
     rowVars, backVars, histVars
<1>15. CASE SweepReads
  BY <1>15, TreeAssumption, SMT DEF CountType, SweepReads, vars, busVars, runVars,
     rowVars, backVars, histVars
<1>16. CASE StopStamps
  BY <1>16, TreeAssumption, SMT DEF CountType, StopStamps, vars, busVars, runVars,
     rowVars, backVars, histVars
<1>17. CASE StopSelects
  BY <1>17, TreeAssumption, SMT DEF CountType, StopSelects, vars, busVars, runVars,
     rowVars, backVars, histVars
<1>18. CASE StopAnswers
  BY <1>18, TreeAssumption, SMT DEF CountType, StopAnswers, BackType, StopRecs, vars, busVars,
     runVars, rowVars, backVars, histVars
<1>19. CASE WorkersRestart
  BY <1>19, TreeAssumption, SMT DEF CountType, WorkersRestart, Mishap, vars, busVars,
     runVars, rowVars, backVars, histVars
<1>20. CASE BackendRestart
  BY <1>20, TreeAssumption, SMT DEF CountType, BackendRestart, Mishap, vars, busVars,
     runVars, rowVars, backVars, histVars
<1>21. CASE UNCHANGED vars
  BY <1>21, TreeAssumption, SMT DEF CountType, vars, busVars, runVars, rowVars,
     backVars, histVars
<1> QED BY <1>1, <1>2, <1>3, <1>4, <1>5, <1>6, <1>7, <1>8, <1>9, <1>10, <1>11, <1>12,
   <1>13, <1>14, <1>15, <1>16, <1>17, <1>18, <1>19, <1>20, <1>21, Zenon DEF Next,
   Drive

-----------------------------------------------------------------------------
(* Verdicts.  The heart of it: a row read as stale belongs to a run that is  *)
(* gone, or that stalled while it lived.                                     *)

BeatInv ==
    \A r \in Runs \ stalled :
        proc[r] \in {"none", "starting", "alive", "ended"} => beat[r] = "fresh"

RowInv ==
    /\ \A r \in lost : proc[r] \in {"acking", "over", "dead"}
    /\ \A r \in Runs \ stalled :
          /\ proc[r] \in {"alive", "ended"} => state[r] \in {"early", "running"}
          /\ proc[r] \in {"acking", "over"} /\ r \notin lost => state[r] = out[r]
          /\ proc[r] \in {"acking", "over"} /\ state[r] = "cancelled" /\ r \in lost => flag[r]
          /\ proc[r] \in {"acking", "over"} /\ r \in lost => state[r] # "completed"

SweepInv ==
    /\ \A r \in sweep.fail \cup sweep.cancel : proc[r] \notin {"none", "starting"}
    /\ \A r \in (sweep.fail \cup sweep.cancel) \ stalled :
          proc[r] \in {"acking", "over", "dead"} /\ state[r] = "running"
    /\ \A r \in sweep.cancel : flag[r]

LEMMA EarlyStep == Types /\ EarlyInv /\ SweepInv /\ [Next]_vars => EarlyInv'
<1> SUFFICES ASSUME Types, EarlyInv, SweepInv, [Next]_vars PROVE EarlyInv'
  OBVIOUS
<1>1. ASSUME NEW m \in Msgs, NEW r \in Runs, Fetch(m, r) PROVE EarlyInv'
  BY <1>1, TreeAssumption, SMT DEF EarlyInv, Types, RunType, RowType, CountType,
     Terminal, Fetch, Goto, At, vars, busVars, runVars, rowVars, backVars, histVars
<1>2. ASSUME NEW r \in Runs, NEW m \in Msgs, Send(r, m) PROVE EarlyInv'
  BY <1>2, TreeAssumption, SMT DEF EarlyInv, Types, RunType, RowType, CountType,
     Terminal, Send, At, vars, busVars, runVars, rowVars, backVars, histVars
<1>3. ASSUME NEW r \in Runs, Bind(r) PROVE EarlyInv'
  BY <1>3, TreeAssumption, SMT DEF EarlyInv, Types, RunType, RowType, CountType,
     Terminal, Bind, At, Goto, Put, Mishap, vars, busVars, runVars, rowVars, backVars,
     histVars
<1>4. ASSUME NEW r \in Runs, WatchFires(r) PROVE EarlyInv'
  BY <1>4, TreeAssumption, SMT DEF EarlyInv, Types, RunType, RowType, CountType,
     Terminal, WatchFires, At, vars, busVars, runVars, rowVars, backVars, histVars
<1>5. ASSUME NEW r \in Runs, Finalize(r) PROVE EarlyInv'
  BY <1>5, TreeAssumption, SMT DEF EarlyInv, Types, RunType, RowType, CountType,
     Terminal, Finalize, At, Goto, Put, Mishap, vars, busVars, runVars, rowVars,
     backVars, histVars
<1>6. ASSUME NEW r \in Runs, Ack(r) PROVE EarlyInv'
  BY <1>6, TreeAssumption, SMT DEF EarlyInv, Types, RunType, RowType, CountType,
     Terminal, Ack, At, Goto, Mishap, vars, busVars, runVars, rowVars, backVars,
     histVars
<1>7. ASSUME NEW r \in Runs, NEW o \in Terminal, RunEnds(r, o) PROVE EarlyInv'
  BY <1>7, TreeAssumption, SMT DEF EarlyInv, Types, RunType, RowType, CountType,
     Terminal, RunEnds, At, Goto, vars, busVars, runVars, rowVars, backVars, histVars
<1>8. ASSUME NEW r \in Runs, Stall(r) PROVE EarlyInv'
  BY <1>8, TreeAssumption, SMT DEF EarlyInv, Types, RunType, RowType, CountType,
     Terminal, Stall, Mishap, vars, busVars, runVars, rowVars, backVars, histVars
<1>9. ASSUME NEW r \in Runs, Beat(r) PROVE EarlyInv'
  BY <1>9, TreeAssumption, SMT DEF EarlyInv, Types, RunType, RowType, CountType,
     Terminal, Beat, vars, busVars, runVars, rowVars, backVars, histVars
<1>10. ASSUME NEW r \in Runs, GoesStale(r) PROVE EarlyInv'
  BY <1>10, TreeAssumption, SMT DEF EarlyInv, Types, RunType, RowType, CountType,
     Terminal, GoesStale, vars, busVars, runVars, rowVars, backVars, histVars
<1>11. ASSUME NEW r \in Runs, SweepWrites(r) PROVE EarlyInv'
  BY <1>11, TreeAssumption, SMT DEF EarlyInv, Types, RunType, RowType, CountType,
     Terminal, SweepWrites, Put, Mishap, SweepInv, vars, busVars, runVars, rowVars,
     backVars, histVars
<1>12. ASSUME NEW r \in Runs, StopReads(r) PROVE EarlyInv'
  BY <1>12, TreeAssumption, SMT DEF EarlyInv, Types, RunType, RowType, CountType,
     Terminal, StopReads, vars, busVars, runVars, rowVars, backVars, histVars
<1>13. ASSUME NEW r \in Runs, StopFlags(r) PROVE EarlyInv'
  BY <1>13, TreeAssumption, SMT DEF EarlyInv, Types, RunType, RowType, CountType,
     Terminal, StopFlags, Mishap, vars, busVars, runVars, rowVars, backVars, histVars
<1>14. CASE ChatStop
  BY <1>14, RunOne, SMT DEF EarlyInv, Types, RunType, RowType, CountType, Terminal,
     ChatStop, At, vars, busVars, runVars, rowVars, backVars, histVars
<1>15. CASE SweepReads
  BY <1>15, TreeAssumption, SMT DEF EarlyInv, Types, RunType, RowType, CountType,
     Terminal, SweepReads, vars, busVars, runVars, rowVars, backVars, histVars
<1>16. CASE StopStamps
  BY <1>16, TreeAssumption, SMT DEF EarlyInv, Types, RunType, RowType, CountType,
     Terminal, StopStamps, vars, busVars, runVars, rowVars, backVars, histVars
<1>17. CASE StopSelects
  BY <1>17, TreeAssumption, SMT DEF EarlyInv, Types, RunType, RowType, CountType,
     Terminal, StopSelects, vars, busVars, runVars, rowVars, backVars, histVars
<1>18. CASE StopAnswers
  BY <1>18, TreeAssumption, SMT DEF EarlyInv, Types, RunType, RowType, CountType,
     Terminal, StopAnswers, vars, busVars, runVars, rowVars, backVars, histVars
<1>19. CASE WorkersRestart
  BY <1>19, TreeAssumption, SMT DEF EarlyInv, Types, RunType, RowType, CountType,
     Terminal, WorkersRestart, Mishap, Driven, vars, busVars, runVars, rowVars,
     backVars, histVars
<1>20. CASE BackendRestart
  BY <1>20, TreeAssumption, SMT DEF EarlyInv, Types, RunType, RowType, CountType,
     Terminal, BackendRestart, Mishap, Driven, vars, busVars, runVars, rowVars,
     backVars, histVars
<1>21. CASE UNCHANGED vars
  BY <1>21, TreeAssumption, SMT DEF EarlyInv, Types, RunType, RowType, CountType,
     Terminal, vars, busVars, runVars, rowVars, backVars, histVars
<1> QED BY <1>1, <1>2, <1>3, <1>4, <1>5, <1>6, <1>7, <1>8, <1>9, <1>10, <1>11, <1>12,
   <1>13, <1>14, <1>15, <1>16, <1>17, <1>18, <1>19, <1>20, <1>21, Zenon DEF Next,
   Drive

LEMMA BeatStep == Types /\ EarlyInv /\ BeatInv /\ [Next]_vars => BeatInv'
<1> SUFFICES ASSUME Types, EarlyInv, BeatInv, [Next]_vars PROVE BeatInv'
  OBVIOUS
<1>1. ASSUME NEW m \in Msgs, NEW r \in Runs, Fetch(m, r) PROVE BeatInv'
  BY <1>1, TreeAssumption, SMT DEF BeatInv, Types, RunType, RowType, CountType, Fetch,
     Goto, At, vars, busVars, runVars, rowVars, backVars, histVars
<1>2. ASSUME NEW r \in Runs, NEW m \in Msgs, Send(r, m) PROVE BeatInv'
  BY <1>2, TreeAssumption, SMT DEF BeatInv, Types, RunType, RowType, CountType, Send,
     At, vars, busVars, runVars, rowVars, backVars, histVars
<1>3. ASSUME NEW r \in Runs, Bind(r) PROVE BeatInv'
  BY <1>3, TreeAssumption, SMT DEF BeatInv, Types, RunType, RowType, CountType, Bind,
     At, Goto, Put, Mishap, vars, busVars, runVars, rowVars, backVars, histVars
<1>4. ASSUME NEW r \in Runs, WatchFires(r) PROVE BeatInv'
  BY <1>4, TreeAssumption, SMT DEF BeatInv, Types, RunType, RowType, CountType,
     WatchFires, At, vars, busVars, runVars, rowVars, backVars, histVars
<1>5. ASSUME NEW r \in Runs, Finalize(r) PROVE BeatInv'
  BY <1>5, TreeAssumption, SMT DEF BeatInv, Types, RunType, RowType, CountType,
     Finalize, At, Goto, Put, Mishap, vars, busVars, runVars, rowVars, backVars,
     histVars
<1>6. ASSUME NEW r \in Runs, Ack(r) PROVE BeatInv'
  BY <1>6, TreeAssumption, SMT DEF BeatInv, Types, RunType, RowType, CountType, Ack,
     At, Goto, Mishap, vars, busVars, runVars, rowVars, backVars, histVars
<1>7. ASSUME NEW r \in Runs, NEW o \in Terminal, RunEnds(r, o) PROVE BeatInv'
  BY <1>7, TreeAssumption, SMT DEF BeatInv, Types, RunType, RowType, CountType,
     RunEnds, At, Goto, vars, busVars, runVars, rowVars, backVars, histVars
<1>8. ASSUME NEW r \in Runs, Stall(r) PROVE BeatInv'
  BY <1>8, TreeAssumption, SMT DEF BeatInv, Types, RunType, RowType, CountType, Stall,
     Mishap, vars, busVars, runVars, rowVars, backVars, histVars
<1>9. ASSUME NEW r \in Runs, Beat(r) PROVE BeatInv'
  BY <1>9, TreeAssumption, SMT DEF BeatInv, Types, RunType, RowType, CountType, Beat,
     vars, busVars, runVars, rowVars, backVars, histVars
<1>10. ASSUME NEW r \in Runs, GoesStale(r) PROVE BeatInv'
  BY <1>10, TreeAssumption, SMT DEF BeatInv, Types, RunType, RowType, CountType,
     GoesStale, EarlyInv, vars, busVars, runVars, rowVars, backVars, histVars
<1>11. ASSUME NEW r \in Runs, SweepWrites(r) PROVE BeatInv'
  BY <1>11, TreeAssumption, SMT DEF BeatInv, Types, RunType, RowType, CountType,
     SweepWrites, Put, Mishap, vars, busVars, runVars, rowVars, backVars, histVars
<1>12. ASSUME NEW r \in Runs, StopReads(r) PROVE BeatInv'
  BY <1>12, TreeAssumption, SMT DEF BeatInv, Types, RunType, RowType, CountType,
     StopReads, vars, busVars, runVars, rowVars, backVars, histVars
<1>13. ASSUME NEW r \in Runs, StopFlags(r) PROVE BeatInv'
  BY <1>13, TreeAssumption, SMT DEF BeatInv, Types, RunType, RowType, CountType,
     StopFlags, Mishap, vars, busVars, runVars, rowVars, backVars, histVars
<1>14. CASE ChatStop
  BY <1>14, TreeAssumption, SMT DEF BeatInv, Types, RunType, RowType, CountType,
     ChatStop, At, vars, busVars, runVars, rowVars, backVars, histVars
<1>15. CASE SweepReads
  BY <1>15, TreeAssumption, SMT DEF BeatInv, Types, RunType, RowType, CountType,
     SweepReads, vars, busVars, runVars, rowVars, backVars, histVars
<1>16. CASE StopStamps
  BY <1>16, TreeAssumption, SMT DEF BeatInv, Types, RunType, RowType, CountType,
     StopStamps, vars, busVars, runVars, rowVars, backVars, histVars
<1>17. CASE StopSelects
  BY <1>17, TreeAssumption, SMT DEF BeatInv, Types, RunType, RowType, CountType,
     StopSelects, vars, busVars, runVars, rowVars, backVars, histVars
<1>18. CASE StopAnswers
  BY <1>18, TreeAssumption, SMT DEF BeatInv, Types, RunType, RowType, CountType,
     StopAnswers, vars, busVars, runVars, rowVars, backVars, histVars
<1>19. CASE WorkersRestart
  BY <1>19, TreeAssumption, SMT DEF BeatInv, Types, RunType, RowType, CountType,
     WorkersRestart, Mishap, Driven, vars, busVars, runVars, rowVars, backVars,
     histVars
<1>20. CASE BackendRestart
  BY <1>20, TreeAssumption, SMT DEF BeatInv, Types, RunType, RowType, CountType,
     BackendRestart, Mishap, Driven, vars, busVars, runVars, rowVars, backVars,
     histVars
<1>21. CASE UNCHANGED vars
  BY <1>21, TreeAssumption, SMT DEF BeatInv, Types, RunType, RowType, CountType, vars,
     busVars, runVars, rowVars, backVars, histVars
<1> QED BY <1>1, <1>2, <1>3, <1>4, <1>5, <1>6, <1>7, <1>8, <1>9, <1>10, <1>11, <1>12,
   <1>13, <1>14, <1>15, <1>16, <1>17, <1>18, <1>19, <1>20, <1>21, Zenon DEF Next,
   Drive

LEMMA VerdictStep == Types /\ EarlyInv /\ SweepInv /\ RowInv /\ [Next]_vars => RowInv'
<1> SUFFICES ASSUME Types, EarlyInv, SweepInv, RowInv, [Next]_vars PROVE RowInv'
  OBVIOUS
<1>1. ASSUME NEW m \in Msgs, NEW r \in Runs, Fetch(m, r) PROVE RowInv'
  BY <1>1, TreeAssumption, SMT DEF RowInv, Types, RunType, RowType, CountType,
     Terminal, Fetch, Goto, At, vars, busVars, runVars, rowVars, backVars, histVars
<1>2. ASSUME NEW r \in Runs, NEW m \in Msgs, Send(r, m) PROVE RowInv'
  BY <1>2, TreeAssumption, SMT DEF RowInv, Types, RunType, RowType, CountType,
     Terminal, Send, At, vars, busVars, runVars, rowVars, backVars, histVars
<1>3. ASSUME NEW r \in Runs, Bind(r) PROVE RowInv'
  BY <1>3, TreeAssumption, SMT DEF RowInv, Types, RunType, RowType, CountType,
     Terminal, Bind, At, Goto, Put, Mishap, EarlyInv, vars, busVars, runVars, rowVars,
     backVars, histVars
<1>4. ASSUME NEW r \in Runs, WatchFires(r) PROVE RowInv'
  BY <1>4, TreeAssumption, SMT DEF RowInv, Types, RunType, RowType, CountType,
     Terminal, WatchFires, At, vars, busVars, runVars, rowVars, backVars, histVars
<1>5. ASSUME NEW r \in Runs, Finalize(r) PROVE RowInv'
  BY <1>5, TreeAssumption, SMT DEF RowInv, Types, RunType, RowType, CountType,
     Terminal, Finalize, At, Goto, Put, Mishap, EarlyInv, vars, busVars, runVars,
     rowVars, backVars, histVars
<1>6. ASSUME NEW r \in Runs, Ack(r) PROVE RowInv'
  BY <1>6, TreeAssumption, SMT DEF RowInv, Types, RunType, RowType, CountType,
     Terminal, Ack, At, Goto, Mishap, vars, busVars, runVars, rowVars, backVars,
     histVars
<1>7. ASSUME NEW r \in Runs, NEW o \in Terminal, RunEnds(r, o) PROVE RowInv'
  BY <1>7, TreeAssumption, SMT DEF RowInv, Types, RunType, RowType, CountType,
     Terminal, RunEnds, At, Goto, vars, busVars, runVars, rowVars, backVars, histVars
<1>8. ASSUME NEW r \in Runs, Stall(r) PROVE RowInv'
  BY <1>8, TreeAssumption, SMT DEF RowInv, Types, RunType, RowType, CountType,
     Terminal, Stall, Mishap, vars, busVars, runVars, rowVars, backVars, histVars
<1>9. ASSUME NEW r \in Runs, Beat(r) PROVE RowInv'
  BY <1>9, TreeAssumption, SMT DEF RowInv, Types, RunType, RowType, CountType,
     Terminal, Beat, vars, busVars, runVars, rowVars, backVars, histVars
<1>10. ASSUME NEW r \in Runs, GoesStale(r) PROVE RowInv'
  BY <1>10, TreeAssumption, SMT DEF RowInv, Types, RunType, RowType, CountType,
     Terminal, GoesStale, vars, busVars, runVars, rowVars, backVars, histVars
<1>11. ASSUME NEW r \in Runs, SweepWrites(r) PROVE RowInv'
  BY <1>11, TreeAssumption, SMT DEF RowInv, Types, RunType, RowType, CountType,
     Terminal, SweepWrites, Put, Mishap, SweepInv, EarlyInv, vars, busVars, runVars,
     rowVars, backVars, histVars
<1>12. ASSUME NEW r \in Runs, StopReads(r) PROVE RowInv'
  BY <1>12, TreeAssumption, SMT DEF RowInv, Types, RunType, RowType, CountType,
     Terminal, StopReads, vars, busVars, runVars, rowVars, backVars, histVars
<1>13. ASSUME NEW r \in Runs, StopFlags(r) PROVE RowInv'
  BY <1>13, TreeAssumption, SMT DEF RowInv, Types, RunType, RowType, CountType,
     Terminal, StopFlags, Mishap, vars, busVars, runVars, rowVars, backVars, histVars
<1>14. CASE ChatStop
  BY <1>14, TreeAssumption, SMT DEF RowInv, Types, RunType, RowType, CountType,
     Terminal, ChatStop, At, vars, busVars, runVars, rowVars, backVars, histVars
<1>15. CASE SweepReads
  BY <1>15, TreeAssumption, SMT DEF RowInv, Types, RunType, RowType, CountType,
     Terminal, SweepReads, vars, busVars, runVars, rowVars, backVars, histVars
<1>16. CASE StopStamps
  BY <1>16, TreeAssumption, SMT DEF RowInv, Types, RunType, RowType, CountType,
     Terminal, StopStamps, vars, busVars, runVars, rowVars, backVars, histVars
<1>17. CASE StopSelects
  BY <1>17, TreeAssumption, SMT DEF RowInv, Types, RunType, RowType, CountType,
     Terminal, StopSelects, vars, busVars, runVars, rowVars, backVars, histVars
<1>18. CASE StopAnswers
  BY <1>18, TreeAssumption, SMT DEF RowInv, Types, RunType, RowType, CountType,
     Terminal, StopAnswers, vars, busVars, runVars, rowVars, backVars, histVars
<1>19. CASE WorkersRestart
  BY <1>19, TreeAssumption, SMT DEF RowInv, Types, RunType, RowType, CountType,
     Terminal, WorkersRestart, Mishap, Driven, vars, busVars, runVars, rowVars,
     backVars, histVars
<1>20. CASE BackendRestart
  BY <1>20, TreeAssumption, SMT DEF RowInv, Types, RunType, RowType, CountType,
     Terminal, BackendRestart, Mishap, Driven, vars, busVars, runVars, rowVars,
     backVars, histVars
<1>21. CASE UNCHANGED vars
  BY <1>21, TreeAssumption, SMT DEF RowInv, Types, RunType, RowType, CountType,
     Terminal, vars, busVars, runVars, rowVars, backVars, histVars
<1> QED BY <1>1, <1>2, <1>3, <1>4, <1>5, <1>6, <1>7, <1>8, <1>9, <1>10, <1>11, <1>12,
   <1>13, <1>14, <1>15, <1>16, <1>17, <1>18, <1>19, <1>20, <1>21, Zenon DEF Next,
   Drive

LEMMA SweepStep == Types /\ EarlyInv /\ BeatInv /\ SweepInv /\ [Next]_vars => SweepInv'
<1> SUFFICES ASSUME Types, EarlyInv, BeatInv, SweepInv, [Next]_vars PROVE SweepInv'
  OBVIOUS
<1>1. ASSUME NEW m \in Msgs, NEW r \in Runs, Fetch(m, r) PROVE SweepInv'
  BY <1>1, TreeAssumption, SMT DEF SweepInv, Types, RunType, RowType, BackType, StopRecs,
     CountType, Terminal, Fetch, Goto, At, vars, busVars, runVars, rowVars, backVars,
     histVars
<1>2. ASSUME NEW r \in Runs, NEW m \in Msgs, Send(r, m) PROVE SweepInv'
  BY <1>2, TreeAssumption, SMT DEF SweepInv, Types, RunType, RowType, BackType, StopRecs,
     CountType, Terminal, Send, At, vars, busVars, runVars, rowVars, backVars,
     histVars
<1>3. ASSUME NEW r \in Runs, Bind(r) PROVE SweepInv'
  BY <1>3, TreeAssumption, SMT DEF SweepInv, Types, RunType, RowType, BackType, StopRecs,
     CountType, Terminal, Bind, At, Goto, Put, Mishap, EarlyInv, vars, busVars,
     runVars, rowVars, backVars, histVars
<1>4. ASSUME NEW r \in Runs, WatchFires(r) PROVE SweepInv'
  BY <1>4, TreeAssumption, SMT DEF SweepInv, Types, RunType, RowType, BackType, StopRecs,
     CountType, Terminal, WatchFires, At, vars, busVars, runVars, rowVars, backVars,
     histVars
<1>5. ASSUME NEW r \in Runs, Finalize(r) PROVE SweepInv'
  BY <1>5, TreeAssumption, SMT DEF SweepInv, Types, RunType, RowType, BackType, StopRecs,
     CountType, Terminal, Finalize, At, Goto, Put, Mishap, vars, busVars, runVars,
     rowVars, backVars, histVars
<1>6. ASSUME NEW r \in Runs, Ack(r) PROVE SweepInv'
  BY <1>6, TreeAssumption, SMT DEF SweepInv, Types, RunType, RowType, BackType, StopRecs,
     CountType, Terminal, Ack, At, Goto, Mishap, vars, busVars, runVars, rowVars,
     backVars, histVars
<1>7. ASSUME NEW r \in Runs, NEW o \in Terminal, RunEnds(r, o) PROVE SweepInv'
  BY <1>7, TreeAssumption, SMT DEF SweepInv, Types, RunType, RowType, BackType, StopRecs,
     CountType, Terminal, RunEnds, At, Goto, vars, busVars, runVars, rowVars,
     backVars, histVars
<1>8. ASSUME NEW r \in Runs, Stall(r) PROVE SweepInv'
  BY <1>8, TreeAssumption, SMT DEF SweepInv, Types, RunType, RowType, BackType, StopRecs,
     CountType, Terminal, Stall, Mishap, vars, busVars, runVars, rowVars, backVars,
     histVars
<1>9. ASSUME NEW r \in Runs, Beat(r) PROVE SweepInv'
  BY <1>9, TreeAssumption, SMT DEF SweepInv, Types, RunType, RowType, BackType, StopRecs,
     CountType, Terminal, Beat, vars, busVars, runVars, rowVars, backVars, histVars
<1>10. ASSUME NEW r \in Runs, GoesStale(r) PROVE SweepInv'
  BY <1>10, TreeAssumption, SMT DEF SweepInv, Types, RunType, RowType, BackType, StopRecs,
     CountType, Terminal, GoesStale, vars, busVars, runVars, rowVars, backVars,
     histVars
<1>11. ASSUME NEW r \in Runs, SweepWrites(r) PROVE SweepInv'
  BY <1>11, TreeAssumption, SMT DEF SweepInv, Types, RunType, RowType, BackType, StopRecs,
     CountType, Terminal, SweepWrites, Put, Mishap, vars, busVars, runVars, rowVars,
     backVars, histVars
<1>12. ASSUME NEW r \in Runs, StopReads(r) PROVE SweepInv'
  BY <1>12, TreeAssumption, SMT DEF SweepInv, Types, RunType, RowType, BackType, StopRecs,
     CountType, Terminal, StopReads, vars, busVars, runVars, rowVars, backVars,
     histVars
<1>13. ASSUME NEW r \in Runs, StopFlags(r) PROVE SweepInv'
  BY <1>13, TreeAssumption, SMT DEF SweepInv, Types, RunType, RowType, BackType, StopRecs,
     CountType, Terminal, StopFlags, Mishap, vars, busVars, runVars, rowVars,
     backVars, histVars
<1>14. CASE ChatStop
  BY <1>14, TreeAssumption, SMT DEF SweepInv, Types, RunType, RowType, BackType, StopRecs,
     CountType, Terminal, ChatStop, At, vars, busVars, runVars, rowVars, backVars,
     histVars
<1>15. CASE SweepReads
  BY <1>15, TreeAssumption, SMT DEF SweepInv, Types, RunType, RowType, BackType, StopRecs,
     CountType, Terminal, SweepReads, Swept, Stale, BeatInv, EarlyInv, Driven, vars,
     busVars, runVars, rowVars, backVars, histVars
<1>16. CASE StopStamps
  BY <1>16, TreeAssumption, SMT DEF SweepInv, Types, RunType, RowType, BackType, StopRecs,
     CountType, Terminal, StopStamps, vars, busVars, runVars, rowVars, backVars,
     histVars
<1>17. CASE StopSelects
  BY <1>17, TreeAssumption, SMT DEF SweepInv, Types, RunType, RowType, BackType, StopRecs,
     CountType, Terminal, StopSelects, vars, busVars, runVars, rowVars, backVars,
     histVars
<1>18. CASE StopAnswers
  BY <1>18, TreeAssumption, SMT DEF SweepInv, Types, RunType, RowType, BackType, StopRecs,
     CountType, Terminal, StopAnswers, vars, busVars, runVars, rowVars, backVars,
     histVars
<1>19. CASE WorkersRestart
  BY <1>19, TreeAssumption, SMT DEF SweepInv, Types, RunType, RowType, BackType, StopRecs,
     CountType, Terminal, WorkersRestart, Mishap, Driven, vars, busVars, runVars,
     rowVars, backVars, histVars
<1>20. CASE BackendRestart
  BY <1>20, TreeAssumption, SMT DEF SweepInv, Types, RunType, RowType, BackType, StopRecs,
     CountType, Terminal, BackendRestart, Mishap, Driven, NoSweep, vars, busVars,
     runVars, rowVars, backVars, histVars
<1>21. CASE UNCHANGED vars
  BY <1>21, TreeAssumption, SMT DEF SweepInv, Types, RunType, RowType, BackType, StopRecs,
     CountType, Terminal, vars, busVars, runVars, rowVars, backVars, histVars
<1> QED BY <1>1, <1>2, <1>3, <1>4, <1>5, <1>6, <1>7, <1>8, <1>9, <1>10, <1>11, <1>12,
   <1>13, <1>14, <1>15, <1>16, <1>17, <1>18, <1>19, <1>20, <1>21, Zenon DEF Next,
   Drive

-----------------------------------------------------------------------------
(* The stop of a tree: what was answered rests on a row that stays flagged.   *)

FlaggedIn(t) == \E r \in Runs : label[r] = t /\ flag[r]

StopInv ==
    /\ stopper.pc # "idle" \/ stopper.hit \/ stopper.todo # {} => stopper.root # 0
    /\ \A r \in stopper.todo : label[r] = stopper.root
    /\ stopper.hit => FlaggedIn(stopper.root)
    /\ \A t \in answered : t # 0 /\ FlaggedIn(t)

\* Labels are given once and stop requests are never withdrawn.
LEMMA FlagsStay ==
    ASSUME Types, EarlyInv, [Next]_vars, NEW t \in Trees \ {0}, FlaggedIn(t)
    PROVE  FlaggedIn(t)'
<1>1. PICK q \in Runs : label[q] = t /\ flag[q]
  BY Zenon DEF FlaggedIn
<1>2. label[q] # 0 /\ proc[q] # "starting"
  BY <1>1, SMT DEF EarlyInv
<1> SUFFICES label'[q] = t /\ flag'[q]
  BY Zenon DEF FlaggedIn
<1>3. CASE UNCHANGED <<label, flag>>
  BY <1>1, <1>3, Zenon
<1>4. ASSUME NEW r \in Runs, Bind(r) PROVE label'[q] = t /\ flag'[q]
  BY <1>1, <1>2, <1>4, SMT DEF Bind, At, Types, RowType
<1>5. ASSUME NEW r \in Runs, StopFlags(r) PROVE label'[q] = t /\ flag'[q]
  BY <1>1, <1>2, <1>5, SMT DEF StopFlags, Types, RowType

<1>6. ASSUME NEW m \in Msgs, NEW r \in Runs, Fetch(m, r) PROVE UNCHANGED <<label, flag>>
  BY <1>6, Zenon DEF Fetch, vars, busVars, runVars, rowVars, backVars, histVars
<1>7. ASSUME NEW r \in Runs, NEW m \in Msgs, Send(r, m) PROVE UNCHANGED <<label, flag>>
  BY <1>7, Zenon DEF Send, vars, busVars, runVars, rowVars, backVars, histVars
<1>8. ASSUME NEW r \in Runs, WatchFires(r) PROVE UNCHANGED <<label, flag>>
  BY <1>8, Zenon DEF WatchFires, vars, busVars, runVars, rowVars, backVars, histVars
<1>9. ASSUME NEW r \in Runs, Finalize(r) PROVE UNCHANGED <<label, flag>>
  BY <1>9, Zenon DEF Finalize, vars, busVars, runVars, rowVars, backVars, histVars
<1>10. ASSUME NEW r \in Runs, Ack(r) PROVE UNCHANGED <<label, flag>>
  BY <1>10, Zenon DEF Ack, vars, busVars, runVars, rowVars, backVars, histVars
<1>11. ASSUME NEW r \in Runs, NEW o \in Terminal, RunEnds(r, o) PROVE UNCHANGED <<label, flag>>
  BY <1>11, Zenon DEF RunEnds, vars, busVars, runVars, rowVars, backVars, histVars
<1>12. ASSUME NEW r \in Runs, Stall(r) PROVE UNCHANGED <<label, flag>>
  BY <1>12, Zenon DEF Stall, vars, busVars, runVars, rowVars, backVars, histVars
<1>13. ASSUME NEW r \in Runs, Beat(r) PROVE UNCHANGED <<label, flag>>
  BY <1>13, Zenon DEF Beat, vars, busVars, runVars, rowVars, backVars, histVars
<1>14. ASSUME NEW r \in Runs, GoesStale(r) PROVE UNCHANGED <<label, flag>>
  BY <1>14, Zenon DEF GoesStale, vars, busVars, runVars, rowVars, backVars, histVars
<1>15. ASSUME NEW r \in Runs, SweepWrites(r) PROVE UNCHANGED <<label, flag>>
  BY <1>15, Zenon DEF SweepWrites, vars, busVars, runVars, rowVars, backVars, histVars
<1>16. ASSUME NEW r \in Runs, StopReads(r) PROVE UNCHANGED <<label, flag>>
  BY <1>16, Zenon DEF StopReads, vars, busVars, runVars, rowVars, backVars, histVars
<1>17. ASSUME ChatStop PROVE UNCHANGED <<label, flag>>
  BY <1>17, Zenon DEF ChatStop, vars, busVars, runVars, rowVars, backVars, histVars
<1>18. ASSUME SweepReads PROVE UNCHANGED <<label, flag>>
  BY <1>18, Zenon DEF SweepReads, vars, busVars, runVars, rowVars, backVars, histVars
<1>19. ASSUME StopStamps PROVE UNCHANGED <<label, flag>>
  BY <1>19, Zenon DEF StopStamps, vars, busVars, runVars, rowVars, backVars, histVars
<1>20. ASSUME StopSelects PROVE UNCHANGED <<label, flag>>
  BY <1>20, Zenon DEF StopSelects, vars, busVars, runVars, rowVars, backVars, histVars
<1>21. ASSUME StopAnswers PROVE UNCHANGED <<label, flag>>
  BY <1>21, Zenon DEF StopAnswers, vars, busVars, runVars, rowVars, backVars, histVars
<1>22. ASSUME WorkersRestart PROVE UNCHANGED <<label, flag>>
  BY <1>22, Zenon DEF WorkersRestart, vars, busVars, runVars, rowVars, backVars,
     histVars
<1>23. ASSUME BackendRestart PROVE UNCHANGED <<label, flag>>
  BY <1>23, Zenon DEF BackendRestart, vars, busVars, runVars, rowVars, backVars,
     histVars
<1>24. ASSUME UNCHANGED vars PROVE UNCHANGED <<label, flag>>
  BY <1>24, Zenon DEF vars, busVars, runVars, rowVars, backVars, histVars
<1> QED BY <1>3, <1>4, <1>5, <1>6, <1>7, <1>8, <1>9, <1>10, <1>11, <1>12, <1>13,
   <1>14, <1>15, <1>16, <1>17, <1>18, <1>19, <1>20, <1>21, <1>22, <1>23, <1>24, Zenon DEF
   Next, Drive

LEMMA StopStep == Types /\ EarlyInv /\ StopInv /\ [Next]_vars => StopInv'
<1> SUFFICES ASSUME Types, EarlyInv, StopInv, [Next]_vars PROVE StopInv'
  OBVIOUS
<1>1. ASSUME NEW m \in Msgs, NEW r \in Runs, Fetch(m, r) PROVE StopInv'
  <2>1. UNCHANGED <<label, flag, stopper, answered>>
    BY <1>1, Zenon DEF Fetch, vars, busVars, runVars, rowVars, backVars, histVars
  <2> QED BY <2>1, Zenon DEF StopInv, FlaggedIn
<1>2. ASSUME NEW r \in Runs, NEW m \in Msgs, Send(r, m) PROVE StopInv'
  <2>1. UNCHANGED <<label, flag, stopper, answered>>
    BY <1>2, Zenon DEF Send, vars, busVars, runVars, rowVars, backVars, histVars
  <2> QED BY <2>1, Zenon DEF StopInv, FlaggedIn
<1>3. ASSUME NEW r \in Runs, Bind(r) PROVE StopInv'
  <2>1. UNCHANGED <<flag, stopper, answered>>
    BY <1>3, Zenon DEF Bind, vars, backVars, histVars
  <2>2. \A q \in stopper.todo : label'[q] = stopper.root
    BY <1>3, SMT DEF Bind, At, EarlyInv, StopInv, Types, RowType, BackType, StopRecs
  <2>3. answered \subseteq Trees /\ stopper.root \in Trees
    BY SMT DEF Types, CountType, BackType, StopRecs
  <2>4. stopper.hit => FlaggedIn(stopper.root)'
    BY <2>1, <2>3, FlagsStay, Zenon DEF StopInv
  <2>5. \A t \in answered : t # 0 /\ FlaggedIn(t)'
    BY <2>1, <2>3, FlagsStay, Zenon DEF StopInv
  <2> QED BY <2>1, <2>2, <2>4, <2>5, Zenon DEF StopInv, FlaggedIn
<1>4. ASSUME NEW r \in Runs, WatchFires(r) PROVE StopInv'
  <2>1. UNCHANGED <<label, flag, stopper, answered>>
    BY <1>4, Zenon DEF WatchFires, vars, busVars, runVars, rowVars, backVars, histVars
  <2> QED BY <2>1, Zenon DEF StopInv, FlaggedIn
<1>5. ASSUME NEW r \in Runs, Finalize(r) PROVE StopInv'
  <2>1. UNCHANGED <<label, flag, stopper, answered>>
    BY <1>5, Zenon DEF Finalize, vars, busVars, runVars, rowVars, backVars, histVars
  <2> QED BY <2>1, Zenon DEF StopInv, FlaggedIn
<1>6. ASSUME NEW r \in Runs, Ack(r) PROVE StopInv'
  <2>1. UNCHANGED <<label, flag, stopper, answered>>
    BY <1>6, Zenon DEF Ack, vars, busVars, runVars, rowVars, backVars, histVars
  <2> QED BY <2>1, Zenon DEF StopInv, FlaggedIn
<1>7. ASSUME NEW r \in Runs, NEW o \in Terminal, RunEnds(r, o) PROVE StopInv'
  <2>1. UNCHANGED <<label, flag, stopper, answered>>
    BY <1>7, Zenon DEF RunEnds, vars, busVars, runVars, rowVars, backVars, histVars
  <2> QED BY <2>1, Zenon DEF StopInv, FlaggedIn
<1>8. ASSUME NEW r \in Runs, Stall(r) PROVE StopInv'
  <2>1. UNCHANGED <<label, flag, stopper, answered>>
    BY <1>8, Zenon DEF Stall, vars, busVars, runVars, rowVars, backVars, histVars
  <2> QED BY <2>1, Zenon DEF StopInv, FlaggedIn
<1>9. ASSUME NEW r \in Runs, Beat(r) PROVE StopInv'
  <2>1. UNCHANGED <<label, flag, stopper, answered>>
    BY <1>9, Zenon DEF Beat, vars, busVars, runVars, rowVars, backVars, histVars
  <2> QED BY <2>1, Zenon DEF StopInv, FlaggedIn
<1>10. ASSUME NEW r \in Runs, GoesStale(r) PROVE StopInv'
  <2>1. UNCHANGED <<label, flag, stopper, answered>>
    BY <1>10, Zenon DEF GoesStale, vars, busVars, runVars, rowVars, backVars, histVars
  <2> QED BY <2>1, Zenon DEF StopInv, FlaggedIn
<1>11. ASSUME NEW r \in Runs, SweepWrites(r) PROVE StopInv'
  <2>1. UNCHANGED <<label, flag, stopper, answered>>
    BY <1>11, Zenon DEF SweepWrites, vars, busVars, runVars, rowVars, backVars, histVars
  <2> QED BY <2>1, Zenon DEF StopInv, FlaggedIn
<1>12. ASSUME NEW r \in Runs, StopReads(r) PROVE StopInv'
  <2>1. UNCHANGED <<label, flag, answered>>
    BY <1>12, Zenon DEF StopReads, vars, rowVars, histVars
  <2>2. /\ stopper'.root = label[r] /\ stopper'.todo = {} /\ ~stopper'.hit
    BY <1>12, SMT DEF StopReads, NoStop
  <2>3. label[r] # 0
    BY <1>12, SMT DEF StopReads, Types, RowType
  <2> QED BY <2>1, <2>2, <2>3, Zenon DEF StopInv, FlaggedIn
<1>13. ASSUME NEW r \in Runs, StopFlags(r) PROVE StopInv'
  <2>1. UNCHANGED <<label, answered>>
    BY <1>13, Zenon DEF StopFlags, histVars
  <2>2. /\ stopper'.root = stopper.root /\ stopper'.todo \subseteq stopper.todo
        /\ stopper'.hit => stopper.hit \/ flag'[r]
    <3>1. CASE /\ flag' = [flag EXCEPT ![r] = TRUE]
               /\ stopper' = [stopper EXCEPT !.todo = @ \ {r}, !.hit = TRUE]
      <4>1. flag'[r]
        BY <3>1, Zenon DEF Types, RowType
      <4> QED BY <3>1, <4>1, SMT DEF Types, BackType, StopRecs
    <3>2. CASE stopper' = [stopper EXCEPT !.todo = @ \ {r}]
      BY <3>2, SMT DEF Types, BackType, StopRecs
    <3> QED BY <1>13, <3>1, <3>2, Zenon DEF StopFlags
  <2>3. answered \subseteq Trees /\ stopper.root \in Trees /\ stopper.root # 0
        /\ label[r] = stopper.root
    BY <1>13, SMT DEF StopFlags, StopInv, Types, CountType, BackType, StopRecs
  <2>4. PICK u \in Trees \ {0} : u = stopper.root
    BY <2>3, Zenon
  <2>5. /\ stopper.hit => FlaggedIn(u)'
        /\ flag'[r] => FlaggedIn(u)'
    <3>1. stopper.hit => FlaggedIn(u)'
      BY <2>4, FlagsStay, Zenon DEF StopInv
    <3>2. flag'[r] => FlaggedIn(u)'
      BY <2>1, <2>3, <2>4, Zenon DEF FlaggedIn
    <3> QED BY <3>1, <3>2
  <2>6. \A t \in answered : t # 0 /\ FlaggedIn(t)'
    <3> SUFFICES ASSUME NEW t \in answered PROVE t # 0 /\ FlaggedIn(t)'
      OBVIOUS
    <3>1. t \in Trees \ {0} /\ FlaggedIn(t)
      BY <2>3, Zenon DEF StopInv
    <3> QED BY <3>1, FlagsStay, Zenon
  <2>7. stopper'.hit => FlaggedIn(stopper.root)'
    BY <2>2, <2>4, <2>5, Zenon DEF FlaggedIn
  <2> QED BY <2>1, <2>2, <2>3, <2>6, <2>7, Zenon DEF StopInv, FlaggedIn
<1>14. CASE ChatStop
  <2>1. UNCHANGED <<label, flag, stopper, answered>>
    BY <1>14, Zenon DEF ChatStop, vars, busVars, runVars, rowVars, backVars, histVars
  <2> QED BY <2>1, Zenon DEF StopInv, FlaggedIn
<1>15. CASE SweepReads
  <2>1. UNCHANGED <<label, flag, stopper, answered>>
    BY <1>15, Zenon DEF SweepReads, vars, busVars, runVars, rowVars, backVars, histVars
  <2> QED BY <2>1, Zenon DEF StopInv, FlaggedIn
<1>16. CASE StopStamps
  <2>1. UNCHANGED <<label, flag, answered>>
    BY <1>16, Zenon DEF StopStamps, rowVars, histVars
  <2>2. /\ stopper'.root = stopper.root /\ stopper'.todo = stopper.todo
        /\ stopper'.hit = stopper.hit /\ stopper.root # 0
    BY <1>16, SMT DEF StopStamps, Types, BackType, StopRecs, StopInv
  <2> QED BY <2>1, <2>2, Zenon DEF StopInv, FlaggedIn
<1>17. CASE StopSelects
  <2>1. UNCHANGED <<label, flag, answered>>
    BY <1>17, Zenon DEF StopSelects, vars, rowVars, histVars
  <2>2. /\ stopper'.root = stopper.root
        /\ \A q \in stopper'.todo : label[q] = stopper.root
        /\ stopper'.hit => \E q \in Runs : label[q] = stopper.root /\ flag[q]
    BY <1>17, SMT DEF StopSelects, Types, BackType, StopRecs
  <2>3. stopper.root # 0
    BY <1>17, SMT DEF StopSelects, StopInv
  <2> QED BY <2>1, <2>2, <2>3, Zenon DEF StopInv, FlaggedIn
<1>18. CASE StopAnswers
  <2>1. UNCHANGED <<label, flag>>
    BY <1>18, Zenon DEF StopAnswers, rowVars
  <2>2. stopper'.pc = "idle" /\ ~stopper'.hit /\ stopper'.todo = {}
    BY <1>18, SMT DEF StopAnswers, NoStop
  <2>3. answered' = answered \/ (stopper.hit /\ answered' = answered \cup {stopper.root})
    BY <1>18, Zenon DEF StopAnswers
  <2>4. stopper.root # 0
    BY <1>18, SMT DEF StopAnswers, StopInv
  <2> QED BY <2>1, <2>2, <2>3, <2>4, Zenon DEF StopInv, FlaggedIn
<1>19. CASE WorkersRestart
  <2>1. UNCHANGED <<label, flag, stopper, answered>>
    BY <1>19, Zenon DEF WorkersRestart, vars, busVars, runVars, rowVars, backVars, histVars
  <2> QED BY <2>1, Zenon DEF StopInv, FlaggedIn
<1>20. CASE BackendRestart
  <2>1. UNCHANGED <<label, flag, answered>>
    BY <1>20, Zenon DEF BackendRestart, rowVars, histVars
  <2>2. stopper'.pc = "idle" /\ ~stopper'.hit /\ stopper'.todo = {}
    BY <1>20, SMT DEF BackendRestart, NoStop
  <2> QED BY <2>1, <2>2, Zenon DEF StopInv, FlaggedIn
<1>21. CASE UNCHANGED vars
  <2>1. UNCHANGED <<label, flag, stopper, answered>>
    BY <1>21, Zenon DEF vars, busVars, runVars, rowVars, backVars, histVars
  <2> QED BY <2>1, Zenon DEF StopInv, FlaggedIn
<1> QED BY <1>1, <1>2, <1>3, <1>4, <1>5, <1>6, <1>7, <1>8, <1>9, <1>10, <1>11, <1>12,
   <1>13, <1>14, <1>15, <1>16, <1>17, <1>18, <1>19, <1>20, <1>21, Zenon DEF Next,
   Drive

-----------------------------------------------------------------------------
(* Messages in flight, and the reach of a stop.                             *)

\* A message is in flight exactly while a run carries it, and one run at most does; a
\* chat run carries none.
FlightInv ==
    /\ \A m \in Msgs : msg[m] = "flight" => \E r \in Runs : Carries(r, m)
    /\ \A m \in Msgs, r \in Runs : Carries(r, m) => msg[m] = "flight"
    /\ \A m \in Msgs, q, r \in Runs : Carries(q, m) /\ Carries(r, m) => q = r
    /\ \A r \in Runs : IsChat(r) => woke[r] = 0 /\ proc[r] # "none"
    /\ \A r \in Runs : proc[r] \in Driven /\ ~IsChat(r) => woke[r] \in Msgs

\* A run that stays driven, with its message, changes nothing for the others.
LEMMA FlightFrame ==
    ASSUME FlightInv, UNCHANGED <<chat, msg, woke>>,
           \A r \in Runs : /\ proc'[r] \in Driven <=> proc[r] \in Driven
                           /\ proc'[r] = "none" => proc[r] = "none"
    PROVE  FlightInv'
<1>1. \A r \in Runs, m \in Msgs : Carries(r, m)' <=> Carries(r, m)
  BY Zenon DEF Carries
<1> QED BY <1>1, SMT DEF FlightInv, IsChat

LEMMA FlightStep == Types /\ FlightInv /\ [Next]_vars => FlightInv'
<1> SUFFICES ASSUME Types, FlightInv, [Next]_vars PROVE FlightInv'
  OBVIOUS
<1>0. /\ proc \in [Runs -> Driven \cup {"none", "over", "dead"}]
      /\ msg \in [Msgs -> {"none", "pending", "flight", "done"}]
      /\ woke \in [Runs -> 0 .. MaxMsgs]
      /\ 0 \notin Msgs
  BY SMT DEF Types, RunType, BusType, Msgs
<1>1. CASE UNCHANGED <<chat, msg, woke, proc>>
  BY <1>1, FlightFrame, Zenon
<1>2. ASSUME NEW r \in Runs, NEW m \in Msgs, Fetch(m, r) PROVE FlightInv'
  <2>1. /\ msg[m] = "pending" /\ proc[r] = "none" /\ ~IsChat(r) /\ chat' = chat
        /\ msg' = [msg EXCEPT ![m] = "flight"] /\ woke' = [woke EXCEPT ![r] = m]
        /\ proc' = [proc EXCEPT ![r] = "starting"]
    BY <1>2, Zenon DEF Fetch, At, Goto, FlightInv
  <2>2. \A q \in Runs, n \in Msgs : Carries(q, n)' <=> IF q = r THEN n = m ELSE Carries(q, n)
    BY <1>0, <2>1, SMT DEF Carries, Driven
  <2>3. \A q \in Runs : ~Carries(q, m)
    BY <2>1, SMT DEF FlightInv
  <2>4. \A n \in Msgs : msg'[n] = IF n = m THEN "flight" ELSE msg[n]
    BY <1>0, <2>1, SMT
  <2>5. /\ woke'[r] = m /\ proc'[r] = "starting"
        /\ \A q \in Runs \ {r} : woke'[q] = woke[q] /\ proc'[q] = proc[q]
    BY <1>0, <2>1, SMT
  <2>6. \A q \in Runs : IsChat(q)' <=> IsChat(q)
    BY <2>1, Zenon DEF IsChat
  <2>7. \A n \in Msgs : msg'[n] = "flight" => \E q \in Runs : Carries(q, n)'
    <3> SUFFICES ASSUME NEW n \in Msgs, msg'[n] = "flight" PROVE \E q \in Runs : Carries(q, n)'
      OBVIOUS
    <3>1. CASE n = m
      BY <2>2, <3>1, Zenon
    <3>2. CASE n # m
      <4>1. PICK q \in Runs : Carries(q, n)
        BY <2>4, <3>2, Zenon DEF FlightInv
      <4>2. q # r
        BY <2>1, <4>1, SMT DEF Carries, Driven
      <4> QED BY <2>2, <4>1, <4>2, Zenon
    <3> QED BY <3>1, <3>2
  <2>8. \A n \in Msgs, q \in Runs : Carries(q, n)' => msg'[n] = "flight"
    BY <2>2, <2>4, Zenon DEF FlightInv
  <2>9. \A n \in Msgs, q, p \in Runs : Carries(q, n)' /\ Carries(p, n)' => q = p
    BY <2>2, <2>3, Zenon DEF FlightInv
  <2>10. /\ \A q \in Runs : IsChat(q)' => woke'[q] = 0 /\ proc'[q] # "none"
         /\ \A q \in Runs : proc'[q] \in Driven /\ ~IsChat(q)' => woke'[q] \in Msgs
    <3> SUFFICES ASSUME NEW q \in Runs
                 PROVE  /\ IsChat(q)' => woke'[q] = 0 /\ proc'[q] # "none"
                        /\ proc'[q] \in Driven /\ ~IsChat(q)' => woke'[q] \in Msgs
      OBVIOUS
    <3>1. CASE q = r
      BY <2>1, <2>5, <2>6, <3>1, Zenon
    <3>2. CASE q # r
      BY <2>5, <2>6, <3>2, Zenon DEF FlightInv
    <3> QED BY <3>1, <3>2
  <2> QED BY <2>7, <2>8, <2>9, <2>10, Zenon DEF FlightInv
<1>3. ASSUME NEW r \in Runs, NEW m \in Msgs, Send(r, m) PROVE FlightInv'
  BY <1>0, <1>3, SMT DEF FlightInv, Carries, IsChat, Send, runVars
<1>4. ASSUME NEW r \in Runs, Bind(r) PROVE FlightInv'
  BY <1>0, <1>4, FlightFrame, SMT DEF Bind, At, Goto, Driven, busVars
<1>5. ASSUME NEW r \in Runs, NEW o \in Terminal, RunEnds(r, o) PROVE FlightInv'
  BY <1>0, <1>5, FlightFrame, SMT DEF RunEnds, At, Goto, Driven, busVars
<1>6. ASSUME NEW r \in Runs, Finalize(r) PROVE FlightInv'
  <2>1. CASE ~IsChat(r)
    BY <1>0, <1>6, <2>1, FlightFrame, SMT DEF Finalize, At, Goto, Driven, busVars
  <2>2. CASE IsChat(r)
    <3>1. /\ woke[r] = 0 /\ UNCHANGED <<chat, msg, woke>>
          /\ proc' = [proc EXCEPT ![r] = "over"]
      BY <1>6, <2>2, Zenon DEF Finalize, Goto, FlightInv, busVars
    <3>2. \A q \in Runs, n \in Msgs : Carries(q, n)' <=> Carries(q, n)
      BY <1>0, <3>1, SMT DEF Carries, Driven
    <3> QED BY <1>0, <2>2, <3>1, <3>2, SMT DEF FlightInv, IsChat, Driven
  <2> QED BY <2>1, <2>2
<1>7. ASSUME NEW r \in Runs, Ack(r) PROVE FlightInv'
  <2>1. /\ proc[r] = "acking" /\ UNCHANGED <<chat, woke>>
        /\ proc' = [proc EXCEPT ![r] = "over"]
        /\ \E v \in {"done", "pending"} : msg' = [msg EXCEPT ![woke[r]] = v]
    BY <1>7, Zenon DEF Ack, At, Goto
  <2>2. \A q \in Runs, n \in Msgs : Carries(q, n)' <=> q # r /\ Carries(q, n)
    BY <1>0, <2>1, SMT DEF Carries, Driven
  <2>3. \A n \in Msgs : msg'[n] = "flight" <=> msg[n] = "flight" /\ n # woke[r]
    BY <1>0, <2>1, SMT
  <2>4. \A n \in Msgs : n = woke[r] => Carries(r, n)
    BY <2>1, SMT DEF Carries, Driven
  <2> QED BY <1>0, <2>1, <2>2, <2>3, <2>4, SMT DEF FlightInv, IsChat, Driven, Carries
<1>8. CASE WorkersRestart
  <2>1. /\ UNCHANGED <<chat, woke>> /\ msg' = Requeued
        /\ \A q \in Runs : proc'[q] = IF proc[q] \in Driven /\ ~IsChat(q) THEN "dead"
                                      ELSE proc[q]
    BY <1>8, SMT DEF WorkersRestart
  <2>2. \A q \in Runs, n \in Msgs : ~Carries(q, n)'
    BY <1>0, <2>1, SMT DEF Carries, Driven, FlightInv
  <2>3. \A n \in Msgs : msg'[n] # "flight"
    BY <2>1, SMT DEF Requeued
  <2> QED BY <2>1, <2>2, <2>3, SMT DEF FlightInv, IsChat, Driven
<1>9. CASE BackendRestart
  <2>1. /\ UNCHANGED <<chat, woke, msg>>
        /\ \A q \in Runs : proc'[q] = IF proc[q] \in Driven /\ IsChat(q) THEN "dead"
                                      ELSE proc[q]
    BY <1>9, SMT DEF BackendRestart, busVars
  <2>2. \A q \in Runs, n \in Msgs : Carries(q, n)' <=> Carries(q, n)
    BY <1>0, <2>1, SMT DEF Carries, Driven, FlightInv
  <2> QED BY <2>1, <2>2, SMT DEF FlightInv, IsChat, Driven
<1> QED
  BY <1>1, <1>2, <1>3, <1>4, <1>5, <1>6, <1>7, <1>8, <1>9, Zenon DEF Next, Drive, WatchFires,
     Stall, Beat, GoesStale, SweepWrites, StopReads, StopFlags, ChatStop, SweepReads,
     StopStamps, StopSelects, StopAnswers, busVars, runVars, vars

\* A live run of the bus is watched or was reached, and a token is set on request only.
WatchInv ==
    /\ \A r \in Runs : At(r, "alive") /\ ~IsChat(r) => watched[r] \/ token[r]
    /\ \A r \in Runs : token[r] => flag[r] \/ IsChat(r)

\* A run whose stamp is too old started while a stop of its tree was between its stamp
\* and its select: such a stop knows every other run it will flag.
RaceInv ==
    /\ void \subseteq raced
    /\ stopper.pc # "flagging" => stopper.todo = {}
    /\ \A r \in stopper.todo : ~flag[r] /\ (r \in stopper.seen \/ r \in raced)
    /\ stopper.pc = "stamped" =>
          \A r \in Runs : label[r] = stopper.root /\ state[r] = "running" =>
              r \in stopper.seen \/ r \in raced

LEMMA WatchStep == Types /\ WatchInv /\ [Next]_vars => WatchInv'
<1> SUFFICES ASSUME Types, WatchInv, [Next]_vars PROVE WatchInv'
  OBVIOUS
<1>0. RunType /\ RowType
  BY DEF Types
<1>1. CASE UNCHANGED <<chat, proc, token, watched, flag>>
  BY <1>1, Zenon DEF WatchInv, At, IsChat
<1>2. ASSUME NEW r \in Runs, NEW m \in Msgs, Fetch(m, r) PROVE WatchInv'
  BY <1>0, <1>2, SMT DEF RunType, WatchInv, Fetch, At, Goto, IsChat, rowVars
<1>3. ASSUME NEW r \in Runs, Bind(r) PROVE WatchInv'
  <2>1. /\ proc' = [proc EXCEPT ![r] = "alive"] /\ UNCHANGED <<chat, token, flag>>
        /\ watched' = [watched EXCEPT ![r] = Registered(r)]
    BY <1>3, Zenon DEF Bind, Goto
  <2>2. \A q \in Runs : q # r => proc'[q] = proc[q] /\ watched'[q] = watched[q]
    BY <1>0, <2>1, SMT DEF RunType
  <2>3. watched'[r] = Registered(r)
    BY <1>0, <2>1, Zenon DEF RunType
  <2> QED BY <2>1, <2>2, <2>3, Zenon DEF WatchInv, At, IsChat, Registered
<1>4. ASSUME NEW r \in Runs, WatchFires(r) PROVE WatchInv'
  BY <1>0, <1>4, SMT DEF RunType, WatchInv, WatchFires, StopApplies, At, IsChat, rowVars
<1>5. CASE ChatStop
  BY <1>0, <1>5, RunOne, SMT DEF RunType, WatchInv, ChatStop, At, IsChat, rowVars
<1>6. ASSUME NEW r \in Runs, NEW o \in Terminal, RunEnds(r, o) PROVE WatchInv'
  BY <1>0, <1>6, SMT DEF RunType, WatchInv, RunEnds, At, Goto, IsChat, rowVars
<1>7. ASSUME NEW r \in Runs, Finalize(r) \/ Ack(r) PROVE WatchInv'
  BY <1>0, <1>7, SMT DEF RunType, WatchInv, Finalize, Ack, At, Goto, IsChat, rowVars
<1>8. CASE WorkersRestart
  BY <1>0, <1>8, SMT DEF RunType, WatchInv, WorkersRestart, Driven, At, IsChat, rowVars
<1>9. CASE BackendRestart
  BY <1>0, <1>9, SMT DEF RunType, WatchInv, BackendRestart, Driven, At, IsChat, rowVars
<1>10. ASSUME NEW r \in Runs, StopFlags(r) PROVE WatchInv'
  BY <1>0, <1>10, SMT DEF RowType, WatchInv, StopFlags, At, IsChat, runVars
<1> QED
  BY <1>1, <1>2, <1>3, <1>4, <1>5, <1>6, <1>7, <1>8, <1>9, <1>10, Zenon DEF Next, Drive,
     Send, Stall, Beat, GoesStale, SweepWrites, StopReads, SweepReads, StopStamps,
     StopSelects, StopAnswers, busVars, runVars, rowVars, vars

\* Whatever starts no run and leaves the stop under way alone.
LEMMA RaceFrame ==
    ASSUME RaceInv, UNCHANGED <<stopper, label, flag, void, raced>>,
           \A r \in Runs : state'[r] = "running" => state[r] = "running"
    PROVE  RaceInv'
BY Zenon DEF RaceInv

LEMMA RaceStep == Types /\ EarlyInv /\ RaceInv /\ [Next]_vars => RaceInv'
<1> SUFFICES ASSUME Types, EarlyInv, RaceInv, [Next]_vars PROVE RaceInv'
  OBVIOUS
<1>0. RowType /\ stopper \in StopRecs /\ EarlyInv
  BY Zenon DEF Types, BackType
<1>1. CASE UNCHANGED <<stopper, raced, rowVars>>
  BY <1>1, RaceFrame, Zenon DEF rowVars
<1>2. ASSUME NEW r \in Runs, Bind(r) PROVE RaceInv'
  <2>1. CASE /\ Put(r, "running") /\ label' = [label EXCEPT ![r] = Stamped(r)]
             /\ raced' = IF stopper.pc = "stamped" /\ stopper.root = Stamped(r)
                         THEN raced \cup {r} ELSE raced
    <3>1. /\ UNCHANGED <<stopper, flag, void>> /\ raced \subseteq raced'
          /\ stopper.pc = "stamped" /\ stopper.root = Stamped(r) => r \in raced'
      BY <1>2, <2>1, Zenon DEF Bind, backVars
    <3>2. /\ label'[r] = Stamped(r)
          /\ \A q \in Runs : q # r => label'[q] = label[q] /\ state'[q] = state[q]
      BY <1>0, <2>1, Zenon DEF Put, RowType
    <3> QED BY <3>1, <3>2, Zenon DEF RaceInv
  <2>2. CASE UNCHANGED <<state, label, raced>>
    BY <1>2, <2>2, RaceFrame, Zenon DEF Bind, backVars
  <2> QED BY <1>2, <2>1, <2>2, Zenon DEF Bind
<1>3. ASSUME NEW r \in Runs, Finalize(r) PROVE RaceInv'
  <2>1. \A q \in Runs : state'[q] = "running" => state[q] = "running"
    BY <1>0, <1>3, SMT DEF Finalize, At, Put, RowType, EarlyInv, Terminal
  <2> QED BY <1>3, <2>1, RaceFrame, Zenon DEF Finalize, backVars
<1>4. ASSUME NEW r \in Runs, Stall(r) \/ Beat(r) \/ GoesStale(r) PROVE RaceInv'
  BY <1>4, RaceFrame, Zenon DEF Stall, Beat, GoesStale, backVars, histVars
<1>5. ASSUME NEW r \in Runs, SweepWrites(r) PROVE RaceInv'
  <2>1. \A q \in Runs : state'[q] = "running" => state[q] = "running"
    BY <1>0, <1>5, SMT DEF SweepWrites, Put, RowType
  <2> QED BY <1>5, <2>1, RaceFrame, Zenon DEF SweepWrites, histVars
<1>6. ASSUME NEW r \in Runs, StopReads(r) PROVE RaceInv'
  <2>1. stopper'.pc = "read" /\ stopper'.todo = {} /\ UNCHANGED <<void, raced>>
    BY <1>6, SMT DEF StopReads, NoStop, rowVars, histVars
  <2> QED BY <2>1, SMT DEF RaceInv
<1>7. CASE StopStamps
  <2>1. /\ stopper'.todo = {} /\ stopper'.seen = Started
        /\ UNCHANGED <<state, label, flag, void, raced>>
    BY <1>0, <1>7, SMT DEF StopStamps, StopRecs, RaceInv, rowVars, histVars
  <2>2. \A r \in Runs : state[r] = "running" => r \in Started
    BY <1>0, SMT DEF Started, At, EarlyInv
  <2> QED BY <2>1, <2>2, Zenon DEF RaceInv
<1>8. CASE StopSelects
  <2>1. /\ stopper.pc = "stamped" /\ stopper'.pc = "flagging" /\ stopper'.seen = stopper.seen
        /\ stopper'.todo = {r \in Runs : /\ label[r] = stopper.root /\ state[r] = "running"
                                        /\ ~flag[r]}
        /\ UNCHANGED <<flag, void, raced>>
    BY <1>0, <1>8, SMT DEF StopSelects, StopRecs, rowVars, histVars
  <2> QED BY <2>1, SMT DEF RaceInv
<1>9. ASSUME NEW r \in Runs, StopFlags(r) PROVE RaceInv'
  <2>1. /\ r \in stopper.todo /\ UNCHANGED <<state, label, raced>>
        /\ \/ void' = IF r \in stopper.seen THEN void ELSE void \cup {r}
           \/ void' = void
        /\ flag' = [flag EXCEPT ![r] = TRUE] \/ flag' = flag
    BY <1>9, Zenon DEF StopFlags, histVars
  <2>2. /\ stopper'.todo = stopper.todo \ {r} /\ stopper'.seen = stopper.seen
        /\ stopper'.pc = stopper.pc /\ stopper'.root = stopper.root
    <3>1. \/ stopper' = [stopper EXCEPT !.todo = @ \ {r}, !.hit = TRUE]
          \/ stopper' = [stopper EXCEPT !.todo = @ \ {r}]
      BY <1>9, Zenon DEF StopFlags
    <3>2. CASE stopper' = [stopper EXCEPT !.todo = @ \ {r}, !.hit = TRUE]
      BY <1>0, <3>2, Zenon DEF StopRecs
    <3>3. CASE stopper' = [stopper EXCEPT !.todo = @ \ {r}]
      BY <1>0, <3>3, Zenon DEF StopRecs
    <3> QED BY <3>1, <3>2, <3>3
  <2>3. \A q \in Runs \ {r} : flag'[q] = flag[q]
    BY <1>0, <2>1, Zenon DEF RowType
  <2>4. stopper.todo \subseteq Runs
    BY <1>0, SMT DEF StopRecs
  <2>5. void' \subseteq raced
    BY <2>1, SMT DEF RaceInv
  <2>6. \A q \in stopper'.todo :
           ~flag'[q] /\ (q \in stopper'.seen \/ q \in raced)
    BY <2>2, <2>3, <2>4, SMT DEF RaceInv
  <2> QED BY <2>1, <2>2, <2>5, <2>6, SMT DEF RaceInv
<1>10. CASE StopAnswers \/ BackendRestart
  <2>1. stopper' = NoStop /\ UNCHANGED <<void, raced>>
    BY <1>10, Zenon DEF StopAnswers, BackendRestart, rowVars, histVars
  <2> QED BY <2>1, SMT DEF RaceInv, NoStop
<1> QED
  BY <1>1, <1>2, <1>3, <1>4, <1>5, <1>6, <1>7, <1>8, <1>9, <1>10, Zenon DEF Next, Drive,
     Fetch, Send, WatchFires, RunEnds, Ack, ChatStop, SweepReads, WorkersRestart, backVars,
     histVars, vars

-----------------------------------------------------------------------------
(* The theorems.                                                             *)

\* The inductive invariant of a tree.
TreeInv == Types /\ EarlyInv /\ BeatInv /\ RowInv /\ SweepInv /\ StopInv
           /\ FlightInv /\ WatchInv /\ RaceInv

LEMMA Initially == Init => TreeInv
<1> SUFFICES ASSUME Init PROVE TreeInv
  OBVIOUS
<1>1. BusType /\ RunType /\ RowType /\ CountType
  BY TreeAssumption, SMT DEF Init, BusType, RunType, RowType, CountType, Driven, Terminal, Trees
<1>2. BackType
  BY TreeAssumption, SMT DEF Init, BackType, StopRecs, NoStop, NoSweep, Trees
<1>3. EarlyInv /\ BeatInv /\ RowInv
  BY SMT DEF Init, EarlyInv, BeatInv, RowInv
<1>4. SweepInv /\ StopInv
  BY SMT DEF Init, SweepInv, StopInv, NoStop, NoSweep
<1>5. FlightInv
  <2>1. \A r \in Runs, m \in Msgs : ~Carries(r, m)
    BY SMT DEF Init, Carries, Driven, Msgs
  <2>2. \A r \in Runs : proc[r] \in Driven => IsChat(r)
    BY SMT DEF Init, IsChat, Driven
  <2> QED BY <2>1, <2>2, SMT DEF Init, FlightInv, IsChat
<1>6. WatchInv /\ RaceInv
  BY SMT DEF Init, WatchInv, RaceInv, At, NoStop
<1> QED BY <1>1, <1>2, <1>3, <1>4, <1>5, <1>6, Zenon DEF TreeInv, Types

LEMMA TreeStep == TreeInv /\ [Next]_vars => TreeInv'
<1> SUFFICES ASSUME TreeInv, [Next]_vars PROVE TreeInv'
  OBVIOUS
<1>1. Types'
  BY BusStep, RunStep, RowStep, BackStep, CountStep, Zenon DEF TreeInv, Types
<1>2. EarlyInv' /\ BeatInv' /\ RowInv' /\ SweepInv' /\ StopInv'
  BY EarlyStep, BeatStep, VerdictStep, SweepStep, StopStep, Zenon DEF TreeInv
<1>3. FlightInv' /\ WatchInv' /\ RaceInv'
  BY FlightStep, WatchStep, RaceStep, Zenon DEF TreeInv
<1> QED BY <1>1, <1>2, <1>3, Zenon DEF TreeInv

THEOREM TreeInductive == Spec => []TreeInv
BY Initially, TreeStep, PTL DEF Spec

\* Types, and a running row carries the label a stop of its tree selects it by.
THEOREM TypeCorrect == Spec => []TypeOK
<1>1. TreeInv => TypeOK
  <2> SUFFICES ASSUME TreeInv PROVE TypeOK
    OBVIOUS
  <2>1. BusType /\ RunType /\ RowType /\ BackType /\ CountType
    BY Zenon DEF TreeInv, Types
  <2>2. /\ stopper.pc \in {"idle", "read", "stamped", "flagging"} /\ stopper.root \in Trees
        /\ stopper.seen \subseteq Runs /\ stopper.todo \subseteq Runs /\ stopper.hit \in BOOLEAN
        /\ sweep.fail \subseteq Runs /\ sweep.cancel \subseteq Runs
    BY <2>1, SMT DEF BackType, StopRecs
  <2> QED BY <2>1, <2>2, Zenon DEF TypeOK, BusType, RunType, RowType, CountType
<1> QED BY <1>1, TreeInductive, PTL

\* The sweep settles the dead only, and the row of a run that ended tells the truth.
THEOREM VerdictsTrue == Spec => []VerdictStands
<1>1. TreeInv => VerdictStands
  BY SMT DEF TreeInv, Types, RunType, RowType, RowInv, VerdictStands, Terminal
<1> QED BY <1>1, TreeInductive, PTL

\* A message in flight is with one run, and that run is still driven.
THEOREM FlightsDriven == Spec => []FlightIsDriven
<1>1. TreeInv => FlightIsDriven
  BY Zenon DEF TreeInv, FlightInv, FlightIsDriven
<1> QED BY <1>1, TreeInductive, PTL

\* Only a run that started between the stamp of a stop of its tree and its select can be
\* out of the reach of a stop.
THEOREM RunsReachable == Spec => []StopReachable
<1>1. TreeInv => StopReachable
  BY Zenon DEF TreeInv, WatchInv, RaceInv, StopReachable
<1> QED BY <1>1, TreeInductive, PTL

\* A tree whose stop was answered with a row flagged wakes no further run.
THEOREM StoppedTreesStay == Spec => TreeStaysStopped
<1>1. TreeInv /\ [Next]_vars =>
        [\A m \in Msgs :
            msg[m] = "pending" /\ msg'[m] = "flight" => lab[m] \notin answered]_vars
  <2> SUFFICES ASSUME TreeInv, [Next]_vars, NEW m \in Msgs,
                      msg[m] = "pending", msg'[m] = "flight"
               PROVE  lab[m] \notin answered
    OBVIOUS
  <2>1. ASSUME NEW n \in Msgs, NEW r \in Runs, Fetch(n, r) PROVE lab[m] \notin answered
    <3>1. n = m
      BY <2>1, SMT DEF Fetch, TreeInv, Types, BusType
    <3>2. ~TreeStopped(lab[m])
      BY <2>1, <3>1, Zenon DEF Fetch
    <3> QED BY <3>2, Zenon DEF TreeStopped, TreeInv, StopInv, FlaggedIn
  <2>2. ASSUME NEW r \in Runs, NEW n \in Msgs, Send(r, n) PROVE FALSE
    BY <2>2, SMT DEF Send, vars, busVars, runVars, rowVars, backVars, histVars,
       TreeInv, Types, BusType
  <2>3. ASSUME NEW r \in Runs, Bind(r) PROVE FALSE
    BY <2>3, SMT DEF Bind, vars, busVars, runVars, rowVars, backVars, histVars,
       TreeInv, Types, BusType
  <2>4. ASSUME NEW r \in Runs, WatchFires(r) PROVE FALSE
    BY <2>4, SMT DEF WatchFires, vars, busVars, runVars, rowVars, backVars, histVars,
       TreeInv, Types, BusType
  <2>5. ASSUME NEW r \in Runs, Finalize(r) PROVE FALSE
    BY <2>5, SMT DEF Finalize, vars, busVars, runVars, rowVars, backVars, histVars,
       TreeInv, Types, BusType
  <2>6. ASSUME NEW r \in Runs, Ack(r) PROVE FALSE
    BY <2>6, SMT DEF Ack, vars, busVars, runVars, rowVars, backVars, histVars,
       TreeInv, Types, BusType
  <2>7. ASSUME NEW r \in Runs, NEW o \in Terminal, RunEnds(r, o) PROVE FALSE
    BY <2>7, SMT DEF RunEnds, vars, busVars, runVars, rowVars, backVars, histVars,
       TreeInv, Types, BusType
  <2>8. ASSUME NEW r \in Runs, Stall(r) PROVE FALSE
    BY <2>8, SMT DEF Stall, vars, busVars, runVars, rowVars, backVars, histVars,
       TreeInv, Types, BusType
  <2>9. ASSUME NEW r \in Runs, Beat(r) PROVE FALSE
    BY <2>9, SMT DEF Beat, vars, busVars, runVars, rowVars, backVars, histVars,
       TreeInv, Types, BusType
  <2>10. ASSUME NEW r \in Runs, GoesStale(r) PROVE FALSE
    BY <2>10, SMT DEF GoesStale, vars, busVars, runVars, rowVars, backVars, histVars,
       TreeInv, Types, BusType
  <2>11. ASSUME NEW r \in Runs, SweepWrites(r) PROVE FALSE
    BY <2>11, SMT DEF SweepWrites, vars, busVars, runVars, rowVars, backVars,
       histVars, TreeInv, Types, BusType
  <2>12. ASSUME NEW r \in Runs, StopReads(r) PROVE FALSE
    BY <2>12, SMT DEF StopReads, vars, busVars, runVars, rowVars, backVars, histVars,
       TreeInv, Types, BusType
  <2>13. ASSUME NEW r \in Runs, StopFlags(r) PROVE FALSE
    BY <2>13, SMT DEF StopFlags, vars, busVars, runVars, rowVars, backVars, histVars,
       TreeInv, Types, BusType
  <2>14. CASE ChatStop
    BY <2>14, SMT DEF ChatStop, vars, busVars, runVars, rowVars, backVars, histVars,
       TreeInv, Types, BusType
  <2>15. CASE SweepReads
    BY <2>15, SMT DEF SweepReads, vars, busVars, runVars, rowVars, backVars, histVars,
       TreeInv, Types, BusType
  <2>16. CASE StopStamps
    BY <2>16, SMT DEF StopStamps, vars, busVars, runVars, rowVars, backVars,
       histVars, TreeInv, Types, BusType
  <2>17. CASE StopSelects
    BY <2>17, SMT DEF StopSelects, vars, busVars, runVars, rowVars, backVars,
       histVars, TreeInv, Types, BusType
  <2>18. CASE StopAnswers
    BY <2>18, SMT DEF StopAnswers, vars, busVars, runVars, rowVars, backVars,
       histVars, TreeInv, Types, BusType
  <2>19. CASE WorkersRestart
    BY <2>19, SMT DEF WorkersRestart, Requeued, vars, busVars, runVars, rowVars, backVars,
       histVars, TreeInv, Types, BusType
  <2>20. CASE BackendRestart
    BY <2>20, SMT DEF BackendRestart, vars, busVars, runVars, rowVars, backVars,
       histVars, TreeInv, Types, BusType
  <2>21. CASE UNCHANGED vars
    BY <2>21, SMT DEF vars, busVars, runVars, rowVars, backVars, histVars, TreeInv,
       Types, BusType
  <2> QED BY <2>1, <2>2, <2>3, <2>4, <2>5, <2>6, <2>7, <2>8, <2>9, <2>10, <2>11,
     <2>12, <2>13, <2>14, <2>15, <2>16, <2>17, <2>18, <2>19, <2>20, <2>21,
     Zenon DEF Next, Drive
<1> QED BY <1>1, TreeInductive, PTL DEF Spec, TreeStaysStopped

-----------------------------------------------------------------------------
(* The rows implement RunLife.                                                *)

LifeDefs == <<state, flag, token, chat, void, stalled>>

LEMMA MapStutter == UNCHANGED LifeDefs => UNCHANGED Life!lifeVars
<1> SUFFICES ASSUME UNCHANGED LifeDefs PROVE UNCHANGED Life!lifeVars
  OBVIOUS
<1>1. state' = state /\ flag' = flag /\ token' = token /\ chat' = chat
      /\ void' = void /\ stalled' = stalled
  BY Zenon DEF LifeDefs
<1>2. UNCHANGED [q \in Runs |-> IF state[q] = "early" THEN "unseen" ELSE state[q]]
  BY <1>1, Zenon
<1>3. UNCHANGED [q \in Runs |-> flag[q] \/ token[q]]
  BY <1>1, Zenon
<1>4. UNCHANGED ((IF chat THEN {1} ELSE {}) \cup void)
  BY <1>1, Zenon
<1> QED BY <1>1, <1>2, <1>3, <1>4, Zenon DEF Life!lifeVars

LEMMA MapSettle ==
    ASSUME RowType, NEW r \in Runs, NEW s \in Terminal, state' = [state EXCEPT ![r] = s],
           UNCHANGED <<flag, token, chat, void, stalled>>,
           state[r] \in Terminal => r \in stalled,
           s = "cancelled" => flag[r] \/ token[r]
    PROVE  Life!Settle(r)
<1> DEFINE seen == [q \in Runs |-> IF state[q] = "early" THEN "unseen" ELSE state[q]]
           asks == [q \in Runs |-> flag[q] \/ token[q]]
<1>1. seen' = [seen EXCEPT ![r] = s]
  <2>1. s # "early"
    BY SMT DEF Terminal
  <2>2. \A q \in Runs : state'[q] = IF q = r THEN s ELSE state[q]
    BY Zenon DEF RowType
  <2>3. \A q \in Runs : seen'[q] = [seen EXCEPT ![r] = s][q]
    BY <2>1, <2>2, Zenon
  <2> QED BY <2>3, Zenon
<1>2. seen[r] \in Terminal => r \in stalled
  BY SMT DEF RowType, Terminal
<1>3. UNCHANGED asks
  BY Zenon
<1>4. s = "cancelled" => asks[r]
  BY Zenon
<1> QED BY <1>1, <1>2, <1>3, <1>4, Zenon DEF Life!Settle, Life!Settled, Life!Becomes, Terminal

LEMMA MapAppear ==
    ASSUME RowType, NEW r \in Runs, state[r] = "early",
           state' = [state EXCEPT ![r] = "running"],
           UNCHANGED <<flag, token, chat, void, stalled>>
    PROVE  Life!Appear(r)
<1> DEFINE seen == [q \in Runs |-> IF state[q] = "early" THEN "unseen" ELSE state[q]]
           asks == [q \in Runs |-> flag[q] \/ token[q]]
<1>1. seen' = [seen EXCEPT ![r] = "running"]
  <2>1. "running" # "early"
    BY SMT DEF Terminal
  <2>2. \A q \in Runs : state'[q] = IF q = r THEN "running" ELSE state[q]
    BY Zenon DEF RowType
  <2>3. \A q \in Runs : seen'[q] = [seen EXCEPT ![r] = "running"][q]
    BY <2>1, <2>2, Zenon
  <2> QED BY <2>3, Zenon
<1>2. seen[r] = "unseen"
  BY Zenon
<1>3. UNCHANGED asks
  BY Zenon
<1> QED BY <1>1, <1>2, <1>3, Zenon DEF Life!Appear, Life!Becomes

LEMMA MapAsk ==
    ASSUME NEW r \in Runs, flag'[r] \/ token'[r],
           \A q \in Runs \ {r} : flag'[q] = flag[q] /\ token'[q] = token[q],
           UNCHANGED <<state, chat, stalled>>,
           void' = void \/ (void' = void \cup {r} /\ ~flag[r] /\ (token[r] => IsChat(r)))
    PROVE  Life!Ask(r)
<1> DEFINE seen == [q \in Runs |-> IF state[q] = "early" THEN "unseen" ELSE state[q]]
           asks == [q \in Runs |-> flag[q] \/ token[q]]
           hard == (IF chat THEN {1} ELSE {}) \cup void
<1>1. asks' = [asks EXCEPT ![r] = TRUE]
  <2>1. \A q \in Runs : asks'[q] = [asks EXCEPT ![r] = TRUE][q]
    BY Zenon
  <2> QED BY <2>1, Zenon
<1>2. UNCHANGED seen
  BY Zenon
<1>3. hard' = hard \/ (~asks[r] /\ hard' = hard \cup {r})
  <2>1. CASE void' = void
    BY <2>1, Zenon
  <2>2. CASE void' = void \cup {r} /\ ~flag[r] /\ ~token[r]
    BY <2>2, Zenon
  <2>3. CASE void' = void \cup {r} /\ IsChat(r)
    BY <2>3, SMT DEF IsChat
  <2> QED BY <2>1, <2>2, <2>3, Zenon
<1>4. hard' \in {hard} \cup (IF asks[r] THEN {} ELSE {hard \cup {r}})
  BY <1>3, Zenon
<1> QED BY <1>1, <1>2, <1>4, Zenon DEF Life!Ask

LEMMA MapSuspect ==
    ASSUME NEW r \in Runs, stalled' = stalled \cup {r},
           UNCHANGED <<state, flag, token, chat, void>>
    PROVE  Life!Suspect(r)
BY Zenon DEF Life!Suspect

LEMMA LifeStep == TreeInv /\ [Next]_vars => [Life!LifeNext]_(Life!lifeVars)
<1> SUFFICES ASSUME TreeInv, [Next]_vars PROVE [Life!LifeNext]_(Life!lifeVars)
  OBVIOUS
<1>0. /\ \A r \in Runs : Life!Appear(r) \/ Life!Ask(r) \/ Life!Suspect(r) \/ Life!Settle(r)
                           => Life!LifeNext
      /\ RowType
  BY Zenon DEF Life!LifeNext, Life!LifeRuns, Runs, TreeInv, Types
<1>1. ASSUME NEW m \in Msgs, NEW r \in Runs, Fetch(m, r) PROVE [Life!LifeNext]_(Life!lifeVars)
  BY <1>1, MapStutter, Zenon DEF LifeDefs, Fetch, vars, busVars, runVars, rowVars,
     backVars, histVars
<1>2. ASSUME NEW r \in Runs, NEW m \in Msgs, Send(r, m) PROVE [Life!LifeNext]_(Life!lifeVars)
  BY <1>2, MapStutter, Zenon DEF LifeDefs, Send, vars, busVars, runVars, rowVars,
     backVars, histVars
<1>3. ASSUME NEW r \in Runs, Bind(r) PROVE [Life!LifeNext]_(Life!lifeVars)
  <2>1. CASE state' = [state EXCEPT ![r] = "running"]
    <3>1. state[r] = "early"
      BY <1>3, SMT DEF Bind, At, TreeInv, EarlyInv
    <3>2. UNCHANGED <<flag, token, chat, void, stalled>>
      BY <1>3, Zenon DEF Bind, histVars
    <3> QED BY <1>0, <2>1, <3>1, <3>2, MapAppear, Zenon
  <2>2. CASE UNCHANGED state
    <3>1. UNCHANGED LifeDefs
      BY <1>3, <2>2, Zenon DEF Bind, LifeDefs, histVars
    <3> QED BY <3>1, MapStutter
  <2> QED BY <1>3, <2>1, <2>2, Zenon DEF Bind, Put
<1>4. ASSUME NEW r \in Runs, WatchFires(r) PROVE [Life!LifeNext]_(Life!lifeVars)
  <2>1. /\ flag[r] /\ UNCHANGED <<state, flag, chat, void, stalled>>
        /\ \A q \in Runs : q # r => token'[q] = token[q]
    BY <1>4, Zenon DEF WatchFires, StopApplies, TreeInv, Types, RunType, rowVars, histVars
  <2>2. Life!Ask(r)
    BY <2>1, MapAsk, Zenon
  <2> QED BY <1>0, <2>2, Zenon
<1>5. ASSUME NEW r \in Runs, Finalize(r) PROVE [Life!LifeNext]_(Life!lifeVars)
  <2>1. CASE state' = [state EXCEPT ![r] = out[r]]
    <3>1. /\ out[r] \in Terminal /\ (state[r] \in Terminal => r \in stalled)
          /\ out[r] = "cancelled" => flag[r] \/ token[r]
      BY <1>5, SMT DEF Finalize, At, TreeInv, EarlyInv, RowInv, Terminal
    <3>2. UNCHANGED <<flag, token, chat, void, stalled>>
      BY <1>5, Zenon DEF Finalize
    <3> QED BY <1>0, <2>1, <3>1, <3>2, MapSettle, Zenon
  <2>2. CASE UNCHANGED state
    <3>1. UNCHANGED LifeDefs
      BY <1>5, <2>2, Zenon DEF Finalize, LifeDefs
    <3> QED BY <3>1, MapStutter
  <2> QED BY <1>5, <2>1, <2>2, Zenon DEF Finalize, Put
<1>6. ASSUME NEW r \in Runs, Ack(r) PROVE [Life!LifeNext]_(Life!lifeVars)
  BY <1>6, MapStutter, Zenon DEF LifeDefs, Ack, vars, busVars, runVars, rowVars,
     backVars, histVars
<1>7. ASSUME NEW r \in Runs, NEW o \in Terminal, RunEnds(r, o) PROVE [Life!LifeNext]_(Life!lifeVars)
  BY <1>7, MapStutter, Zenon DEF LifeDefs, RunEnds, vars, busVars, runVars, rowVars,
     backVars, histVars
<1>8. ASSUME NEW r \in Runs, Stall(r) PROVE [Life!LifeNext]_(Life!lifeVars)
  <2>1. stalled' = stalled \cup {r} /\ UNCHANGED <<state, flag, token, chat, void>>
    BY <1>8, Zenon DEF Stall, runVars
  <2> QED BY <1>0, <2>1, MapSuspect, Zenon
<1>9. ASSUME NEW r \in Runs, Beat(r) PROVE [Life!LifeNext]_(Life!lifeVars)
  BY <1>9, MapStutter, Zenon DEF LifeDefs, Beat, vars, busVars, runVars, rowVars,
     backVars, histVars
<1>10. ASSUME NEW r \in Runs, GoesStale(r) PROVE [Life!LifeNext]_(Life!lifeVars)
  BY <1>10, MapStutter, Zenon DEF LifeDefs, GoesStale, vars, busVars, runVars,
     rowVars, backVars, histVars
<1>11. ASSUME NEW r \in Runs, SweepWrites(r) PROVE [Life!LifeNext]_(Life!lifeVars)
  <2> DEFINE s == IF r \in sweep.cancel THEN "cancelled" ELSE "failed"
  <2>1. CASE state' = [state EXCEPT ![r] = s]
    <3>1. /\ s \in Terminal /\ (state[r] \in Terminal => r \in stalled)
          /\ s = "cancelled" => flag[r] \/ token[r]
      BY <1>11, SMT DEF SweepWrites, TreeInv, SweepInv, Terminal
    <3>2. UNCHANGED <<flag, token, chat, void, stalled>>
      BY <1>11, Zenon DEF SweepWrites, runVars, histVars
    <3> HIDE DEF s
    <3> QED BY <1>0, <2>1, <3>1, <3>2, MapSettle, Zenon
  <2>2. CASE UNCHANGED state
    <3>1. UNCHANGED LifeDefs
      BY <1>11, <2>2, Zenon DEF SweepWrites, LifeDefs, runVars, histVars
    <3> QED BY <3>1, MapStutter
  <2> QED BY <1>11, <2>1, <2>2, Zenon DEF SweepWrites, Put
<1>12. ASSUME NEW r \in Runs, StopReads(r) PROVE [Life!LifeNext]_(Life!lifeVars)
  BY <1>12, MapStutter, Zenon DEF LifeDefs, StopReads, vars, busVars, runVars,
     rowVars, backVars, histVars
<1>13. ASSUME NEW r \in Runs, StopFlags(r) PROVE [Life!LifeNext]_(Life!lifeVars)
  <2>1. UNCHANGED <<state, token, chat, stalled>>
    BY <1>13, Zenon DEF StopFlags, runVars, histVars
  <2>2. CASE /\ flag' = [flag EXCEPT ![r] = TRUE]
             /\ void' = IF r \in stopper.seen THEN void ELSE void \cup {r}
    <3>1. flag'[r] /\ \A q \in Runs \ {r} : flag'[q] = flag[q]
      BY <2>2, Zenon DEF TreeInv, Types, RowType
    <3>2. ~flag[r] /\ (token[r] => IsChat(r))
      BY <1>13, Zenon DEF StopFlags, TreeInv, RaceInv, WatchInv
    <3>3. Life!Ask(r)
      BY <2>1, <2>2, <3>1, <3>2, MapAsk, Zenon
    <3> QED BY <1>0, <3>3, Zenon
  <2>3. CASE UNCHANGED <<flag, void>>
    BY <2>1, <2>3, MapStutter, Zenon DEF LifeDefs
  <2> QED BY <1>13, <2>2, <2>3, Zenon DEF StopFlags
<1>14. CASE ChatStop
  <2>1. UNCHANGED <<state, flag, chat, void, stalled>>
    BY <1>14, Zenon DEF ChatStop, rowVars, histVars
  <2>2. token'[1] /\ \A q \in Runs \ {1} : token'[q] = token[q]
    BY <1>14, RunOne, Zenon DEF ChatStop, TreeInv, Types, RunType
  <2>3. Life!Ask(1)
    BY <2>1, <2>2, RunOne, MapAsk, Zenon
  <2> QED BY <1>0, <2>3, RunOne, Zenon
<1>15. CASE SweepReads
  BY <1>15, MapStutter, Zenon DEF LifeDefs, SweepReads, vars, busVars, runVars,
     rowVars, backVars, histVars
<1>16. CASE StopStamps
  BY <1>16, MapStutter, Zenon DEF LifeDefs, StopStamps, vars, busVars, runVars,
     rowVars, backVars, histVars
<1>17. CASE StopSelects
  BY <1>17, MapStutter, Zenon DEF LifeDefs, StopSelects, vars, busVars, runVars,
     rowVars, backVars, histVars
<1>18. CASE StopAnswers
  BY <1>18, MapStutter, Zenon DEF LifeDefs, StopAnswers, vars, busVars, runVars,
     rowVars, backVars, histVars
<1>19. CASE WorkersRestart
  BY <1>19, MapStutter, Zenon DEF LifeDefs, WorkersRestart, vars, busVars, runVars,
     rowVars, backVars, histVars
<1>20. CASE BackendRestart
  BY <1>20, MapStutter, Zenon DEF LifeDefs, BackendRestart, vars, busVars, runVars,
     rowVars, backVars, histVars
<1>21. CASE UNCHANGED vars
  BY <1>21, MapStutter, Zenon DEF LifeDefs, vars, busVars, runVars, rowVars, backVars,
     histVars
<1> QED BY <1>1, <1>2, <1>3, <1>4, <1>5, <1>6, <1>7, <1>8, <1>9, <1>10, <1>11, <1>12,
   <1>13, <1>14, <1>15, <1>16, <1>17, <1>18, <1>19, <1>20, <1>21, Zenon DEF Next,
   Drive

\* A reader of the rows sees RunLife: a run settles once unless it was suspected while
\* it lived, and as cancelled only if somebody asked.
THEOREM RowsImplementLife == Spec => KeepsLifeSafely
<1>1. Init => Life!LifeInit
  <2> SUFFICES ASSUME Init PROVE Life!LifeInit
    OBVIOUS
  <2>1. [r \in Runs |-> IF state[r] = "early" THEN "unseen" ELSE state[r]]
           = [r \in Runs |-> "unseen"]
    BY SMT DEF Init
  <2>2. [r \in Runs |-> flag[r] \/ token[r]] = [r \in Runs |-> FALSE]
    BY Zenon DEF Init
  <2>3. ((IF chat THEN {1} ELSE {}) \cup void) \in SUBSET {1} /\ stalled = {}
    BY SMT DEF Init
  <2> QED BY <2>1, <2>2, <2>3, Zenon DEF Life!LifeInit, Life!LifeRuns, Runs
<1> QED BY <1>1, LifeStep, TreeInductive, PTL DEF Spec, KeepsLifeSafely

=============================================================================
