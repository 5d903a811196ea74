-------------------------- MODULE TxnProxyProofs --------------------------
(***************************************************************************)
(* What holds of TxnProxy for any clients, transaction length and bound:   *)
(* the proxy's flag, the connection and the slot agree (FlagMatches), the  *)
(* file has a transaction whole or nothing that ran inside it at every     *)
(* moment (AllOrNothing), a write that met an active transaction is not    *)
(* folded into it, an answered write is on the file, and not everyone who  *)
(* waits waits for somebody who waits (NoWaitCycle).  All are conjuncts or *)
(* consequences of one inductive invariant, ProxyInv.                      *)
(***************************************************************************)
EXTENDS TxnProxy, TLAPS

Ending == {"commit", "rollback", "reap"}

\* The slot, the flag and the connection, while a statement is under way too.  A BEGIN
\* that succeeded resumes before any write issued after it.
Slots ==
    /\ slot = "free" <=> holder = None
    /\ slot = "begin" => ~inTxn /\ at[holder] = "starting" /\ (good <=> conn = "explicit")
    /\ slot = "held" => inTxn /\ conn = "explicit"
    /\ slot \in Ending => inTxn /\ (good => conn # "explicit")
    /\ slot \in {"commit", "rollback"} => at[holder] = "closing"
    /\ slot = "free" => IF inTxn THEN broken ELSE conn # "explicit"
    /\ conn = "none" => pend = {}
    /\ \A c \in Clients :
          at[c] = "written" /\ conn = "none" => slot \in Ending /\ ahead = "write"
    /\ slot = "begin" /\ good => \A c \in Clients : at[c] = "written" => ahead = "slot"

\* Where a client is decides what it holds; one write is under way at a time.
Positions ==
    /\ \A t \in Txns :
          /\ at[t] = "starting" => holder = t /\ slot = "begin"
          /\ at[t] = "closing" => holder = t /\ slot \in {"commit", "rollback"}
          /\ at[t] \in {"idle", "starting"} => step[t] = 1
          /\ at[t] \in {"queued", "asleep", "written", "saving"} => step[t] <= NSteps
    /\ \A c \in Plain \cup Loose : step[c] = 1
    /\ \A c \in Loose : at[c] \in {"idle", "ok"}
    /\ \A c, d \in Clients : at[c] \in Writing /\ at[d] \in Writing => c = d

\* The active transaction has every write it was answered for on the connection, and
\* none of them ran outside it.
Held ==
    \A t \in Txns :
       /\ holder = t /\ slot = "held" =>
             /\ {t} \X (1 .. step[t] - 1) \subseteq pend
             /\ at[t] \in Writing /\ result = "ok" => Write(t) \in pend
       /\ at[t] \in {"idle", "starting"} \/ (holder = t /\ conn = "explicit") =>
             \A w \in stray : w[1] # t

Whole ==
    \A t \in Txns :
       at[t] = "committed" \/ (at[t] = "closing" /\ slot = "commit" /\ good) =>
          Of(t) \subseteq disk

\* Its commit succeeded, or may have when the proxy restarted.
Settled(t) ==
    at[t] \in {"committed", "unsure"} \/ (at[t] = "closing" /\ slot = "commit" /\ good)

Clean ==
    ~broken =>
       \A t \in Txns :
          /\ ~Settled(t) => Of(t) \cap disk \subseteq stray
          /\ conn # "explicit" \/ holder # t => Of(t) \cap pend \subseteq stray

\* The file has a transaction whole, or nothing that ran inside it.
Atomic ==
    ~broken => \A t \in Txns : Of(t) \subseteq disk \/ Of(t) \cap disk \subseteq stray

\* A write under way will be found on the file, in the transaction it ran in, or in the
\* one the driver opened, which its own commit is going to end.
Answers ==
    /\ \A c \in Clients :
          /\ at[c] = "written" /\ result = "ok" /\ ~broken =>
                \/ Write(c) \in folded
                \/ c \in Txns /\ Write(c) \notin stray
                \/ /\ Write(c) \in pend /\ conn = "implicit"
                   /\ inTxn => slot \in Ending /\ ahead = "slot"
          /\ /\ at[c] = "written" /\ result = "ok"
             /\ ~inTxn \/ (slot \in Ending /\ ahead # "write")
             => Write(c) \in pend
          /\ at[c] = "saving" /\ result = "ok" => Write(c) \in disk
    /\ conn = "explicit" /\ ~broken => \A w \in pend : w[1] \notin Loose

\* The order of two statements is kept only while both are under way, and the client of
\* the active transaction is inside it, or dead.
Owned ==
    /\ ahead = "write" => WriteLocked
    /\ ahead = "slot" => SlotBusy
    /\ slot = "held" =>
          at[holder] \in Writing \cup {"body", "queued", "asleep", "unwinding", "gone"}

ProxyInv ==
    /\ TypeOK /\ Slots /\ Positions /\ Held
    /\ Owned /\ Whole /\ Clean /\ Atomic /\ FoldedWaited /\ Answers /\ AckedDurable


\* Every step keeps the types.
LEMMA TypeStep == ProxyInv /\ [Next]_vars => TypeOK'
<1> SUFFICES ASSUME ProxyInv, [Next]_vars PROVE TypeOK'
  OBVIOUS
<1>0. Positions /\ Slots /\ TypeOK
  BY DEF ProxyInv
<1>1. ASSUME NEW c \in Clients, Send(c) PROVE TypeOK'
  BY <1>0, <1>1, ProxyAssumption DEF Send, Issue, Calm, Mishap, Recorded, AfterSlot,
    Goto, Write, writeLeaves, slotVars, TypeOK, Places, Writes
<1>2. ASSUME NEW c \in Clients, Resume(c) PROVE TypeOK'
  BY <1>0, <1>2, ProxyAssumption DEF Resume, Issue, Calm, Mishap, Recorded, AfterSlot,
    Goto, Write, writeLeaves, slotVars, TypeOK, Places, Writes
<1>3. ASSUME NEW c \in Clients, WriteReturns(c) PROVE TypeOK'
  <2>1. step' \in [Clients -> 1 .. NSteps + 1]
    BY <1>0, <1>3, ProxyAssumption DEF WriteReturns, Answered, TypeOK, Positions,
      Clients, Writing
  <2>2. at' \in [Clients -> Places]
    BY <1>0, <1>3 DEF WriteReturns, Answered, Goto, TypeOK, Places, Clients
  <2>3. ahead' = "none" /\ UNCHANGED returnLeaves
    BY <1>0, <1>3 DEF WriteReturns, Resumes
  <2> QED BY <1>0, <2>1, <2>2, <2>3 DEF TypeOK, returnLeaves, slotVars, histVars
<1>4. ASSUME NEW c \in Clients, WriteSaves(c) PROVE TypeOK'
  <2>1. mishaps' \in 0 .. MaxMishaps
    BY <1>0, <1>4, ProxyAssumption DEF WriteSaves, Calm, EndFails, Mishap, TypeOK
  <2>2. at' \in [Clients -> Places]
    BY <1>0, <1>4 DEF WriteSaves, Goto, TypeOK, Places
  <2>3. pend' \subseteq Writes /\ disk' \subseteq Writes /\ conn' \in {"none",
    "implicit", "explicit"}
    BY <1>0, <1>4 DEF WriteSaves, Saves, EndFails, Undone, connVars, TypeOK
  <2>4. /\ result' \in {"ok", "error", "locked"} /\ dropped' \in BOOLEAN
        /\ ahead' \in {"none", "write", "slot"}
    BY <1>0, <1>4 DEF WriteSaves, AfterSlot, TypeOK
  <2>5. UNCHANGED <<slotVars, step, folded, intruded, stray, broken>>
    BY <1>4 DEF WriteSaves
  <2> QED BY <1>0, <2>1, <2>2, <2>3, <2>4, <2>5 DEF TypeOK, slotVars
<1>5. ASSUME NEW c \in Clients, SaveReturns(c) PROVE TypeOK'
  <2>1. step' \in [Clients -> 1 .. NSteps + 1]
    BY <1>0, <1>5, ProxyAssumption DEF SaveReturns, Answered, TypeOK, Positions, Clients,
      Writing
  <2>2. at' \in [Clients -> Places]
    BY <1>0, <1>5 DEF SaveReturns, Answered, Goto, TypeOK, Places, Clients
  <2>3. ahead' = "none" /\ UNCHANGED returnLeaves
    BY <1>0, <1>5 DEF SaveReturns, Resumes
  <2> QED BY <1>0, <2>1, <2>2, <2>3 DEF TypeOK, returnLeaves, slotVars, histVars
<1>6. ASSUME NEW c \in Clients, WriteFails(c) PROVE TypeOK'
  BY <1>0, <1>6 DEF WriteFails, Resumes, Goto, slotVars, connVars, histVars, TypeOK, Places
<1>7. ASSUME NEW c \in Clients, LooseWrite(c) PROVE TypeOK'
  BY <1>0, <1>7 DEF LooseWrite, Recorded, Write, Goto, slotVars, TypeOK, Places, Writes
<1>8. ASSUME NEW t \in Txns, Begin(t) PROVE TypeOK'
  BY <1>0, <1>8, ProxyAssumption DEF Begin, AfterWrite, WriteLocked, Writing, Goto,
    histVars, TypeOK, Places, Writes, Clients
<1>9. ASSUME NEW t \in Txns, BeginRaises(t) PROVE TypeOK'
  BY <1>0, <1>9 DEF BeginRaises, Goto, slotVars, connVars, histVars, TypeOK, Places, Clients
<1>10. ASSUME NEW t \in Txns, Commit(t) PROVE TypeOK'
  <2>1. mishaps' \in 0 .. MaxMishaps
    BY <1>0, <1>10, ProxyAssumption DEF Commit, Calm, EndFails, Mishap, TypeOK
  <2>2. at' \in [Clients -> Places] /\ good' \in BOOLEAN /\ slot' = "commit"
    BY <1>0, <1>10 DEF Commit, Goto, TypeOK, Places
  <2>3. pend' \subseteq Writes /\ disk' \subseteq Writes /\ conn' \in {"none",
    "implicit", "explicit"}
    BY <1>0, <1>10 DEF Commit, EndFails, Undone, connVars, TypeOK
  <2>4. ahead' \in {"none", "write", "slot"} /\ UNCHANGED <<endLeaves, broken>>
    BY <1>10 DEF Commit, AfterWrite
  <2> QED BY <1>0, <2>1, <2>2, <2>3, <2>4 DEF TypeOK, endLeaves
<1>11. ASSUME NEW t \in Txns, Rollback(t) PROVE TypeOK'
  <2>1. mishaps' \in 0 .. MaxMishaps
    BY <1>0, <1>11, ProxyAssumption DEF Rollback, Calm, EndFails, Mishap, TypeOK
  <2>2. at' \in [Clients -> Places] /\ good' \in BOOLEAN /\ slot' = "rollback"
    BY <1>0, <1>11 DEF Rollback, Goto, TypeOK, Places
  <2>3. pend' \subseteq Writes /\ disk' \subseteq Writes /\ conn' \in {"none",
    "implicit", "explicit"}
    BY <1>0, <1>11 DEF Rollback, EndFails, Undone, connVars, TypeOK
  <2>4. ahead' \in {"none", "write", "slot"} /\ UNCHANGED <<endLeaves, broken>>
    BY <1>11 DEF Rollback, AfterWrite
  <2> QED BY <1>0, <2>1, <2>2, <2>3, <2>4 DEF TypeOK, endLeaves
<1>12. ASSUME NEW t \in Txns, EndRefused(t) PROVE TypeOK'
  BY <1>0, <1>12 DEF EndRefused, Goto, slotVars, connVars, histVars, TypeOK, Places, Clients
<1>13. ASSUME NEW t \in Txns, Dies(t) PROVE TypeOK'
  BY <1>0, <1>13, ProxyAssumption DEF Dies, Mishap, Goto, slotVars, connVars, histVars,
    TypeOK, Places, Clients
<1>14. CASE BeginReturns
  BY <1>0, <1>14, ProxyAssumption DEF BeginReturns, FlagOn, Goto, connVars, histVars,
    TypeOK, Places, Writes, Clients
<1>15. CASE EndReturns
  BY <1>0, <1>15, ProxyAssumption DEF EndReturns, Released, FlagAfter, Goto, connVars,
    TypeOK, Places, Writes, Clients
<1>16. CASE Reap
  <2>1. mishaps' \in 0 .. MaxMishaps
    BY <1>0, <1>16, ProxyAssumption DEF Reap, Calm, EndFails, Mishap, TypeOK
  <2>2. good' \in BOOLEAN /\ slot' = "reap" /\ UNCHANGED <<endLeaves, at, broken>>
    BY <1>16 DEF Reap
  <2>3. pend' \subseteq Writes /\ disk' \subseteq Writes /\ conn' \in {"none",
    "implicit", "explicit"}
    BY <1>0, <1>16 DEF Reap, EndFails, Undone, connVars, TypeOK
  <2>4. ahead' \in {"none", "write", "slot"}
    BY <1>16 DEF Reap, AfterWrite
  <2> QED BY <1>0, <2>1, <2>2, <2>3, <2>4 DEF TypeOK, endLeaves
<1>17. CASE Expires
  BY <1>0, <1>17, ProxyAssumption DEF Expires, Calm, Mishap, connVars, histVars, TypeOK
<1>18. CASE Restart
  <2>1. at' \in [Clients -> Places]
    <3> SUFFICES ASSUME NEW c \in Clients PROVE Cut(c) \in Places
      BY <1>18 DEF Restart
    <3>1. at[c] \in Places
      BY <1>0 DEF TypeOK
    <3> QED BY <3>1 DEF Cut, Places, Writing
  <2>2. mishaps' \in 0 .. MaxMishaps
    BY <1>0, <1>18, ProxyAssumption DEF Restart, Mishap, TypeOK
  <2> QED BY <1>0, <1>18, <2>1, <2>2 DEF Restart, TypeOK
<1>19. CASE UNCHANGED vars
  BY <1>0, <1>19 DEF vars, slotVars, connVars, histVars, TypeOK
<1> QED BY <1>1, <1>2, <1>3, <1>4, <1>5, <1>6, <1>7, <1>8, <1>9, <1>10, <1>11, <1>12,
  <1>13, <1>14, <1>15, <1>16, <1>17, <1>18, <1>19 DEF Next, Serve, Transact

\* The slot, the flag and the connection stay in step.
LEMMA SlotsStep == ProxyInv /\ [Next]_vars => Slots'
<1> SUFFICES ASSUME ProxyInv, [Next]_vars PROVE Slots'
  OBVIOUS
<1>0. Positions /\ Slots /\ TypeOK
  BY DEF ProxyInv
<1>1. ASSUME NEW c \in Clients, Send(c) PROVE Slots'
  BY <1>0, <1>1 DEF Send, Ready, MayPass, Issue, Recorded, Goto, writeLeaves, slotVars,
    TypeOK, Slots
<1>2. ASSUME NEW c \in Clients, Resume(c) PROVE Slots'
  BY <1>0, <1>2 DEF Resume, SlotBusy, Issue, AfterSlot, Goto, writeLeaves, slotVars, Slots
<1>3. ASSUME NEW c \in Clients, WriteReturns(c) PROVE Slots'
  BY <1>0, <1>3 DEF WriteReturns, Answered, Goto, returnLeaves, slotVars, histVars,
    TypeOK, Slots, Positions, Writing, Clients
<1>4. ASSUME NEW c \in Clients, WriteSaves(c) PROVE Slots'
  BY <1>0, <1>4 DEF WriteSaves, Saves, EndFails, Undone, Goto, slotVars, connVars,
    TypeOK, Slots, Positions, Writing
<1>5. ASSUME NEW c \in Clients, SaveReturns(c) PROVE Slots'
  BY <1>0, <1>5 DEF SaveReturns, Answered, Goto, returnLeaves, slotVars, histVars,
    TypeOK, Slots, Positions, Writing, Clients
<1>6. ASSUME NEW c \in Clients, WriteFails(c) PROVE Slots'
  BY <1>0, <1>6 DEF WriteFails, Writing, Goto, slotVars, connVars, histVars, TypeOK,
    Slots, Positions, Clients
<1>7. ASSUME NEW c \in Clients, LooseWrite(c) PROVE Slots'
  BY <1>0, <1>7 DEF LooseWrite, MayPass, slotVars, Slots
<1>8. ASSUME NEW t \in Txns, Begin(t) PROVE Slots'
  <2>1. slot = "free" /\ conn # "explicit" /\ holder' = t /\ slot' = "begin" /\ t # None
    BY <1>0, <1>8, ProxyAssumption DEF Begin, Slots, Clients
  <2>2. at'[t] = "starting" /\ ~inTxn'
    BY <1>0, <1>8 DEF Begin, Goto, TypeOK, Clients
  <2>3. good' <=> conn' = "explicit"
    BY <1>0, <1>8, <2>1 DEF Begin
  <2>4. conn' = "none" => pend' = {}
    BY <1>0, <1>8 DEF Begin, Slots
  <2>5. conn' # "none"
    BY <1>8 DEF Begin
  <2>6. ASSUME good', NEW c \in Clients, at'[c] = "written" PROVE ahead' = "slot"
    BY <1>0, <1>8, <2>6 DEF Begin, Goto, Slots, TypeOK, Clients, Ending
  <2> QED BY <2>1, <2>2, <2>3, <2>4, <2>5, <2>6 DEF Slots, Ending
<1>9. ASSUME NEW t \in Txns, BeginRaises(t) PROVE Slots'
  BY <1>0, <1>9 DEF BeginRaises, Goto, slotVars, connVars, histVars, Slots
<1>10. ASSUME NEW t \in Txns, Commit(t) PROVE Slots'
  BY <1>0, <1>10, ProxyAssumption DEF Commit, Holds, EndFails, Undone, connVars,
    AfterWrite, WriteLocked, Writing, Goto, endLeaves, TypeOK, Slots, Ending, Clients
<1>11. ASSUME NEW t \in Txns, Rollback(t) PROVE Slots'
  BY <1>0, <1>11, ProxyAssumption DEF Rollback, Holds, EndFails, Undone, connVars,
    AfterWrite, WriteLocked,
    Writing, Goto, endLeaves, TypeOK, Slots, Ending, Clients
<1>12. ASSUME NEW t \in Txns, EndRefused(t) PROVE Slots'
  BY <1>0, <1>12 DEF EndRefused, Goto, slotVars, connVars, histVars, Slots
<1>13. ASSUME NEW t \in Txns, Dies(t) PROVE Slots'
  BY <1>0, <1>13 DEF Dies, Goto, slotVars, connVars, histVars, Slots
<1>14. CASE BeginReturns
  BY <1>0, <1>14 DEF BeginReturns, FlagOn, Goto, connVars, TypeOK, Slots, Ending
<1>15. CASE EndReturns
  BY <1>0, <1>15 DEF EndReturns, Released, FlagAfter, Goto, connVars, TypeOK, Slots, Ending
<1>16. CASE Reap
  BY <1>0, <1>16 DEF Reap, EndFails, Undone, connVars, AfterWrite, WriteLocked, Writing,
    endLeaves, Slots,
    Ending
<1>17. CASE Expires
  BY <1>0, <1>17 DEF Expires, connVars, Slots
<1>18. CASE Restart
  BY <1>0, <1>18 DEF Restart, Cut, Writing, Slots, Ending
<1>19. CASE UNCHANGED vars
  BY <1>0, <1>19 DEF vars, slotVars, connVars, histVars, Slots
<1> QED BY <1>1, <1>2, <1>3, <1>4, <1>5, <1>6, <1>7, <1>8, <1>9, <1>10, <1>11, <1>12,
  <1>13, <1>14, <1>15, <1>16, <1>17, <1>18, <1>19 DEF Next, Serve, Transact

\* Clients stay where what they hold puts them.
LEMMA PositionsStep == ProxyInv /\ [Next]_vars => Positions'
<1> SUFFICES ASSUME ProxyInv, [Next]_vars PROVE Positions'
  OBVIOUS
<1>0. Positions /\ Slots /\ TypeOK
  BY DEF ProxyInv
<1>1. ASSUME NEW c \in Clients, Send(c) PROVE Positions'
  BY <1>0, <1>1, ProxyAssumption DEF Send, Ready, More, MayPass, WriteLocked, Writing,
    Issue, Recorded, Goto, writeLeaves, TypeOK, Positions, Clients
<1>2. ASSUME NEW c \in Clients, Resume(c) PROVE Positions'
  BY <1>0, <1>2 DEF Resume, WriteLocked, Issue, Goto, writeLeaves, slotVars, Positions
<1>3. ASSUME NEW c \in Clients, WriteReturns(c) PROVE Positions'
  BY <1>0, <1>3, ProxyAssumption DEF WriteReturns, Answered, Goto, returnLeaves,
    slotVars, TypeOK, Positions, Writing, Clients
<1>4. ASSUME NEW c \in Clients, WriteSaves(c) PROVE Positions'
  BY <1>0, <1>4 DEF WriteSaves, Goto, slotVars, Positions, Writing
<1>5. ASSUME NEW c \in Clients, SaveReturns(c) PROVE Positions'
  BY <1>0, <1>5, ProxyAssumption DEF SaveReturns, Answered, Goto, returnLeaves, slotVars,
    TypeOK, Positions, Writing, Clients
<1>6. ASSUME NEW c \in Clients, WriteFails(c) PROVE Positions'
  BY <1>0, <1>6 DEF WriteFails, Writing, Goto, slotVars, TypeOK, Positions, Clients
<1>7. ASSUME NEW c \in Clients, LooseWrite(c) PROVE Positions'
  BY <1>0, <1>7 DEF LooseWrite, MayPass, SlotBusy, Goto, Positions, Writing
<1>8. ASSUME NEW t \in Txns, Begin(t) PROVE Positions'
  BY <1>0, <1>8, ProxyAssumption DEF Begin, Writing, Goto, Slots, Positions
<1>9. ASSUME NEW t \in Txns, BeginRaises(t) PROVE Positions'
  BY <1>0, <1>9, ProxyAssumption DEF BeginRaises, Goto, slotVars, Positions, Writing
<1>10. ASSUME NEW t \in Txns, Commit(t) PROVE Positions'
  BY <1>0, <1>10 DEF Commit, Holds, Writing, Goto, endLeaves, Positions
<1>11. ASSUME NEW t \in Txns, Rollback(t) PROVE Positions'
  BY <1>0, <1>11 DEF Rollback, Holds, Writing, Goto, endLeaves, Positions
<1>12. ASSUME NEW t \in Txns, EndRefused(t) PROVE Positions'
  BY <1>0, <1>12 DEF EndRefused, SlotBusy, Goto, Positions, Writing
<1>13. ASSUME NEW t \in Txns, Dies(t) PROVE Positions'
  BY <1>0, <1>13 DEF Dies, Goto, slotVars, Positions, Writing
<1>14. CASE BeginReturns
  BY <1>0, <1>14 DEF BeginReturns, Goto, TypeOK, Slots, Positions, Writing, Clients
<1>15. CASE EndReturns
  BY <1>0, <1>15 DEF EndReturns, Goto, TypeOK, Slots, Positions, Writing, Clients
<1>16. CASE Reap
  BY <1>0, <1>16 DEF Reap, endLeaves, Positions
<1>17. CASE Expires
  BY <1>0, <1>17 DEF Expires, Positions
<1>18. CASE Restart
  BY <1>0, <1>18 DEF Restart, Cut, Writing, Positions, Clients
<1>19. CASE UNCHANGED vars
  BY <1>0, <1>19 DEF vars, slotVars, Positions
<1> QED BY <1>1, <1>2, <1>3, <1>4, <1>5, <1>6, <1>7, <1>8, <1>9, <1>10, <1>11, <1>12,
  <1>13, <1>14, <1>15, <1>16, <1>17, <1>18, <1>19 DEF Next, Serve, Transact

\* The active transaction keeps its writes.
LEMMA HeldStep == ProxyInv /\ [Next]_vars => Held'
<1> SUFFICES ASSUME ProxyInv, [Next]_vars PROVE Held'
  OBVIOUS
<1>0. Held /\ Positions /\ Slots /\ TypeOK
  BY DEF ProxyInv
<1>1. ASSUME NEW c \in Clients, Send(c) PROVE Held'
  BY <1>0, <1>1 DEF Send, MayPass, Writing, Issue, Recorded, Goto, Write, writeLeaves,
    slotVars, TypeOK, Slots, Held, Clients
<1>2. ASSUME NEW c \in Clients, Resume(c) PROVE Held'
  BY <1>0, <1>2 DEF Resume, WriteLocked, Issue, Recorded, Goto, Write, writeLeaves,
    slotVars, Slots, Held, Clients
<1>3. ASSUME NEW c \in Clients, WriteReturns(c) PROVE Held'
  <2>1. CASE c \in Txns
    <3>1. step' = [step EXCEPT ![c] = step[c] + 1] /\ at' = [at EXCEPT ![c] = "body"]
      BY <1>3, <2>1 DEF WriteReturns, Answered, Goto
    <3>2. /\ UNCHANGED <<holder, slot, pend, conn, stray, result>>
          /\ at[c] \in Writing /\ result = "ok"
      BY <1>3 DEF WriteReturns, returnLeaves, slotVars, histVars, Writing
    <3>3. ASSUME NEW t \in Txns, holder = t, slot = "held"
          PROVE {t} \X (1 .. step'[t] - 1) \subseteq pend
      <4>1. CASE t = c
        <5>1. step'[c] = step[c] + 1 /\ step[c] \in 1 .. NSteps + 1
          BY <1>0, <3>1 DEF TypeOK, Clients
        <5>2. <<c, step[c]>> \in pend /\ {c} \X (1 .. step[c] - 1) \subseteq pend
          BY <1>0, <3>2, <3>3, <4>1 DEF Held, Write
        <5> QED BY <4>1, <5>1, <5>2, ProxyAssumption
      <4>2. CASE t # c
        BY <1>0, <3>1, <3>3, <4>2 DEF Held, TypeOK, Clients
      <4> QED BY <4>1, <4>2
    <3> QED BY <1>0, <3>1, <3>2, <3>3 DEF Held, TypeOK, Writing, Clients, Write
  <2>2. CASE c \notin Txns
    BY <1>0, <1>3, <2>2 DEF WriteReturns, Answered, Goto, returnLeaves, slotVars,
      histVars, Held, TypeOK, Clients, Write
  <2> QED BY <2>1, <2>2
<1>4. ASSUME NEW c \in Clients, WriteSaves(c) PROVE Held'
  BY <1>0, <1>4 DEF WriteSaves, Saves, EndFails, Undone, Goto, slotVars, connVars,
    Slots, Held
<1>5. ASSUME NEW c \in Clients, SaveReturns(c) PROVE Held'
  <2>1. CASE c \in Txns
    <3>1. step' = [step EXCEPT ![c] = step[c] + 1] /\ at' = [at EXCEPT ![c] = "body"]
      BY <1>5, <2>1 DEF SaveReturns, Answered, Goto
    <3>2. /\ UNCHANGED <<holder, slot, pend, conn, stray, result>>
          /\ at[c] \in Writing /\ result = "ok"
      BY <1>5 DEF SaveReturns, returnLeaves, slotVars, histVars, Writing
    <3>3. ASSUME NEW t \in Txns, holder = t, slot = "held"
          PROVE {t} \X (1 .. step'[t] - 1) \subseteq pend
      <4>1. CASE t = c
        <5>1. step'[c] = step[c] + 1 /\ step[c] \in 1 .. NSteps + 1
          BY <1>0, <3>1 DEF TypeOK, Clients
        <5>2. <<c, step[c]>> \in pend /\ {c} \X (1 .. step[c] - 1) \subseteq pend
          BY <1>0, <3>2, <3>3, <4>1 DEF Held, Write
        <5> QED BY <4>1, <5>1, <5>2, ProxyAssumption
      <4>2. CASE t # c
        BY <1>0, <3>1, <3>3, <4>2 DEF Held, TypeOK, Clients
      <4> QED BY <4>1, <4>2
    <3> QED BY <1>0, <3>1, <3>2, <3>3 DEF Held, TypeOK, Writing, Clients, Write
  <2>2. CASE c \notin Txns
    BY <1>0, <1>5, <2>2 DEF SaveReturns, Answered, Goto, returnLeaves, slotVars,
      histVars, Held, TypeOK, Clients, Write
  <2> QED BY <2>1, <2>2
<1>6. ASSUME NEW c \in Clients, WriteFails(c) PROVE Held'
  BY <1>0, <1>6 DEF WriteFails, Writing, Goto, slotVars, connVars, histVars, TypeOK,
    Positions, Held, Clients
<1>7. ASSUME NEW c \in Clients, LooseWrite(c) PROVE Held'
  BY <1>0, <1>7 DEF LooseWrite, Recorded, Write, Goto, slotVars, TypeOK, Slots, Held
<1>8. ASSUME NEW t \in Txns, Begin(t) PROVE Held'
  BY <1>0, <1>8 DEF Begin, Goto, histVars, Held
<1>9. ASSUME NEW t \in Txns, BeginRaises(t) PROVE Held'
  BY <1>0, <1>9 DEF BeginRaises, Goto, slotVars, connVars, histVars, Slots, Held
<1>10. ASSUME NEW t \in Txns, Commit(t) PROVE Held'
  BY <1>0, <1>10, ProxyAssumption DEF Commit, More, SlotBusy, Holds, Calm, EndFails,
    Mishap, Undone, connVars, AfterWrite, WriteLocked, Writing, Goto, endLeaves, TypeOK,
    Slots, Positions, Held, Clients, Write
<1>11. ASSUME NEW t \in Txns, Rollback(t) PROVE Held'
  BY <1>0, <1>11, ProxyAssumption DEF Rollback, SlotBusy, Holds, Undone, AfterWrite,
    WriteLocked, Writing, Goto, endLeaves, TypeOK, Slots, Positions, Held, Clients, Write
<1>12. ASSUME NEW t \in Txns, EndRefused(t) PROVE Held'
  BY <1>0, <1>12 DEF EndRefused, Holds, Goto, slotVars, connVars, histVars, Held, Write
<1>13. ASSUME NEW t \in Txns, Dies(t) PROVE Held'
  BY <1>0, <1>13 DEF Dies, Goto, slotVars, connVars, histVars, Held, Writing, Write
<1>14. CASE BeginReturns
  BY <1>0, <1>14 DEF BeginReturns, Goto, connVars, histVars, TypeOK, Slots, Positions, Held,
    Writing, Clients
<1>15. CASE EndReturns
  BY <1>0, <1>15, ProxyAssumption DEF EndReturns, Released, FlagAfter, Goto, connVars,
    TypeOK, Slots, Positions, Held, Writing, Clients, Write
<1>16. CASE Reap
  BY <1>0, <1>16, ProxyAssumption DEF Reap, Overdue, Undone, AfterWrite, WriteLocked,
    Writing, endLeaves, TypeOK, Slots, Positions, Held, Clients, Write
<1>17. CASE Expires
  BY <1>0, <1>17 DEF Expires, connVars, histVars, Held, Write
<1>18. CASE Restart
  BY <1>0, <1>18, ProxyAssumption DEF Restart, Mishap, Cut, Writing, TypeOK, Slots,
    Positions, Held, Clients, Write
<1>19. CASE UNCHANGED vars
  BY <1>0, <1>19 DEF vars, slotVars, connVars, histVars, Held, Write
<1> QED BY <1>1, <1>2, <1>3, <1>4, <1>5, <1>6, <1>7, <1>8, <1>9, <1>10, <1>11, <1>12,
  <1>13, <1>14, <1>15, <1>16, <1>17, <1>18, <1>19 DEF Next, Serve, Transact

\* A committed transaction stays whole.
LEMMA WholeStep == ProxyInv /\ [Next]_vars => Whole'
<1> SUFFICES ASSUME ProxyInv, [Next]_vars PROVE Whole'
  OBVIOUS
<1>0. Held /\ Positions /\ Slots /\ TypeOK /\ Whole
  BY DEF ProxyInv
<1>1. ASSUME NEW c \in Clients, Send(c) PROVE Whole'
  BY <1>0, <1>1 DEF Send, Issue, Recorded, Goto, writeLeaves, slotVars, TypeOK, Whole,
    Clients
<1>2. ASSUME NEW c \in Clients, Resume(c) PROVE Whole'
  BY <1>0, <1>2 DEF Resume, Issue, Goto, writeLeaves, slotVars, Whole
<1>3. ASSUME NEW c \in Clients, WriteReturns(c) PROVE Whole'
  BY <1>0, <1>3 DEF WriteReturns, Answered, Goto, returnLeaves, slotVars, TypeOK, Whole,
    Clients
<1>4. ASSUME NEW c \in Clients, WriteSaves(c) PROVE Whole'
  BY <1>0, <1>4 DEF WriteSaves, Saves, EndFails, Undone, Goto, slotVars, connVars, Whole
<1>5. ASSUME NEW c \in Clients, SaveReturns(c) PROVE Whole'
  BY <1>0, <1>5 DEF SaveReturns, Answered, Goto, returnLeaves, slotVars, TypeOK, Whole,
    Clients
<1>6. ASSUME NEW c \in Clients, WriteFails(c) PROVE Whole'
  BY <1>0, <1>6 DEF WriteFails, Goto, slotVars, connVars, TypeOK, Whole, Clients
<1>7. ASSUME NEW c \in Clients, LooseWrite(c) PROVE Whole'
  BY <1>0, <1>7 DEF LooseWrite, Goto, slotVars, Whole
<1>8. ASSUME NEW t \in Txns, Begin(t) PROVE Whole'
  BY <1>0, <1>8 DEF Begin, Goto, Whole
<1>9. ASSUME NEW t \in Txns, BeginRaises(t) PROVE Whole'
  BY <1>0, <1>9 DEF BeginRaises, Goto, slotVars, connVars, Whole
<1>10. ASSUME NEW t \in Txns, Commit(t) PROVE Whole'
  BY <1>0, <1>10, ProxyAssumption DEF Commit, More, SlotBusy, Holds, EndFails, Undone,
    connVars, Goto, TypeOK, Slots, Positions, Held, Whole, Of
<1>11. ASSUME NEW t \in Txns, Rollback(t) PROVE Whole'
  BY <1>0, <1>11 DEF Rollback, EndFails, Undone, connVars, Goto, Whole
<1>12. ASSUME NEW t \in Txns, EndRefused(t) PROVE Whole'
  BY <1>0, <1>12 DEF EndRefused, Goto, slotVars, connVars, Whole
<1>13. ASSUME NEW t \in Txns, Dies(t) PROVE Whole'
  BY <1>0, <1>13 DEF Dies, Goto, slotVars, connVars, Whole
<1>14. CASE BeginReturns
  BY <1>0, <1>14 DEF BeginReturns, Goto, connVars, TypeOK, Whole, Clients
<1>15. CASE EndReturns
  BY <1>0, <1>15 DEF EndReturns, Released, Goto, connVars, TypeOK, Slots, Whole, Clients
<1>16. CASE Reap
  BY <1>0, <1>16 DEF Reap, EndFails, Undone, connVars, Whole
<1>17. CASE Expires
  BY <1>0, <1>17 DEF Expires, connVars, Whole
<1>18. CASE Restart
  BY <1>0, <1>18 DEF Restart, Cut, Whole, Clients
<1>19. CASE UNCHANGED vars
  BY <1>0, <1>19 DEF vars, slotVars, connVars, Whole
<1> QED BY <1>1, <1>2, <1>3, <1>4, <1>5, <1>6, <1>7, <1>8, <1>9, <1>10, <1>11, <1>12,
  <1>13, <1>14, <1>15, <1>16, <1>17, <1>18, <1>19 DEF Next, Serve, Transact

\* A failed transaction stays off the file.
LEMMA CleanStep == ProxyInv /\ [Next]_vars => Clean'
<1> SUFFICES ASSUME ProxyInv, [Next]_vars PROVE Clean'
  OBVIOUS
<1>0. Clean /\ Positions /\ Slots /\ TypeOK
  BY DEF ProxyInv
<1>1. ASSUME NEW c \in Clients, Send(c) PROVE Clean'
  BY <1>0, <1>1 DEF Send, Ready, Issue, Recorded, Goto, Write, writeLeaves, slotVars,
    TypeOK, Clean, Settled, Clients, Of
<1>2. ASSUME NEW c \in Clients, Resume(c) PROVE Clean'
  BY <1>0, <1>2 DEF Resume, Issue, Recorded, Goto, Write, writeLeaves, slotVars, Clean,
    Settled, Of
<1>3. ASSUME NEW c \in Clients, WriteReturns(c) PROVE Clean'
  BY <1>0, <1>3 DEF WriteReturns, Answered, Goto, returnLeaves, slotVars, histVars,
    TypeOK, Clean, Settled, Clients
<1>4. ASSUME NEW c \in Clients, WriteSaves(c) PROVE Clean'
  BY <1>0, <1>4 DEF WriteSaves, Saves, EndFails, Undone, Goto, connVars, TypeOK,
    Slots, Clean, Settled, Ending
<1>5. ASSUME NEW c \in Clients, SaveReturns(c) PROVE Clean'
  BY <1>0, <1>5 DEF SaveReturns, Answered, Goto, returnLeaves, slotVars, histVars,
    TypeOK, Clean, Settled, Clients
<1>6. ASSUME NEW c \in Clients, WriteFails(c) PROVE Clean'
  BY <1>0, <1>6 DEF WriteFails, Writing, Goto, slotVars, connVars, histVars, TypeOK,
    Clean, Settled, Clients
<1>7. ASSUME NEW c \in Clients, LooseWrite(c) PROVE Clean'
  BY <1>0, <1>7 DEF LooseWrite, Recorded, Write, Goto, slotVars, Clean, Settled, Of
<1>8. ASSUME NEW t \in Txns, Begin(t) PROVE Clean'
  BY <1>0, <1>8 DEF Begin, Goto, histVars, Slots, Clean, Settled
<1>9. ASSUME NEW t \in Txns, BeginRaises(t) PROVE Clean'
  BY <1>0, <1>9 DEF BeginRaises, histVars, Slots, Clean
<1>10. ASSUME NEW t \in Txns, Commit(t) PROVE Clean'
  BY <1>0, <1>10 DEF Commit, SlotBusy, Holds, EndFails, Undone, connVars, Goto,
    endLeaves, TypeOK, Clean, Settled, Clients
<1>11. ASSUME NEW t \in Txns, Rollback(t) PROVE Clean'
  BY <1>0, <1>11 DEF Rollback, SlotBusy, EndFails, Undone, connVars, Goto, endLeaves, Clean,
    Settled
<1>12. ASSUME NEW t \in Txns, EndRefused(t) PROVE Clean'
  BY <1>0, <1>12 DEF EndRefused, Goto, slotVars, connVars, histVars, Clean, Settled
<1>13. ASSUME NEW t \in Txns, Dies(t) PROVE Clean'
  BY <1>0, <1>13 DEF Dies, Goto, slotVars, connVars, histVars, Clean, Settled
<1>14. CASE BeginReturns
  BY <1>0, <1>14 DEF BeginReturns, Goto, connVars, histVars, TypeOK, Slots, Clean,
    Settled, Clients
<1>15. CASE EndReturns
  BY <1>0, <1>15 DEF EndReturns, Goto, connVars, TypeOK, Slots, Positions, Clean,
    Settled, Ending, Clients
<1>16. CASE Reap
  BY <1>0, <1>16 DEF Reap, EndFails, Undone, connVars, endLeaves, Clean, Settled
<1>17. CASE Expires
  BY <1>0, <1>17 DEF Expires, connVars, histVars, Clean, Settled
<1>18. CASE Restart
  BY <1>0, <1>18 DEF Restart, Cut, Writing, Clean, Settled, Clients
<1>19. CASE UNCHANGED vars
  BY <1>0, <1>19 DEF vars, slotVars, connVars, histVars, Clean, Settled
<1> QED BY <1>1, <1>2, <1>3, <1>4, <1>5, <1>6, <1>7, <1>8, <1>9, <1>10, <1>11, <1>12,
  <1>13, <1>14, <1>15, <1>16, <1>17, <1>18, <1>19 DEF Next, Serve, Transact

\* What reaches the file reaches it in a commit: that of the transaction, which has all of
\* its writes, or one that finds nothing of it on the connection.
LEMMA AtomicStep == ProxyInv /\ [Next]_vars => Atomic'
<1> SUFFICES ASSUME ProxyInv, [Next]_vars, ~broken', NEW t \in Txns
             PROVE  Of(t) \subseteq disk' \/ Of(t) \cap disk' \subseteq stray'
  BY DEF Atomic, Of
<1>0. Atomic /\ Clean /\ Held /\ Positions /\ Slots /\ TypeOK
  BY DEF ProxyInv
<1>1. ~broken /\ stray \subseteq stray'
  BY <1>0 DEF TypeOK, Next, Serve, Transact, Send, Issue, Recorded, Resume, writeLeaves,
    WriteReturns, returnLeaves, WriteSaves, SaveReturns, WriteFails, LooseWrite, Begin,
    BeginRaises, Commit,
    endLeaves, Rollback, EndRefused, Dies, BeginReturns, EndReturns, Reap, Expires, Restart,
    histVars, vars
<1>2. CASE disk' = disk
  BY <1>0, <1>1, <1>2 DEF Atomic
<1>3. ASSUME NEW c \in Clients, WriteSaves(c), disk' # disk
      PROVE  Of(t) \subseteq disk' \/ Of(t) \cap disk' \subseteq stray'
  <2>1. disk' = disk \cup pend
    BY <1>3 DEF WriteSaves, Saves, EndFails, Undone, connVars
  <2>2. conn # "explicit" \/ holder # t
    BY <1>0, <1>3 DEF WriteSaves, Slots, TypeOK, Ending
  <2>3. Of(t) \cap pend \subseteq stray
    BY <1>0, <1>1, <2>2 DEF Clean
  <2> QED BY <1>0, <1>1, <2>1, <2>3 DEF Atomic
<1>4. ASSUME NEW s \in Txns, Commit(s), disk' # disk
      PROVE  Of(t) \subseteq disk' \/ Of(t) \cap disk' \subseteq stray'
  <2>1. disk' = disk \cup pend /\ holder = s /\ slot = "held"
    BY <1>0, <1>4, ProxyAssumption
    DEF Commit, EndFails, Undone, connVars, Holds, SlotBusy, Slots, TypeOK, Clients
  <2>2. CASE t = s
    <3>1. step[s] = NSteps + 1
      BY <1>0, <1>4, ProxyAssumption DEF Commit, More, TypeOK, Clients
    <3> QED BY <1>0, <2>1, <2>2, <3>1, ProxyAssumption DEF Held, Of
  <2>3. CASE t # s
    <3>1. Of(t) \cap pend \subseteq stray
      BY <1>0, <1>1, <2>1, <2>3 DEF Clean
    <3> QED BY <1>0, <1>1, <2>1, <3>1 DEF Atomic
  <2> QED BY <2>2, <2>3
<1> QED BY <1>2, <1>3, <1>4
  DEF Next, Serve, Transact, Send, Issue, Resume, writeLeaves, WriteReturns, returnLeaves,
    SaveReturns, WriteFails, LooseWrite, Begin, BeginRaises, Rollback, EndFails, Undone,
    EndRefused, Dies, BeginReturns, EndReturns, Reap, Expires, Restart, connVars, vars

\* A statement that was to return first is forgotten when it has.
LEMMA OwnedStep == ProxyInv /\ [Next]_vars => Owned'
<1> SUFFICES ASSUME ProxyInv, [Next]_vars PROVE Owned'
  OBVIOUS
<1>0. Owned /\ Positions /\ Slots /\ TypeOK
  BY DEF ProxyInv
<1> USE ProxyAssumption DEF Owned, Writing, TypeOK, Clients
<1>1. ASSUME NEW c \in Clients, Send(c) PROVE Owned'
  <2>1. ~SlotBusy /\ holder \in {None, c} /\ UNCHANGED slotVars
    BY <1>1 DEF Send, MayPass, writeLeaves
  <2>2. CASE Goto(c, "queued") /\ UNCHANGED ahead
    <3>1. at[c] \notin Writing
      BY <1>1 DEF Send, Ready
    <3> QED BY <1>0, <2>1, <2>2, <3>1 DEF Slots, Goto, SlotBusy, WriteLocked, slotVars
  <2>3. CASE Issue(c, TRUE) /\ ~WriteLocked
    <3>1. ahead' = "none" /\ at' = [at EXCEPT ![c] = "written"]
      BY <2>1, <2>3 DEF Issue, AfterSlot, Goto
    <3> QED BY <1>0, <2>1, <3>1 DEF Slots, SlotBusy, slotVars
  <2> QED BY <1>1, <2>2, <2>3 DEF Send
<1>2. ASSUME NEW c \in Clients, Resume(c) PROVE Owned'
  BY <1>0, <1>2 DEF Positions, Slots, Resume, SlotBusy, WriteLocked, Issue, AfterSlot, Goto,
    writeLeaves, slotVars
<1>3. ASSUME NEW c \in Clients, WriteReturns(c) PROVE Owned'
  BY <1>0, <1>3 DEF Positions, Slots, WriteReturns, Resumes, Answered, Goto, returnLeaves,
    slotVars, WriteLocked, SlotBusy
<1>4. ASSUME NEW c \in Clients, WriteSaves(c) PROVE Owned'
  BY <1>0, <1>4 DEF Positions, Slots, WriteSaves, AfterSlot, Goto, slotVars, WriteLocked,
    SlotBusy
<1>5. ASSUME NEW c \in Clients, SaveReturns(c) PROVE Owned'
  BY <1>0, <1>5 DEF Positions, Slots, SaveReturns, Resumes, Answered, Goto, returnLeaves,
    slotVars, WriteLocked, SlotBusy
<1>6. ASSUME NEW c \in Clients, WriteFails(c) PROVE Owned'
  BY <1>0, <1>6 DEF Positions, Slots, WriteFails, Resumes, Goto, slotVars, WriteLocked, SlotBusy
<1>7. ASSUME NEW c \in Clients, LooseWrite(c) PROVE Owned'
  BY <1>0, <1>7 DEF Positions, Slots, LooseWrite, Goto, slotVars, WriteLocked, SlotBusy
<1>8. ASSUME NEW t \in Txns, Begin(t) PROVE Owned'
  BY <1>0, <1>8 DEF Positions, Slots, Begin, AfterWrite, Goto, WriteLocked, SlotBusy
<1>9. ASSUME NEW t \in Txns, BeginRaises(t) PROVE Owned'
  BY <1>0, <1>9 DEF Positions, Slots, BeginRaises, Goto, slotVars, WriteLocked, SlotBusy
<1>10. ASSUME NEW t \in Txns, Commit(t) PROVE Owned'
  BY <1>0, <1>10 DEF Positions, Slots, Commit, AfterWrite, Goto, WriteLocked, SlotBusy
<1>11. ASSUME NEW t \in Txns, Rollback(t) PROVE Owned'
  BY <1>0, <1>11 DEF Positions, Slots, Rollback, AfterWrite, Goto, WriteLocked, SlotBusy
<1>12. ASSUME NEW t \in Txns, EndRefused(t) PROVE Owned'
  BY <1>0, <1>12 DEF Positions, Slots, EndRefused, Holds, Goto, slotVars, WriteLocked, SlotBusy
<1>13. ASSUME NEW t \in Txns, Dies(t) PROVE Owned'
  BY <1>0, <1>13 DEF Positions, Slots, Dies, Goto, slotVars, WriteLocked, SlotBusy
<1>14. CASE BeginReturns
  BY <1>0, <1>14 DEF Positions, Slots, BeginReturns, Goto, WriteLocked, SlotBusy
<1>15. CASE EndReturns
  BY <1>0, <1>15 DEF Positions, Slots, EndReturns, Released, WriteLocked, SlotBusy
<1>16. CASE Reap
  BY <1>0, <1>16 DEF Positions, Slots, Reap, AfterWrite, endLeaves, WriteLocked, SlotBusy
<1>17. CASE Expires
  BY <1>0, <1>17 DEF Positions, Slots, Expires, WriteLocked, SlotBusy
<1>18. CASE Restart
  BY <1>0, <1>18 DEF Positions, Slots, Restart
<1>19. CASE UNCHANGED vars
  BY <1>0, <1>19 DEF Positions, Slots, vars, slotVars, WriteLocked, SlotBusy
<1> QED BY <1>1, <1>2, <1>3, <1>4, <1>5, <1>6, <1>7, <1>8, <1>9, <1>10, <1>11, <1>12,
  <1>13, <1>14, <1>15, <1>16, <1>17, <1>18, <1>19 DEF Next, Serve, Transact

\* The gate lets no write into a transaction of another.
LEMMA StraightStep == ProxyInv /\ [Next]_vars => FoldedWaited'
<1> SUFFICES ASSUME ProxyInv, [Next]_vars PROVE FoldedWaited'
  OBVIOUS
<1>0. FoldedWaited /\ Slots /\ TypeOK
  BY DEF ProxyInv
<1>1. ASSUME NEW c \in Clients, Send(c) PROVE FoldedWaited'
  BY <1>0, <1>1 DEF Send, MayPass, Issue, Recorded, writeLeaves, Slots, FoldedWaited
<1>2. ASSUME NEW c \in Clients, Resume(c) PROVE FoldedWaited'
  BY <1>0, <1>2 DEF Resume, Issue, Recorded, writeLeaves, FoldedWaited
<1>3. ASSUME NEW c \in Clients, WriteReturns(c) PROVE FoldedWaited'
  BY <1>0, <1>3 DEF WriteReturns, returnLeaves, histVars, FoldedWaited
<1>4. ASSUME NEW c \in Clients, WriteSaves(c) PROVE FoldedWaited'
  BY <1>0, <1>4 DEF WriteSaves, FoldedWaited
<1>5. ASSUME NEW c \in Clients, SaveReturns(c) PROVE FoldedWaited'
  BY <1>0, <1>5 DEF SaveReturns, returnLeaves, histVars, FoldedWaited
<1>6. ASSUME NEW c \in Clients, WriteFails(c) PROVE FoldedWaited'
  BY <1>0, <1>6 DEF WriteFails, histVars, FoldedWaited
<1>7. ASSUME NEW c \in Clients, LooseWrite(c) PROVE FoldedWaited'
  BY <1>0, <1>7 DEF LooseWrite, MayPass, Recorded, Slots, FoldedWaited
<1>8. ASSUME NEW t \in Txns, Begin(t) PROVE FoldedWaited'
  BY <1>0, <1>8 DEF Begin, histVars, FoldedWaited
<1>9. ASSUME NEW t \in Txns, BeginRaises(t) PROVE FoldedWaited'
  BY <1>0, <1>9 DEF BeginRaises, histVars, FoldedWaited
<1>10. ASSUME NEW t \in Txns, Commit(t) PROVE FoldedWaited'
  BY <1>0, <1>10 DEF Commit, endLeaves, FoldedWaited
<1>11. ASSUME NEW t \in Txns, Rollback(t) PROVE FoldedWaited'
  BY <1>0, <1>11 DEF Rollback, endLeaves, FoldedWaited
<1>12. ASSUME NEW t \in Txns, EndRefused(t) PROVE FoldedWaited'
  BY <1>0, <1>12 DEF EndRefused, histVars, FoldedWaited
<1>13. ASSUME NEW t \in Txns, Dies(t) PROVE FoldedWaited'
  BY <1>0, <1>13 DEF Dies, histVars, FoldedWaited
<1>14. CASE BeginReturns
  BY <1>0, <1>14 DEF BeginReturns, histVars, FoldedWaited
<1>15. CASE EndReturns
  BY <1>0, <1>15 DEF EndReturns, TypeOK, FoldedWaited
<1>16. CASE Reap
  BY <1>0, <1>16 DEF Reap, endLeaves, FoldedWaited
<1>17. CASE Expires
  BY <1>0, <1>17 DEF Expires, histVars, FoldedWaited
<1>18. CASE Restart
  BY <1>0, <1>18 DEF Restart, FoldedWaited
<1>19. CASE UNCHANGED vars
  BY <1>0, <1>19 DEF vars, histVars, FoldedWaited
<1> QED BY <1>1, <1>2, <1>3, <1>4, <1>5, <1>6, <1>7, <1>8, <1>9, <1>10, <1>11, <1>12,
  <1>13, <1>14, <1>15, <1>16, <1>17, <1>18, <1>19 DEF Next, Serve, Transact

\* A write under way stays within reach of its commit.
LEMMA AnswersStep == ProxyInv /\ [Next]_vars => Answers'
<1> SUFFICES ASSUME ProxyInv, [Next]_vars PROVE Answers'
  OBVIOUS
<1>0. Answers /\ Held /\ Positions /\ Slots /\ TypeOK
  BY DEF ProxyInv
<1>1. ASSUME NEW c \in Clients, Send(c) PROVE Answers'
  BY <1>0, <1>1, ProxyAssumption DEF Send, MayPass, SlotBusy, WriteLocked, Writing,
    Issue, Recorded, Goto, Write, writeLeaves, slotVars, TypeOK, Slots, Held, Answers
<1>2. ASSUME NEW c \in Clients, Resume(c) PROVE Answers'
  BY <1>0, <1>2 DEF Resume, SlotBusy, WriteLocked, Writing, Issue, Recorded, AfterSlot,
    Goto, Write, writeLeaves, slotVars, TypeOK, Slots, Positions, Held, Answers, Ending
<1>3. ASSUME NEW c \in Clients, WriteReturns(c) PROVE Answers'
  BY <1>0, <1>3 DEF WriteReturns, Answered, Goto, returnLeaves, histVars, TypeOK,
    Positions, Answers, Writing
<1>4. ASSUME NEW c \in Clients, WriteSaves(c) PROVE Answers'
  BY <1>0, <1>4 DEF WriteSaves, Saves, EndFails, Undone, Goto, connVars, TypeOK,
    Positions, Answers, Writing, Write
<1>5. ASSUME NEW c \in Clients, SaveReturns(c) PROVE Answers'
  BY <1>0, <1>5 DEF SaveReturns, Answered, Goto, returnLeaves, histVars, TypeOK,
    Positions, Answers, Writing
<1>6. ASSUME NEW c \in Clients, WriteFails(c) PROVE Answers'
  BY <1>0, <1>6 DEF WriteFails, Writing, Goto, connVars, histVars, TypeOK, Positions,
    Answers
<1>7. ASSUME NEW c \in Clients, LooseWrite(c) PROVE Answers'
  BY <1>0, <1>7, ProxyAssumption DEF LooseWrite, MayPass, Write, Goto, slotVars, TypeOK,
    Slots, Answers
<1>8. ASSUME NEW t \in Txns, Begin(t) PROVE Answers'
  BY <1>0, <1>8 DEF Begin, Goto, histVars, Slots, Answers, Write
<1>9. ASSUME NEW t \in Txns, BeginRaises(t) PROVE Answers'
  BY <1>0, <1>9 DEF BeginRaises, Goto, slotVars, connVars, histVars, Answers, Write
<1>10. ASSUME NEW t \in Txns, Commit(t) PROVE Answers'
  BY <1>0, <1>10, ProxyAssumption DEF Commit, SlotBusy, Holds, EndFails, Undone,
    connVars, AfterWrite, WriteLocked, Writing, Goto, endLeaves, Slots, Answers, Clients,
    Write
<1>11. ASSUME NEW t \in Txns, Rollback(t) PROVE Answers'
  BY <1>0, <1>11, ProxyAssumption DEF Rollback, SlotBusy, Holds, EndFails, Undone, connVars,
    AfterWrite,
    WriteLocked, Writing, Goto, endLeaves, Slots, Answers, Clients, Write
<1>12. ASSUME NEW t \in Txns, EndRefused(t) PROVE Answers'
  BY <1>0, <1>12 DEF EndRefused, Goto, slotVars, connVars, histVars, Answers, Write
<1>13. ASSUME NEW t \in Txns, Dies(t) PROVE Answers'
  BY <1>0, <1>13 DEF Dies, Goto, slotVars, connVars, histVars, Answers, Write
<1>14. CASE BeginReturns
  BY <1>0, <1>14 DEF BeginReturns, Goto, connVars, histVars, TypeOK, Slots, Answers, Write
<1>15. CASE EndReturns
  BY <1>0, <1>15 DEF EndReturns, FlagAfter, Goto, connVars, TypeOK, Answers, Ending, Write
<1>16. CASE Reap
  BY <1>0, <1>16 DEF Reap, EndFails, Undone, connVars, AfterWrite, WriteLocked, Writing,
    endLeaves, Slots,
    Answers, Write
<1>17. CASE Expires
  BY <1>0, <1>17 DEF Expires, connVars, histVars, Answers, Write
<1>18. CASE Restart
  BY <1>0, <1>18 DEF Restart, Cut, Writing, Answers
<1>19. CASE UNCHANGED vars
  BY <1>0, <1>19 DEF vars, slotVars, connVars, histVars, Answers, Write
<1> QED BY <1>1, <1>2, <1>3, <1>4, <1>5, <1>6, <1>7, <1>8, <1>9, <1>10, <1>11, <1>12,
  <1>13, <1>14, <1>15, <1>16, <1>17, <1>18, <1>19 DEF Next, Serve, Transact

\* An answered write stays on the file.
LEMMA AckedStep == ProxyInv /\ [Next]_vars => AckedDurable'
<1> SUFFICES ASSUME ProxyInv, [Next]_vars PROVE AckedDurable'
  OBVIOUS
<1>0. AckedDurable /\ Answers /\ Held /\ Positions /\ Slots /\ TypeOK
  BY DEF ProxyInv
<1>1. ASSUME NEW c \in Clients, Send(c) PROVE AckedDurable'
  BY <1>0, <1>1 DEF Send, Issue, Recorded, Goto, Write, writeLeaves, TypeOK,
    AckedDurable, Acked, Clients
<1>2. ASSUME NEW c \in Clients, Resume(c) PROVE AckedDurable'
  BY <1>0, <1>2 DEF Resume, Issue, Recorded, Goto, Write, writeLeaves, AckedDurable, Acked
<1>3. ASSUME NEW c \in Clients, WriteReturns(c) PROVE AckedDurable'
  BY <1>0, <1>3 DEF WriteReturns, Resumes, Answered, Goto, returnLeaves, histVars,
    TypeOK, Positions, Answers, AckedDurable, Acked, Clients, Write
<1>4. ASSUME NEW c \in Clients, WriteSaves(c) PROVE AckedDurable'
  BY <1>0, <1>4 DEF WriteSaves, Saves, EndFails, Undone, Goto, connVars, AckedDurable,
    Acked
<1>5. ASSUME NEW c \in Clients, SaveReturns(c) PROVE AckedDurable'
  BY <1>0, <1>5 DEF SaveReturns, Answered, Goto, returnLeaves, histVars, TypeOK,
    Positions, Answers, AckedDurable, Acked, Clients, Write
<1>6. ASSUME NEW c \in Clients, WriteFails(c) PROVE AckedDurable'
  BY <1>0, <1>6 DEF WriteFails, Goto, connVars, histVars, TypeOK, AckedDurable, Acked,
    Clients
<1>7. ASSUME NEW c \in Clients, LooseWrite(c) PROVE AckedDurable'
  BY <1>0, <1>7 DEF LooseWrite, Recorded, Write, Goto, Positions, AckedDurable, Acked
<1>8. ASSUME NEW t \in Txns, Begin(t) PROVE AckedDurable'
  BY <1>0, <1>8 DEF Begin, Goto, histVars, AckedDurable, Acked
<1>9. ASSUME NEW t \in Txns, BeginRaises(t) PROVE AckedDurable'
  BY <1>0, <1>9 DEF BeginRaises, histVars, Slots, AckedDurable
<1>10. ASSUME NEW t \in Txns, Commit(t) PROVE AckedDurable'
  BY <1>0, <1>10, ProxyAssumption DEF Commit, SlotBusy, Holds, EndFails, Undone,
    connVars, Goto, endLeaves, Slots, Answers, AckedDurable, Acked, Clients
<1>11. ASSUME NEW t \in Txns, Rollback(t) PROVE AckedDurable'
  BY <1>0, <1>11, ProxyAssumption DEF Rollback, SlotBusy, Holds, EndFails, Undone, connVars,
    Goto, endLeaves,
    Slots, Answers, AckedDurable, Acked, Clients
<1>12. ASSUME NEW t \in Txns, EndRefused(t) PROVE AckedDurable'
  BY <1>0, <1>12 DEF EndRefused, Goto, connVars, histVars, AckedDurable, Acked
<1>13. ASSUME NEW t \in Txns, Dies(t) PROVE AckedDurable'
  BY <1>0, <1>13 DEF Dies, Goto, connVars, histVars, AckedDurable, Acked
<1>14. CASE BeginReturns
  BY <1>0, <1>14 DEF BeginReturns, Goto, connVars, histVars, TypeOK, AckedDurable, Acked,
    Clients
<1>15. CASE EndReturns
  BY <1>0, <1>15 DEF EndReturns, Goto, connVars, TypeOK, AckedDurable, Acked, Clients
<1>16. CASE Reap
  BY <1>0, <1>16 DEF Reap, EndFails, Undone, connVars, endLeaves, Slots, Answers,
    AckedDurable, Acked
<1>17. CASE Expires
  BY <1>0, <1>17 DEF Expires, connVars, histVars, AckedDurable, Acked
<1>18. CASE Restart
  <2>1. ASSUME NEW d \in Clients PROVE at'[d] = "ok" <=> at[d] = "ok"
    BY <1>18 DEF Restart, Cut, Writing
  <2>2. Acked' = Acked
    <3>1. step' = step
      BY <1>18 DEF Restart
    <3>2. {d \in Plain \cup Loose : at'[d] = "ok"} = {d \in Plain \cup Loose : at[d] = "ok"}
      BY <2>1 DEF Clients
    <3> QED BY <3>1, <3>2 DEF Acked
  <2> QED BY <1>0, <1>18, <2>2 DEF Restart, AckedDurable
<1>19. CASE UNCHANGED vars
  BY <1>0, <1>19 DEF vars, connVars, histVars, AckedDurable, Acked
<1> QED BY <1>1, <1>2, <1>3, <1>4, <1>5, <1>6, <1>7, <1>8, <1>9, <1>10, <1>11, <1>12,
  <1>13, <1>14, <1>15, <1>16, <1>17, <1>18, <1>19 DEF Next, Serve, Transact

LEMMA InitInv == Init => ProxyInv
<1> SUFFICES ASSUME Init PROVE ProxyInv
  OBVIOUS
<1>1. TypeOK
  <2>1. step \in [Clients -> 1 .. NSteps + 1]
    BY ProxyAssumption DEF Init
  <2>2. at \in [Clients -> Places]
    BY DEF Init, Places
  <2>3. mishaps \in 0 .. MaxMishaps
    BY ProxyAssumption DEF Init
  <2> QED BY <2>1, <2>2, <2>3 DEF Init, TypeOK
<1>2. Slots /\ Positions
  BY ProxyAssumption DEF Init, Slots, Positions, Ending, Writing, Clients
<1>3. Held /\ Whole /\ Clean /\ Atomic
  BY ProxyAssumption DEF Init, Held, Whole, Clean, Atomic, Settled, Of, Write, Writing, Clients
<1>4. FoldedWaited /\ Answers /\ Owned
  BY DEF Init, FoldedWaited, Answers, Clients, Owned
<1>5. AckedDurable
  BY ProxyAssumption DEF Init, AckedDurable, Acked, Clients
<1> QED BY <1>1, <1>2, <1>3, <1>4, <1>5 DEF ProxyInv

\* Every reachable state satisfies the invariant.
THEOREM ProxyInductive == Spec => []ProxyInv
<1>1. Init => ProxyInv
  BY InitInv
<1>2. ProxyInv /\ [Next]_vars => ProxyInv'
  BY TypeStep, SlotsStep, PositionsStep, HeldStep, OwnedStep, WholeStep, CleanStep,
    AtomicStep, StraightStep, AnswersStep, AckedStep DEF ProxyInv
<1> QED BY <1>1, <1>2, PTL DEF Spec

\* The proxy's variables have their types.
THEOREM TypeCorrect == Spec => []TypeOK
<1>1. ProxyInv => TypeOK
  BY DEF ProxyInv
<1> QED BY <1>1, ProxyInductive, PTL

\* An active transaction has its BEGIN on the connection and the flag set; a released
\* slot leaves neither, unless a commit failed.
THEOREM ConnectionNeverStuck == Spec => []FlagMatches
<1>1. ProxyInv => FlagMatches
  BY DEF ProxyInv, Slots, FlagMatches
<1> QED BY <1>1, ProxyInductive, PTL

\* The file has each transaction whole or nothing that ran inside it, at every moment;
\* whole, if its commit was answered, and nothing, if it failed.
THEOREM TransactionsAtomic == Spec => []AllOrNothing
<1>1. ProxyInv => AllOrNothing
  BY DEF ProxyInv, Whole, Clean, Atomic, Settled, AllOrNothing
<1> QED BY <1>1, ProxyInductive, PTL

\* Whoever waits at the proxy waits for something that moves.
THEOREM SomeoneMoves == Spec => []NoWaitCycle
<1>1. ProxyInv => NoWaitCycle
  <2> SUFFICES ASSUME ProxyInv, NEW c \in Clients, Waits(c) PROVE Moves
    BY DEF NoWaitCycle
  <2>0. Owned /\ Slots /\ TypeOK
    BY DEF ProxyInv
  <2>1. CASE WriteLocked /\ ahead # "slot"
    BY <2>1 DEF Moves
  <2>2. CASE WriteLocked /\ ahead = "slot"
    BY <2>0, <2>2 DEF Owned, Moves
  <2>3. CASE ~WriteLocked
    <3>1. ahead # "write"
      BY <2>0, <2>3 DEF Owned
    <3>2. SlotBusy \/ holder # None
      BY <2>3 DEF Waits, MayPass
    <3>3. SlotBusy \/ slot = "held"
      BY <2>0, <3>2 DEF Slots, SlotBusy
    <3>4. slot = "held" => holder \in Clients
      BY <2>0 DEF TypeOK, Slots, Clients
    <3>5. slot = "held" => at[holder] \notin Writing
      BY <2>3, <3>4 DEF WriteLocked
    <3> QED BY <2>0, <2>3, <3>1, <3>3, <3>5 DEF Owned, Moves
  <2> QED BY <2>1, <2>2, <2>3
<1> QED BY <1>1, ProxyInductive, PTL

\* A write that met an active transaction is not folded into it.
THEOREM GateHolds == Spec => []FoldedWaited
<1>1. ProxyInv => FoldedWaited
  BY DEF ProxyInv
<1> QED BY <1>1, ProxyInductive, PTL

\* An answered write is on the file, if it was not folded and no commit failed.
THEOREM AnswersAreKept == Spec => []AckedDurable
<1>1. ProxyInv => AckedDurable
  BY DEF ProxyInv
<1> QED BY <1>1, ProxyInductive, PTL

=============================================================================
