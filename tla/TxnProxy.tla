------------------------------ MODULE TxnProxy ------------------------------
(***************************************************************************)
(* The SQLite proxy: one process, one connection, every other process a    *)
(* client over HTTP (sqlite_proxy_server.py, db_backend_sqlite.py,         *)
(* db_backend_sqlite_proxy.py, AsyncDatabaseClient.transaction).  A client *)
(* is one coroutine of some process with one request at a time:            *)
(*   - Txns run a transaction: begin, NSteps writes, commit or rollback;   *)
(*   - Plain writers send one write;                                       *)
(*   - Loose writers send one write as if it were a read (execute with     *)
(*     fetch left at True): the read path does not commit.                 *)
(* The connection's thread runs statements in the order they were issued   *)
(* and the event loop resumes their callers in that order, so a statement  *)
(* takes effect when it is issued and its caller goes on in a later step.  *)
(* The write lock admits one write and the state lock one transaction      *)
(* statement; `ahead` says which of the two was issued first.              *)
(***************************************************************************)
EXTENDS Naturals, FiniteSets

CONSTANTS
    Txns, Plain, Loose,
    None,        \* no transaction
    NSteps,      \* writes of a transaction
    MaxMishaps   \* bound: failing statements, slow or dead clients, restarts

Clients == Txns \cup Plain \cup Loose

ASSUME ProxyAssumption ==
    /\ None \notin Clients
    /\ Txns \cap Plain = {} /\ Txns \cap Loose = {} /\ Plain \cap Loose = {}
    /\ NSteps \in Nat \ {0} /\ MaxMishaps \in Nat

VARIABLES
    \* the proxy: _active_txn, the transaction statement under way, its result
    holder, slot, good,
    late,      \* _txn_deadline has passed
    inTxn,     \* SQLiteBackend._in_transaction
    result,    \* result of the statement of the write under way
    ahead,     \* "write" or "slot": which statement under way was issued first
    \* the connection and the file
    conn,      \* no transaction, one the driver opened, or one BEGIN opened
    pend,      \* writes of the open transaction
    disk,      \* committed writes
    \* the clients
    at, step,
    mishaps,
    \* history variables: never read by the actions
    folded,    \* writes executed inside a transaction that was not their own
    intruded,  \* those among them that came straight through the gate
    stray,     \* writes of a transaction executed outside it
    broken,    \* the end of a transaction failed: the flag stays set
    dropped    \* a restart or a write's failed commit may have undone what was open

slotVars == <<holder, slot, good, late, inTxn>>
connVars == <<conn, pend, disk>>
histVars == <<folded, intruded, stray, broken, dropped>>
vars == <<slotVars, result, ahead, connVars, at, step, mishaps, histVars>>

Init ==
    /\ holder = None /\ slot = "free" /\ good = TRUE /\ late = FALSE
    /\ inTxn = FALSE /\ result = "ok" /\ ahead = "none"
    /\ conn = "none" /\ pend = {} /\ disk = {}
    /\ at = [c \in Clients |-> "idle"] /\ step = [c \in Clients |-> 1]
    /\ mishaps = 0
    /\ folded = {} /\ intruded = {} /\ stray = {}
    /\ broken = FALSE /\ dropped = FALSE

Mishap == mishaps < MaxMishaps /\ mishaps' = mishaps + 1
Calm == UNCHANGED mishaps

Goto(c, p) == at' = [at EXCEPT ![c] = p]
\* The write a client is at.
Write(c) == <<c, step[c]>>

\* Between the two awaits of a write, under _write_lock.
Writing == {"written", "saving"}
WriteLocked == \E c \in Clients : at[c] \in Writing
\* Under _state_lock, across an await.
SlotBusy == slot \notin {"free", "held"}

\* Who resumes first when a transaction statement, or a write's, is issued now.
AfterWrite == IF WriteLocked THEN "write" ELSE "none"
AfterSlot  == IF SlotBusy THEN "slot" ELSE "none"

-----------------------------------------------------------------------------
(* Transactions: begin, commit, rollback, the watchdog.                      *)

\* transaction_begin waits for the slot, claims it and issues BEGIN, which SQLite
\* refuses while the driver has a transaction open.  A backend that believes itself
\* in a transaction raises at once.
Begin(t) ==
    /\ at[t] = "idle" /\ holder = None /\ ~inTxn
    /\ holder' = t /\ slot' = "begin" /\ late' = FALSE
    /\ good' = (conn = "none")
    /\ conn' = IF conn = "none" THEN "explicit" ELSE conn
    /\ ahead' = AfterWrite
    /\ Goto(t, "starting")
    /\ UNCHANGED <<inTxn, result, pend, disk, step, mishaps, histVars>>

BeginRaises(t) ==
    /\ at[t] = "idle" /\ holder = None /\ inTxn
    /\ Goto(t, "failed")
    /\ UNCHANGED <<slotVars, result, ahead, connVars, step, mishaps, histVars>>

FlagOn == TRUE

BeginReturns ==
    /\ slot = "begin" /\ ahead # "write"
    /\ ahead' = "none"
    /\ IF good
         THEN slot' = "held" /\ inTxn' = FlagOn /\ Goto(holder, "body") /\ UNCHANGED holder
         ELSE slot' = "free" /\ holder' = None /\ Goto(holder, "failed") /\ UNCHANGED inTxn
    /\ good' = TRUE
    /\ UNCHANGED <<late, result, connVars, step, mishaps, histVars>>

\* The body of `async with transaction()` has writes left.
More(t) == step[t] <= NSteps

\* Mutated Holds: any token will do while some transaction is active.
SomeTxn(t) == holder # None
\* _end_transaction: the token must be the active one.
Holds(t) == holder = t

Undone == pend' = {} /\ conn' = "none" /\ UNCHANGED disk

endLeaves == <<late, inTxn, holder, result, step, folded, intruded, stray, dropped>>

\* A COMMIT or a ROLLBACK that fails leaves the transaction open, or undone by SQLite.
EndFails == Mishap /\ (Undone \/ UNCHANGED connVars)

Commit(t) ==
    /\ at[t] = "body" /\ ~More(t)
    /\ ~SlotBusy /\ Holds(t)
    /\ \/ /\ good' = TRUE
          /\ disk' = disk \cup pend /\ pend' = {} /\ conn' = "none"
          /\ Calm
       \/ good' = FALSE /\ EndFails
    /\ slot' = "commit" /\ ahead' = AfterWrite
    /\ Goto(t, "closing")
    /\ UNCHANGED <<endLeaves, broken>>

\* The body raised, or a write of it did (AsyncDatabaseClient.transaction).
Rollback(t) ==
    /\ at[t] \in {"body", "unwinding"}
    /\ ~SlotBusy /\ Holds(t)
    /\ \/ good' = TRUE /\ Undone /\ Calm
       \/ good' = FALSE /\ EndFails
    /\ slot' = "rollback" /\ ahead' = AfterWrite
    /\ Goto(t, "closing")
    /\ UNCHANGED <<endLeaves, broken>>

\* "unknown or expired transaction", to a commit or a rollback.
EndRefused(t) ==
    /\ at[t] \in {"body", "unwinding"}
    /\ ~SlotBusy /\ ~Holds(t)
    /\ at[t] = "body" => ~More(t)
    /\ Goto(t, "failed")
    /\ UNCHANGED <<slotVars, result, ahead, connVars, step, mishaps, histVars>>

\* Mutated Overdue: the deadline is set by the first write and not by begin.
OnceWritten == late /\ step[holder] > 1
\* _txn_deadline is set once, by begin.
Overdue == late

\* _reap_expired_txn
Reap ==
    /\ slot = "held" /\ Overdue
    /\ \/ good' = TRUE /\ Undone /\ Calm
       \/ good' = FALSE /\ EndFails
    /\ slot' = "reap" /\ ahead' = AfterWrite
    /\ UNCHANGED <<endLeaves, at, broken>>

\* Mutated FlagAfter: the flag is left to the next begin.
FlagKept(ok) == inTxn
\* SQLiteBackend.commit and rollback clear the flag after the statement succeeded.
FlagAfter(ok) == IF ok THEN FALSE ELSE inTxn

\* Mutated Released: a COMMIT that fails keeps the slot.
ReleasedIf(ok) == IF ok THEN slot' = "free" /\ holder' = None ELSE slot' = "held" /\ UNCHANGED holder
\* The slot is released whatever the statement did.
Released(ok) == slot' = "free" /\ holder' = None

EndReturns ==
    /\ slot \in {"commit", "rollback", "reap"} /\ ahead # "write"
    /\ ahead' = "none"
    /\ Released(good)
    /\ inTxn' = FlagAfter(good)
    /\ broken' = (broken \/ ~good)
    /\ IF slot = "reap"
         THEN UNCHANGED at
         ELSE Goto(holder, IF slot = "commit" /\ good THEN "committed" ELSE "failed")
    /\ good' = TRUE /\ late' = FALSE
    /\ UNCHANGED <<result, connVars, step, mishaps, folded, intruded, stray, dropped>>

-----------------------------------------------------------------------------
(* Writes.                                                                  *)

\* Mutated MayPass: writes are not gated.
Ungated(c) == TRUE
\* _await_txn_turn: no transaction is active, or the write carries its token.
MayPass(c) == ~SlotBusy /\ holder \in {None, c}

\* In whose transaction a statement issued now runs.
Recorded(c, direct) ==
    LET own == conn = "explicit" /\ holder = c
        fold == IF conn = "explicit" /\ ~own THEN {Write(c)} ELSE {} IN
    /\ folded' = folded \cup fold
    /\ intruded' = IF direct THEN intruded \cup fold ELSE intruded
    /\ stray' = IF c \in Txns /\ ~own THEN stray \cup {Write(c)} ELSE stray

\* The statement of a write is issued.  The driver opens a transaction first if none
\* is open, and leaves it open if the statement fails.
Issue(c, direct) ==
    /\ conn' = IF conn = "none" THEN "implicit" ELSE conn
    /\ \/ /\ result' = "ok" /\ pend' = pend \cup {Write(c)}
          /\ Calm /\ Recorded(c, direct)
       \/ /\ result' \in {"error", "locked"}
          /\ Mishap /\ UNCHANGED <<pend, folded, intruded, stray>>
    /\ ahead' = AfterSlot
    /\ Goto(c, "written")

writeLeaves == <<slotVars, disk, step, broken, dropped>>

Ready(c) ==
    \/ c \in Plain /\ at[c] = "idle"
    \/ c \in Txns /\ at[c] = "body" /\ More(c)

\* Through the gate; without a free write lock it waits behind it.
Send(c) ==
    /\ Ready(c) /\ MayPass(c)
    /\ IF WriteLocked \/ \E d \in Clients : at[d] = "queued"
         THEN /\ Goto(c, "queued")
              /\ UNCHANGED <<result, ahead, conn, pend, mishaps, folded, intruded, stray>>
         ELSE Issue(c, TRUE)
    /\ UNCHANGED writeLeaves

\* The lock is free, or a retry after "database is locked" is due: the gate is not
\* asked again.
Resume(c) ==
    /\ at[c] \in {"queued", "asleep"} /\ ~WriteLocked
    /\ Issue(c, FALSE)
    /\ UNCHANGED writeLeaves

Answered(c) ==
    IF c \in Txns THEN Goto(c, "body") /\ step' = [step EXCEPT ![c] = @ + 1]
                  ELSE Goto(c, "ok") /\ UNCHANGED step

Resumes == ahead # "slot" /\ ahead' = "none"
returnLeaves == <<slotVars, result, pend, disk, conn, mishaps, histVars>>

\* Inside a transaction, the backend believes, there is nothing to commit.
WriteReturns(c) ==
    /\ at[c] = "written" /\ result = "ok" /\ inTxn
    /\ Resumes /\ Answered(c)
    /\ UNCHANGED returnLeaves

\* Mutated Saves: a write outside a transaction is not committed either.
SavesNothing == UNCHANGED <<disk, pend, conn>>
\* conn.commit: whatever the connection has open.
Saves == disk' = disk \cup pend /\ pend' = {} /\ conn' = "none"

WriteSaves(c) ==
    /\ at[c] = "written" /\ result = "ok" /\ ~inTxn
    /\ ahead # "slot" /\ ahead' = AfterSlot
    /\ \/ Saves /\ Calm /\ UNCHANGED <<result, dropped>>
       \/ result' \in {"error", "locked"} /\ EndFails /\ dropped' = TRUE
    /\ Goto(c, "saving")
    /\ UNCHANGED <<slotVars, step, folded, intruded, stray, broken>>

SaveReturns(c) ==
    /\ at[c] = "saving" /\ result = "ok"
    /\ Resumes /\ Answered(c)
    /\ UNCHANGED returnLeaves

\* The error reaches the client, or the write sleeps and tries again.
WriteFails(c) ==
    /\ at[c] \in Writing /\ result # "ok"
    /\ Resumes
    /\ IF result = "locked"
         THEN Goto(c, "asleep")
         ELSE Goto(c, IF c \in Txns THEN "unwinding" ELSE "failed")
    /\ result' = "ok"
    /\ UNCHANGED <<slotVars, connVars, mishaps, histVars, step>>

\* A write on the read path: gated, not locked, not committed.
LooseWrite(c) ==
    /\ c \in Loose /\ at[c] = "idle" /\ MayPass(c)
    /\ conn' = IF conn = "none" THEN "implicit" ELSE conn
    /\ pend' = pend \cup {Write(c)}
    /\ Recorded(c, TRUE)
    /\ Goto(c, "ok")
    /\ UNCHANGED <<slotVars, result, ahead, disk, step, mishaps, broken, dropped>>

-----------------------------------------------------------------------------
(* Slow and dead clients, restarts of the proxy.                            *)

\* A client that died leaves its transaction open; one that is slow is overtaken by
\* the deadline and does not know.
Dies(t) ==
    /\ at[t] = "body" /\ Mishap
    /\ Goto(t, "gone")
    /\ UNCHANGED <<slotVars, result, ahead, connVars, step, histVars>>

Expires ==
    /\ slot = "held" /\ ~late /\ late' = TRUE
    /\ IF at[holder] = "gone" THEN Calm ELSE Mishap
    /\ UNCHANGED <<holder, slot, good, inTxn, result, ahead, connVars, at, step, histVars>>

\* What is on the file stays; requests under way fail, and the client cannot tell
\* whether a commit that was under way happened.
Cut(c) ==
    CASE at[c] = "starting" -> "failed"
      [] at[c] \in {"queued", "asleep"} \cup Writing -> IF c \in Txns THEN "unwinding" ELSE "unsure"
      [] at[c] = "closing" -> "unsure"
      [] OTHER -> at[c]

Restart ==
    /\ Mishap
    /\ holder' = None /\ slot' = "free" /\ late' = FALSE /\ inTxn' = FALSE
    /\ good' = TRUE /\ result' = "ok"
    /\ ahead' = "none" /\ conn' = "none" /\ pend' = {}
    /\ at' = [c \in Clients |-> Cut(c)]
    /\ dropped' = TRUE
    /\ UNCHANGED <<disk, step, folded, intruded, stray, broken>>

-----------------------------------------------------------------------------
Serve(c) ==
    \/ Send(c) \/ Resume(c) \/ WriteReturns(c) \/ WriteSaves(c) \/ SaveReturns(c)
    \/ WriteFails(c) \/ LooseWrite(c)

Transact(t) ==
    \/ Begin(t) \/ BeginRaises(t) \/ Commit(t) \/ Rollback(t) \/ EndRefused(t)

Next ==
    \/ \E c \in Clients : Serve(c)
    \/ \E t \in Txns : Transact(t) \/ Dies(t)
    \/ BeginReturns \/ EndReturns \/ Reap \/ Expires \/ Restart

Spec == Init /\ [][Next]_vars

\* A client that lives goes on with its request or its transaction.
Proceeds(c) == Serve(c) \/ (c \in Txns /\ (Commit(c) \/ Rollback(c) \/ EndRefused(c)))

\* Statements return; the deadline of a client that died comes, and the watchdog, which
\* passes every two seconds, meets it.  Nothing is assumed of failures, nor that a
\* transaction begins.
Fairness ==
    /\ \A c \in Clients : WF_vars(Proceeds(c))
    /\ WF_vars(BeginReturns \/ EndReturns)
    /\ WF_vars(Reap \/ (Expires /\ Calm))

FairSpec == Spec /\ Fairness

-----------------------------------------------------------------------------
(* Properties.                                                              *)

Places == {"idle", "starting", "body", "closing", "unwinding", "gone", "queued", "written",
           "saving", "asleep", "committed", "failed", "unsure", "ok"}
Writes == Clients \X (1 .. NSteps + 1)

TypeOK ==
    /\ holder \in Txns \cup {None}
    /\ slot \in {"free", "begin", "held", "commit", "rollback", "reap"}
    /\ good \in BOOLEAN /\ late \in BOOLEAN /\ inTxn \in BOOLEAN
    /\ result \in {"ok", "error", "locked"} /\ ahead \in {"none", "write", "slot"}
    /\ conn \in {"none", "implicit", "explicit"}
    /\ pend \subseteq Writes /\ disk \subseteq Writes
    /\ at \in [Clients -> Places] /\ step \in [Clients -> 1 .. NSteps + 1]
    /\ mishaps \in 0 .. MaxMishaps
    /\ folded \subseteq Writes /\ intruded \subseteq Writes /\ stray \subseteq Writes
    /\ broken \in BOOLEAN /\ dropped \in BOOLEAN

Of(t) == {t} \X (1 .. NSteps)

\* The writes answered with success.
Acked == {<<c, 1>> : c \in {d \in Plain \cup Loose : at[d] = "ok"}}
         \cup UNION {{t} \X (1 .. step[t] - 1) : t \in Txns}

\* The connection is in a transaction exactly while the slot is held (P4, "a client that
\* dies mid-transaction leaves the shared connection stuck in a transaction forever"):
\* an active transaction has its BEGIN on the connection and the backend's flag set, and
\* a released slot leaves neither, unless the statement that was to end it failed.
FlagMatches ==
    /\ slot = "held" => inTxn /\ conn = "explicit" /\ holder # None
    /\ slot = "free" /\ ~broken => ~inTxn /\ conn # "explicit"

\* At every moment, and so after a restart at any moment and for a client that was never
\* answered, the file has a transaction whole or nothing of it, but for the writes that
\* were issued after the watchdog had ended it: the gate lets them through as anyone's
\* (_await_txn_turn), or they had passed it and waited for the lock or a retry.  And
\* unless its COMMIT or ROLLBACK failed and left it open.  Whole, if its commit was
\* answered with success, whatever expired, died, was retried or failed meanwhile;
\* nothing, if it failed at its client (AsyncDatabaseClient.transaction).
AllOrNothing ==
    \A t \in Txns :
        LET whole == Of(t) \subseteq disk
            nothing == Of(t) \cap disk \subseteq stray IN
        /\ at[t] = "committed" => whole
        /\ ~broken => (whole \/ nothing) /\ (at[t] = "failed" => nothing)

\* The gate (P1): a write that found a transaction active is never folded into it.  Only
\* one that had passed the gate before, and then waited for the write lock or for its
\* retry, is, or one that follows a COMMIT or a ROLLBACK that failed.
FoldedWaited == broken \/ intruded = {}

\* A request that waits: a write or a BEGIN at the gate or for the slot, an end of a
\* transaction for the statement under way, a write for the write lock.
Waits(c) ==
    \/ at[c] \in {"idle", "body", "unwinding"} /\ ~MayPass(c)
    \/ at[c] \in {"queued", "asleep"} /\ WriteLocked

\* What does not wait: a statement that returns next, or the client of the active
\* transaction, which goes on, or died and is the watchdog's.
Moves ==
    \/ WriteLocked /\ ahead # "slot"
    \/ SlotBusy /\ ahead # "write"
    \/ /\ slot = "held"
       /\ \/ at[holder] \in {"body", "unwinding", "gone"}
          \/ at[holder] \in {"queued", "asleep"} /\ ~WriteLocked

\* The slot, the gate, the write lock and the order statements return in never make
\* everyone wait for everyone (_state_lock, _txn_done, _write_lock).
NoWaitCycle == (\E c \in Clients : Waits(c)) => Moves

\* A write answered with success is on the file, if it was not folded and no
\* transaction's end failed; one sent on the read path may still be uncommitted, and
\* lost by what undoes it.
AckedDurable ==
    \A w \in Acked \ folded :
       \/ w \in disk \/ broken
       \/ w[1] \in Loose /\ (w \in pend \/ dropped)
       \/ w[1] \in Txns /\ w \notin stray

\* Every write of a client outside transactions is answered, or fails, though a client
\* that died holds the slot in front of it (_transaction_watchdog).
WritesAnswered ==
    \A c \in Plain \cup Loose : <>(at[c] \in {"ok", "failed", "unsure"})
=============================================================================
