---------------------------- MODULE ExecutorPool ----------------------------
(***************************************************************************)
(* Admission of runs and the containers they run in.  The cloud            *)
(* orchestrator is two processes, backend and workers; both drive runs.    *)
(* The actors:                                                             *)
(*   - AgentAdmissionController (admission.py), one per process: a run     *)
(*     waits in acquire until the caps and the free memory admit it;       *)
(*   - a run (client.py, background_run.py, step_3_agent_loop.py): slot,   *)
(*     running row, verdict, container, loop, slot back, terminal row;     *)
(*   - ExecutorReaper (executor_reaper.py), in the backend only: it claims *)
(*     users the backend saw go idle, asks the events table about runs of  *)
(*     other processes, and has the broker stop the container;             *)
(*   - the broker and the machine, which are external: containers, their   *)
(*     images, free memory.                                                *)
(* A user has one container, whatever process drives its runs.  Time is    *)
(* abstract: an idle stamp is young or past the TTL; the row of a run that *)
(* nobody drives loses its heartbeat.                                      *)
(***************************************************************************)
EXTENDS Naturals, FiniteSets

CONSTANTS
    Runs, Users, Procs,
    Backend,         \* the process the reaper runs in
    Owner,           \* the user of a run
    Home,            \* the process that drives it
    NoUser,
    MaxUsers, MaxLoopsPerUser, MaxLoops,    \* the caps of a process, 0: none
    MemGuard,        \* MIN_FREE_MEM_MB is set
    MaxMishaps       \* bound: restarts, failing calls, refusals, new executor images
                     \* and times the machine runs low on memory, together

ASSUME PoolAssumption ==
    /\ IsFiniteSet(Runs) /\ IsFiniteSet(Users)
    /\ Backend \in Procs /\ NoUser \notin Users
    /\ Owner \in [Runs -> Users] /\ Home \in [Runs -> Procs]
    /\ MaxUsers \in Nat /\ MaxLoopsPerUser \in Nat /\ MaxLoops \in Nat
    /\ MemGuard \in BOOLEAN
    /\ MaxMishaps \in Nat

VARIABLES
    \* the runs
    at,          \* where the run is
    row,         \* its events row: running with a fresh heartbeat, or not
    may,         \* its verdict: the broker may replace a stale container
    \* the controllers
    total,       \* _global, by process
    active,      \* _per_user, by process
    stamp,       \* _idle_since of the backend
    \* a pass of the reaper
    pass,        \* claiming, stopping, or between passes
    cand,        \* candidates not judged yet
    same,        \* candidates whose stamp is still the one the pass read
    clear,       \* candidates judged idle
    todo,        \* claimed users, to be stopped
    cur,         \* the user whose stop is on its way to the broker
    \* external
    cont,        \* the container of a user: none, or up on a new or an old image
    low,         \* free memory is below MIN_FREE_MEM_MB
    \* bound
    mishaps,
    \* history variables: never read by the actions
    memHeld,     \* runs the last check of which failed for the memory alone
    late,        \* runs that went running since the last recheck
    owed         \* users idle in the backend with a container up

runVars  == <<at, row, may>>
admVars  == <<total, active, stamp>>
passVars == <<pass, cand, same, clear, todo, cur>>
extVars  == <<cont, low>>
hist     == <<memHeld, late, owed>>
vars == <<runVars, admVars, passVars, extVars, mishaps, hist>>

Places == {"none", "asleep", "woken", "admitted", "recorded", "asked", "ensured",
           "looping", "closing", "closed", "done"}

\* Types, and the shape of a pass: users are judged while it claims, and it is not over
\* before each claimed one has been seen to.
TypeOK ==
    /\ at \in [Runs -> Places]
    /\ row \in [Runs -> {"none", "live", "over"}]
    /\ may \in [Runs -> BOOLEAN]
    /\ total \in [Procs -> Nat]
    /\ active \in [Procs -> [Users -> Nat]]
    /\ stamp \in [Users -> {"none", "young", "due"}]
    /\ pass \in {"idle", "claiming", "stopping"}
    /\ cand \subseteq Users /\ same \subseteq Users /\ clear \subseteq Users
    /\ todo \subseteq Users /\ cur \in todo \cup {NoUser}
    /\ pass # "claiming" => cand = {}
    /\ pass # "stopping" => todo = {}
    /\ cont \in [Users -> {"none", "new", "old"}]
    /\ low \in BOOLEAN
    /\ mishaps \in Nat
    /\ memHeld \subseteq Runs /\ late \subseteq Runs /\ owed \subseteq Users

Init ==
    /\ at = [r \in Runs |-> "none"]
    /\ row = [r \in Runs |-> "none"]
    /\ may = [r \in Runs |-> FALSE]
    /\ total = [p \in Procs |-> 0]
    /\ active = [p \in Procs |-> [u \in Users |-> 0]]
    /\ stamp = [u \in Users |-> "none"]
    /\ pass = "idle" /\ cand = {} /\ same = {} /\ clear = {} /\ todo = {}
    /\ cur = NoUser
    /\ cont = [u \in Users |-> "none"]
    /\ low = FALSE
    /\ mishaps = 0
    /\ memHeld = {} /\ late = {} /\ owed = {}

Mishap == mishaps < MaxMishaps /\ mishaps' = mishaps + 1
Goto(r, p) == at' = [at EXCEPT ![r] = p]

-----------------------------------------------------------------------------
(* Admission: acquire and release.                                           *)

ActiveUsers(p) == {u \in Users : active[p][u] > 0}

\* Mutated WithinCaps: one user more than the cap.
WithinCapsLax(p, u) ==
    /\ MaxLoops = 0 \/ total[p] < MaxLoops
    /\ MaxLoopsPerUser = 0 \/ active[p][u] < MaxLoopsPerUser
    /\ MaxUsers = 0 \/ Cardinality(ActiveUsers(p)) <= MaxUsers
WithinCaps(p, u) ==
    /\ MaxLoops = 0 \/ total[p] < MaxLoops
    /\ MaxLoopsPerUser = 0 \/ active[p][u] < MaxLoopsPerUser
    /\ MaxUsers = 0 \/ active[p][u] > 0 \/ Cardinality(ActiveUsers(p)) < MaxUsers

MemoryHolds == MemGuard /\ low

\* A run asks for its slot, or asks again: it was woken.  Admitted, its user is not
\* idle any more.  Refused, it sleeps until somebody notifies the condition.
Acquire(r) ==
    LET p == Home[r]
        u == Owner[r] IN
    /\ at[r] \in {"none", "woken"}
    /\ IF WithinCaps(p, u) /\ ~MemoryHolds
       THEN /\ Goto(r, "admitted")
            /\ total' = [total EXCEPT ![p] = @ + 1]
            /\ active' = [active EXCEPT ![p][u] = @ + 1]
            /\ IF p = Backend
               THEN /\ stamp' = [stamp EXCEPT ![u] = "none"]
                    /\ same' = same \ {u} /\ owed' = owed \ {u}
               ELSE UNCHANGED <<stamp, same, owed>>
            /\ memHeld' = memHeld \ {r}
       ELSE /\ Goto(r, "asleep")
            /\ memHeld' = IF WithinCaps(p, u) THEN memHeld \cup {r} ELSE memHeld \ {r}
            /\ UNCHANGED <<admVars, same, owed>>
    /\ UNCHANGED <<row, may, pass, cand, clear, todo, cur, extVars, mishaps, late>>

\* Mutated Notified: only the waiters of the user whose loop ended check again.
NotifiedOwn(r, q) == at[q] = "asleep" /\ Home[q] = Home[r] /\ Owner[q] = Owner[r]
\* notify_all: every waiter of the process checks again.
Notified(r, q) == at[q] = "asleep" /\ Home[q] = Home[r]

\* The slot comes back.  The last loop of a user in the backend leaves a stamp.
Release(r) ==
    LET p == Home[r]
        u == Owner[r] IN
    /\ at[r] = "closing"
    /\ at' = [q \in Runs |-> IF q = r THEN "closed"
                             ELSE IF Notified(r, q) THEN "woken" ELSE at[q]]
    /\ total' = [total EXCEPT ![p] = IF @ > 0 THEN @ - 1 ELSE 0]
    /\ IF active[p][u] > 0
       THEN /\ active' = [active EXCEPT ![p][u] = @ - 1]
            /\ IF p = Backend /\ active[p][u] = 1
               THEN /\ stamp' = [stamp EXCEPT ![u] = "young"]
                    /\ same' = same \ {u}
                    /\ owed' = IF cont[u] = "none" THEN owed ELSE owed \cup {u}
               ELSE UNCHANGED <<stamp, same, owed>>
       ELSE UNCHANGED <<active, stamp, same, owed>>
    /\ UNCHANGED <<row, may, pass, cand, clear, todo, cur, extVars, mishaps, memHeld, late>>

-----------------------------------------------------------------------------
(* A run that holds a slot.                                                  *)

\* _bind_run_id: the row goes running; the write may be lost, or the run may have no
\* recorder at all.
Record(r) ==
    /\ at[r] = "admitted"
    /\ Goto(r, "recorded")
    /\ \/ row' = [row EXCEPT ![r] = "live"] /\ late' = late \cup {r} /\ UNCHANGED mishaps
       \/ Mishap /\ UNCHANGED <<row, late>>
    /\ UNCHANGED <<may, admVars, passVars, extVars, memHeld, owed>>

\* first_live_run_id: a row of the user that is running and beats.
LiveRuns(u) == {q \in Runs : Owner[q] = u /\ row[q] = "live"}

\* Mutated OthersLive: only runs the process itself drives.
OthersHere(r) == {q \in LiveRuns(Owner[r]) : q # r /\ Home[q] = Home[r]}
\* The runs that stand against a replacement: the asking one is not among them.
OthersLive(r) == LiveRuns(Owner[r]) \ {r}

\* no_live_recorded_run_for; a read that fails says no.
Ask(r) ==
    /\ at[r] = "recorded"
    /\ Goto(r, "asked")
    /\ \/ may' = [may EXCEPT ![r] = OthersLive(r) = {}] /\ UNCHANGED mishaps
       \/ Mishap /\ may' = [may EXCEPT ![r] = FALSE]
    /\ UNCHANGED <<row, admVars, passVars, extVars, hist>>

\* ensure_executor: the broker starts a container, keeps the one that is up, or, allowed
\* to, replaces one on an old image, and the loops that ran in it break.
Ensure(r) ==
    LET u == Owner[r]
        Replaced == cont[u] = "old" /\ may[r] IN
    /\ at[r] = "asked"
    /\ at' = [q \in Runs |-> IF q = r THEN "ensured"
                             ELSE IF Replaced /\ Owner[q] = u /\ at[q] = "looping"
                                  THEN "closing" ELSE at[q]]
    /\ cont' = [cont EXCEPT ![u] = IF @ = "old" /\ ~may[r] THEN "old" ELSE "new"]
    /\ may' = [may EXCEPT ![r] = FALSE]
    /\ UNCHANGED <<row, admVars, passVars, low, mishaps, hist>>

\* The broker cannot be reached, or the container does not boot: the turn ends.
EnsureFails(r) ==
    /\ at[r] = "asked"
    /\ Mishap
    /\ Goto(r, "closing")
    /\ may' = [may EXCEPT ![r] = FALSE]
    /\ UNCHANGED <<row, admVars, passVars, extVars, hist>>

\* The stream of the loop is opened; without a container the turn ends here.
Connect(r) ==
    /\ at[r] = "ensured"
    /\ Goto(r, IF cont[Owner[r]] = "none" THEN "closing" ELSE "looping")
    /\ UNCHANGED <<row, may, admVars, passVars, extVars, mishaps, hist>>

LoopEnds(r) ==
    /\ at[r] = "looping"
    /\ Goto(r, "closing")
    /\ UNCHANGED <<row, may, admVars, passVars, extVars, mishaps, hist>>

\* finalize, after the slot; its write may be lost.
Finalize(r) ==
    /\ at[r] = "closed"
    /\ Goto(r, "done")
    /\ \/ row' = [row EXCEPT ![r] = "over"] /\ UNCHANGED mishaps
       \/ Mishap /\ UNCHANGED row
    /\ UNCHANGED <<may, admVars, passVars, extVars, hist>>

\* run_is_live: nobody drives the run any more, and three beats are missed.
GoesStale(r) ==
    /\ at[r] = "done" /\ row[r] = "live"
    /\ row' = [row EXCEPT ![r] = "over"]
    /\ UNCHANGED <<at, may, admVars, passVars, extVars, mishaps, hist>>

-----------------------------------------------------------------------------
(* A pass of the reaper: claim_idle_users, then recheck and stop.            *)

Ages(u) ==
    /\ stamp[u] = "young"
    /\ stamp' = [stamp EXCEPT ![u] = "due"]
    /\ UNCHANGED <<runVars, total, active, passVars, extVars, mishaps, hist>>

ClaimStarts ==
    LET Due == {u \in Users : stamp[u] = "due"} IN
    /\ pass = "idle" /\ Due # {}
    /\ pass' = "claiming"
    /\ cand' = Due /\ same' = Due /\ clear' = {}
    /\ UNCHANGED <<runVars, admVars, todo, cur, extVars, mishaps, hist>>

\* The veto, outside the lock, one candidate after the other; no verdict is busy.
Judge(u) ==
    /\ u \in cand
    /\ cand' = cand \ {u}
    /\ \/ clear' = (IF LiveRuns(u) = {} THEN clear \cup {u} ELSE clear) /\ UNCHANGED mishaps
       \/ Mishap /\ UNCHANGED clear
    /\ UNCHANGED <<runVars, admVars, pass, same, todo, cur, extVars, hist>>

\* The second look under the lock: judged idle, and the stamp is the one that was read.
Claimable == clear \cap same

ClaimEnds ==
    /\ pass = "claiming" /\ cand = {}
    /\ todo' = Claimable
    /\ stamp' = [u \in Users |-> IF u \in Claimable THEN "none" ELSE stamp[u]]
    /\ pass' = IF Claimable = {} THEN "idle" ELSE "stopping"
    /\ same' = {} /\ clear' = {}
    /\ UNCHANGED <<runVars, total, active, cand, cur, extVars, mishaps, hist>>

\* Mutated Restamped: a user that was claimed and not stopped stays without a stamp.
NotRestamped(u) == stamp
\* restamp_idle: setdefault, for a user without a loop.
Restamped(u) ==
    [stamp EXCEPT ![u] = IF active[Backend][u] = 0 /\ @ = "none" THEN "young" ELSE @]

\* The pass is over when the last claimed user has been seen to.
PassDone(rest) == pass' = IF rest = {} THEN "idle" ELSE "stopping"

\* Mutated StillIdle: the verdict of the claim is taken for good.
Presumed(u) == TRUE
\* The veto asked again, right before the stop.
StillIdle(u) == LiveRuns(u) = {}

Recheck(u) ==
    /\ cur = NoUser /\ u \in todo
    /\ late' = {}
    /\ \/ /\ StillIdle(u)
          /\ cur' = u
          /\ UNCHANGED <<stamp, pass, todo, mishaps>>
       \/ /\ (~StillIdle(u) /\ UNCHANGED mishaps) \/ Mishap
          /\ stamp' = Restamped(u)
          /\ todo' = todo \ {u} /\ PassDone(todo \ {u})
          /\ UNCHANGED cur
    /\ UNCHANGED <<runVars, total, active, cand, same, clear, extVars,
                   memHeld, owed>>

\* InFlightWorkMiddleware and /health: busy while a loop streams from the container.
InFlight(u) == \E r \in Runs : Owner[r] = u /\ at[r] = "looping"

\* stop_executor: stopped; or refused, for a loop or for a holder without a run; or the
\* call fails, with the container stopped or not.
Stop ==
    /\ cur # NoUser
    /\ cur' = NoUser
    /\ todo' = todo \ {cur} /\ PassDone(todo \ {cur})
    /\ \/ /\ ~InFlight(cur)
          /\ cont' = [cont EXCEPT ![cur] = "none"] /\ owed' = owed \ {cur}
          /\ UNCHANGED stamp /\ UNCHANGED mishaps
       \/ /\ (InFlight(cur) /\ UNCHANGED mishaps) \/ Mishap
          /\ stamp' = Restamped(cur)
          /\ UNCHANGED <<cont, owed>>
       \/ /\ ~InFlight(cur) /\ Mishap
          /\ stamp' = Restamped(cur)
          /\ cont' = [cont EXCEPT ![cur] = "none"] /\ owed' = owed \ {cur}
    /\ UNCHANGED <<runVars, total, active, cand, same, clear, low,
                   memHeld, late>>

-----------------------------------------------------------------------------
(* Restarts, deployments, the machine.                                       *)

\* A process dies: its runs, its controller and, in the backend, its reaper.
Restart(p) ==
    /\ Mishap
    /\ at' = [r \in Runs |-> IF Home[r] = p /\ at[r] # "none" THEN "done" ELSE at[r]]
    /\ may' = [r \in Runs |-> may[r] /\ Home[r] # p]
    /\ total' = [total EXCEPT ![p] = 0]
    /\ active' = [active EXCEPT ![p] = [u \in Users |-> 0]]
    /\ IF p = Backend
       THEN /\ stamp' = [u \in Users |-> "none"]
            /\ pass' = "idle" /\ cand' = {} /\ same' = {} /\ clear' = {} /\ todo' = {}
            /\ cur' = NoUser /\ owed' = {}
       ELSE UNCHANGED <<stamp, passVars, owed>>
    /\ UNCHANGED <<row, extVars, memHeld, late>>

\* external: the executor image changes; what is up runs the old one.
Deploy ==
    /\ Mishap
    /\ cont' = [u \in Users |-> IF cont[u] = "new" THEN "old" ELSE cont[u]]
    /\ UNCHANGED <<runVars, admVars, passVars, low, hist>>

\* external: _free_mem_mb
MemoryLow ==
    /\ ~low /\ Mishap
    /\ low' = TRUE
    /\ UNCHANGED <<runVars, admVars, passVars, cont, hist>>
MemoryBack ==
    /\ low /\ low' = FALSE
    /\ UNCHANGED <<runVars, admVars, passVars, cont, mishaps, hist>>

RunStep(r) ==
    \/ Acquire(r) \/ Record(r) \/ Ask(r) \/ Ensure(r) \/ EnsureFails(r) \/ Connect(r)
    \/ LoopEnds(r) \/ Release(r) \/ Finalize(r) \/ GoesStale(r)

ReapStep == ClaimStarts \/ ClaimEnds \/ Stop \/ \E u \in Users : Judge(u) \/ Recheck(u)

Next ==
    \/ \E r \in Runs : RunStep(r)
    \/ ReapStep
    \/ \E u \in Users : Ages(u)
    \/ \E p \in Procs : Restart(p)
    \/ Deploy \/ MemoryLow \/ MemoryBack

Spec == Init /\ [][Next]_vars

\* The event loop of a process runs what can run; a loop ends; the reaper passes at its
\* interval and time goes by; memory comes back.  A first acquire is the environment's.
Fairness ==
    /\ \A r \in Runs : WF_vars(at[r] # "none" /\ RunStep(r))
    /\ WF_vars(ReapStep)
    /\ WF_vars(\E u \in Users : Ages(u))
    /\ WF_vars(MemoryBack)

FairSpec == Spec /\ Fairness

-----------------------------------------------------------------------------
(* Properties.                                                               *)

\* The runs that hold a slot of a process: admitted, and not released yet.
Holding == {"admitted", "recorded", "asked", "ensured", "looping", "closing"}
Holders(p) == {r \in Runs : Home[r] = p /\ at[r] \in Holding}
UserHolders(p, u) == {r \in Holders(p) : Owner[r] = u}
HolderUsers(p) == {Owner[r] : r \in Holders(p)}

\* However runs start, fail, end and are woken, the runs that hold a slot are within the
\* caps of their process.  The controller knows only its counters; this is about the
\* runs they stand for (_can_admit).
CapsKept ==
    \A p \in Procs :
        /\ MaxLoops = 0 \/ Cardinality(Holders(p)) <= MaxLoops
        /\ MaxLoopsPerUser = 0
            \/ \A u \in Users : Cardinality(UserHolders(p, u)) <= MaxLoopsPerUser
        /\ MaxUsers = 0 \/ Cardinality(HolderUsers(p)) <= MaxUsers

\* No wake-up is lost: a run that sleeps, for another reason than memory, would be refused
\* if it looked now, and a run of its process holds a slot, whose release will wake it
\* (acquire, release).
NoLostWakeup ==
    \A r \in Runs :
        at[r] = "asleep" /\ r \notin memHeld
            => ~WithinCaps(Home[r], Owner[r]) /\ Holders(Home[r]) # {}

\* An idle container that the reaper owes a stop is up, nobody in the backend uses it, and
\* the reaper knows: its user has a stamp, or is in the claim at hand (reap_once).
IdleRemembered ==
    \A u \in owed :
        /\ cont[u] # "none" /\ active[Backend][u] = 0
        /\ stamp[u] # "none" \/ u \in todo

\* Of two recorded runs of a user that are both about to call the broker, in whatever
\* processes, one at most may have the container replaced: the row is written before
\* the question is asked (no_live_recorded_run_for).
Replacer(r) == at[r] = "asked" /\ may[r] /\ row[r] = "live"
OneReplacer ==
    \A r, q \in Runs : Replacer(r) /\ Replacer(q) /\ Owner[r] = Owner[q] => r = q

\* The reaper takes a container from a run only if the run had not gone running, in any
\* process, when the events table was last asked (reap_once).
CutOnlyUnseen ==
    [][\A r \in Runs :
        at[r] \in {"ensured", "looping"} /\ cont[Owner[r]] # "none" /\ cont'[Owner[r]] = "none"
            => r \in late \/ row[r] # "live"]_vars

\* A run in the queue is admitted, unless memory was what it was last refused for: then
\* nothing but another release of its process looks again (acquire, release).
Queued(r) == at[r] \in {"asleep", "woken"}
QueuedAdmitted == \A r \in Runs : Queued(r) ~> ~Queued(r) \/ r \in memHeld

\* A container whose user went idle in the backend is stopped in the end, or its user
\* comes back, or the backend restarts: no veto, refusal or failing stop in between
\* makes the reaper forget it (claim_idle_users, reap_once).
IdleReclaimed == \A u \in Users : u \in owed ~> u \notin owed
=============================================================================
