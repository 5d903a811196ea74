------------------------------ MODULE RunLife ------------------------------
(***************************************************************************)
(* What the row of a run promises its readers (the chat's reconnect, the   *)
(* roster, the reaper, the breaker), whatever process drives the run: it   *)
(* appears running, it settles once, it is called cancelled only if        *)
(* somebody asked, and once asked it does settle.  The two ways out are    *)
(* explicit: a run that was suspected dead while it lived may be judged    *)
(* twice, and a run nobody listens for is not reached by a request.        *)
(***************************************************************************)
EXTENDS Naturals

CONSTANT NRuns   \* bound: runs
LifeRuns == 1 .. NRuns

VARIABLES
    life,     \* what a reader of the row sees
    asked,    \* a stop was asked of the run
    deaf,     \* runs no request reaches
    suspect   \* runs whose heartbeat stopped although they were alive

lifeVars == <<life, asked, deaf, suspect>>

Settled == {"completed", "cancelled", "failed"}

LifeInit ==
    /\ life = [r \in LifeRuns |-> "unseen"]
    /\ asked = [r \in LifeRuns |-> FALSE]
    /\ deaf \in SUBSET {1}
    /\ suspect = {}

Becomes(r, s) == life' = [life EXCEPT ![r] = s]

Appear(r) ==
    /\ life[r] = "unseen"
    /\ Becomes(r, "running")
    /\ UNCHANGED <<asked, deaf, suspect>>

\* A request lands on any row, settled ones included: it is then no request.  The first
\* one may be too old for the run, and then none that follows reaches it.
Ask(r) ==
    /\ asked' = [asked EXCEPT ![r] = TRUE]
    /\ deaf' \in {deaf} \cup (IF asked[r] THEN {} ELSE {deaf \cup {r}})
    /\ UNCHANGED <<life, suspect>>

Suspect(r) ==
    /\ suspect' = suspect \cup {r}
    /\ UNCHANGED <<life, asked, deaf>>

\* A verdict; a second one only about a suspect.  A row whose first write was lost
\* goes straight to its verdict.
Settle(r) ==
    /\ life[r] \in Settled => r \in suspect
    /\ \E s \in Settled :
          /\ s = "cancelled" => asked[r]
          /\ Becomes(r, s)
    /\ UNCHANGED <<asked, deaf, suspect>>

\* The settlement a request may count on.
SettleAsked(r) == life[r] = "running" /\ asked[r] /\ r \notin deaf /\ Settle(r)

LifeNext == \E r \in LifeRuns : Appear(r) \/ Ask(r) \/ Suspect(r) \/ Settle(r)

LifeSpec ==
    /\ LifeInit /\ [][LifeNext]_lifeVars
    /\ \A r \in LifeRuns : WF_lifeVars(SettleAsked(r))
=============================================================================
