------------------------------- MODULE Mailbox -------------------------------
(***************************************************************************)
(* What a lane of the message bus promises to those who write to an agent. *)
(* One letter is served at a time, and only a letter that still waits and  *)
(* has not failed too often.  A letter leaves for good, and only when it   *)
(* was given to the agent or a rule of the lane excuses it.  A turn that   *)
(* fails gives its letter back, until it is parked.  BusLane implements it *)
(* (KeepsMailbox).                                                         *)
(***************************************************************************)
EXTENDS Naturals

CONSTANTS
    Letters,   \* the messages addressed to the agent
    Threshold  \* failed turns after which a letter is parked

VARIABLES
    stage,     \* of each letter: absent, waiting, passed
    given,     \* letters the agent was shown
    excused,   \* letters a rule of the lane, or a known gap of it, leaves out
    parked,    \* letters that failed Threshold times
    serving,   \* the letter of the turn under way (0 = none)
    tries      \* failed turns of each letter, since its last retry

mailVars == <<stage, given, excused, parked, serving, tries>>

Init ==
    /\ stage = [m \in Letters |-> "absent"]
    /\ given = {} /\ excused = {} /\ parked = {}
    /\ serving = 0
    /\ tries = [m \in Letters |-> 0]

\* A letter lands.  One that others overtook may be passed already.
Arrive(m) ==
    /\ stage[m] = "absent" /\ stage'[m] \in {"waiting", "passed"}
    /\ \A k \in Letters \ {m} : stage'[k] = stage[k]
    /\ excused' \in {excused, excused \cup {m}}
    /\ stage'[m] = "passed" => m \in excused'
    /\ UNCHANGED <<given, parked, serving, tries>>

\* A turn is admitted to answer a letter.
Serve(m) ==
    /\ serving = 0
    /\ stage[m] = "waiting" /\ tries[m] < Threshold
    /\ serving' = m
    /\ UNCHANGED <<stage, given, excused, parked, tries>>

\* Letters are shown, by a turn only; letters are excused; letters are passed, each
\* with its reason.
Progress ==
    /\ given \subseteq given' /\ excused \subseteq excused'
    /\ given' # given => serving # 0
    /\ \A m \in Letters : stage'[m] # stage[m] =>
          /\ stage[m] = "waiting" /\ stage'[m] = "passed"
          /\ m \in given' \cup excused' \cup parked
    /\ UNCHANGED <<parked, serving, tries>>

\* The turn failed: its letter stays where it is, until it failed too often.
Fail ==
    /\ serving # 0 /\ serving' = 0
    /\ tries' = [tries EXCEPT ![serving] = @ + 1]
    /\ parked' = IF tries'[serving] >= Threshold THEN parked \cup {serving} ELSE parked
    /\ UNCHANGED <<stage, given, excused>>

\* The turn is over, or it is lost with its process.
Close ==
    /\ serving # 0 /\ serving' = 0
    /\ UNCHANGED <<stage, given, excused, parked, tries>>

\* The owner forgives a letter its failures.
Retry(m) ==
    /\ tries[m] > 0
    /\ tries' = [tries EXCEPT ![m] = 0]
    /\ UNCHANGED <<stage, given, excused, parked, serving>>

Next ==
    \/ \E m \in Letters : Arrive(m) \/ Serve(m) \/ Retry(m)
    \/ Progress \/ Fail \/ Close

Spec == Init /\ [][Next]_mailVars
=============================================================================
